--------------------------- MODULE KeyboardProofs ---------------------------
(***************************************************************************)
(* Proofs about module Keyboard, and about the ring of bytes, module Ring,  *)
(* that it takes for a queue.                                               *)
(*                                                                          *)
(* The keyboard's bytes are on their way in three places: those it has yet  *)
(* to send, those in kb_in, and those of a sequence the driver has begun to *)
(* parse.  FlowInv says what becomes of them: fed to the driver one after   *)
(* the other they make it know what the user does now, and let it put just  *)
(* the characters the user waits for, each when what it knows is what the   *)
(* user did then.                                                           *)
(***************************************************************************)
EXTENDS Keyboard, Ring, TLAPS

Long == {PauseBreak, PrintPressed, PrintReleased}

----------------------------------------------------------------------------
(* Scan codes *)

\* A prefix, place by place.
LEMMA PrefixAt ==
  ASSUME NEW s \in Seq(Nat), NEW t \in Seq(Nat)
  PROVE  IsPrefix(s, t) <=> Len(s) <= Len(t) /\ \A j \in 1 .. Len(s) : s[j] = t[j]
<1>1. CASE Len(s) <= Len(t)
  <2>1. /\ SubSeq(s, 1, Len(s)) \in Seq(Nat) /\ Len(SubSeq(s, 1, Len(s))) = Len(s)
        /\ \A j \in 1 .. Len(s) : SubSeq(s, 1, Len(s))[j] = s[j]
    OBVIOUS
  <2>2. /\ SubSeq(t, 1, Len(s)) \in Seq(Nat) /\ Len(SubSeq(t, 1, Len(s))) = Len(s)
        /\ \A j \in 1 .. Len(s) : SubSeq(t, 1, Len(s))[j] = t[j]
    BY <1>1
  <2>3. SubSeq(s, 1, Len(s)) = SubSeq(t, 1, Len(s)) <=> \A j \in 1 .. Len(s) : s[j] = t[j]
    BY <2>1, <2>2
  <2> QED
    BY <1>1, <2>3 DEF IsPrefix
<1>2. CASE ~(Len(s) <= Len(t))
  BY <1>2 DEF IsPrefix
<1> QED
  BY <1>1, <1>2

\* In particular in the first two places.
LEMMA PrefixFirst ==
  ASSUME NEW s \in Seq(Nat), NEW t \in Seq(Nat), IsPrefix(s, t), Len(s) >= 1
  PROVE  s[1] = t[1] /\ (Len(s) >= 2 => s[2] = t[2])
<1>1. \A j \in 1 .. Len(s) : s[j] = t[j]
  BY PrefixAt
<1> QED
  BY <1>1

\* The long codes, byte by byte.
LEMMA LongCodes ==
  /\ PauseBreak \in Seq(Nat) /\ PrintPressed \in Seq(Nat) /\ PrintReleased \in Seq(Nat)
  /\ Len(PauseBreak) = 6 /\ Len(PrintPressed) = 4 /\ Len(PrintReleased) = 4
  /\ PauseBreak[1] = 225 /\ PauseBreak[2] = 29 /\ PauseBreak[3] = 69 /\ PauseBreak[4] = 225
  /\ PauseBreak[5] = 157 /\ PauseBreak[6] = 197
  /\ PrintPressed[1] = 224 /\ PrintPressed[2] = 42 /\ PrintPressed[3] = 224 /\ PrintPressed[4] = 55
  /\ PrintReleased[1] = 224 /\ PrintReleased[2] = 183 /\ PrintReleased[3] = 224
  /\ PrintReleased[4] = 170
BY DEF PauseBreak, PrintPressed, PrintReleased, E0, E1

\* A byte that begins no sequence.
LEMMA PlainCode ==
  ASSUME NEW q \in Seq(Nat), Len(q) = 1, q[1] # 224, q[1] # 225
  PROVE  ~More(q) /\ q \notin Long
<1>1. ASSUME NEW u \in Seq(Nat), u[1] # q[1] PROVE ~IsPrefix(q, u)
  BY <1>1, PrefixFirst
<1>2. ~IsPrefix(q, PauseBreak)
  BY <1>1, LongCodes
<1>3. ~IsPrefix(q, PrintPressed)
  BY <1>1, LongCodes
<1>4. ~IsPrefix(q, PrintReleased)
  BY <1>1, LongCodes
<1>5. q \notin Long
  BY LongCodes DEF Long
<1>6. q # <<E0>>
  BY DEF E0
<1> QED
  BY <1>2, <1>3, <1>4, <1>5, <1>6 DEF More, IsStrictPrefix

\* A key with a prefix.
LEMMA PrefixMore == More(<<224>>)
BY DEF More, E0

LEMMA PrefixCode ==
  ASSUME NEW q \in Seq(Nat), Len(q) = 2, q[1] = 224, q[2] # 42, q[2] # 183
  PROVE  ~More(q) /\ q \notin Long
<1>1. ASSUME NEW u \in Seq(Nat), u[1] # 224 \/ u[2] # q[2] PROVE ~IsPrefix(q, u)
  BY <1>1, PrefixFirst
<1>2. ~IsPrefix(q, PauseBreak)
  BY <1>1, LongCodes
<1>3. ~IsPrefix(q, PrintPressed)
  BY <1>1, LongCodes
<1>4. ~IsPrefix(q, PrintReleased)
  BY <1>1, LongCodes
<1>5. q \notin Long
  BY LongCodes DEF Long
<1>6. q # <<E0>>
  BY DEF E0
<1> QED
  BY <1>2, <1>3, <1>4, <1>5, <1>6 DEF More, IsStrictPrefix

\* The sequences of Print Screen and Pause are waited for to their ends.
LEMMA LongCode ==
  ASSUME NEW t \in Long, NEW s \in Seq(Nat), s # <<>>, Len(s) < Len(t),
         \A j \in 1 .. Len(s) : s[j] = t[j]
  PROVE  More(s)
<1>1. t \in Seq(Nat)
  BY LongCodes DEF Long
<1>2. IsPrefix(s, t) /\ s # t
  BY <1>1, PrefixAt
<1> QED
  BY <1>2, Zenon DEF More, Long, IsStrictPrefix

\* After its end nothing more is waited for.
LEMMA LongEnds == ASSUME NEW t \in Long PROVE ~More(t) /\ t \in Seq(Nat) /\ Len(t) \in {4, 6}
<1>1. t \in Seq(Nat) /\ Len(t) \in {4, 6}
  BY LongCodes DEF Long
<1>2. t # <<E0>>
  <2>1. <<E0>> \in Seq(Nat) /\ Len(<<E0>>) = 1
    BY DEF E0
  <2>2. Len(t) # 1
    BY <1>1
  <2> QED
    BY <2>1, <2>2, Zenon
<1>3. ~IsStrictPrefix(t, PauseBreak) /\ ~IsStrictPrefix(t, PrintPressed)
      /\ ~IsStrictPrefix(t, PrintReleased)
  <2>1. ASSUME NEW u \in Long, IsPrefix(t, u) PROVE t = u
    <3>1. u \in Seq(Nat) /\ Len(t) <= Len(u) /\ \A j \in 1 .. Len(t) : t[j] = u[j]
      <4>1. u \in Seq(Nat)
        BY LongCodes DEF Long
      <4> QED
        BY <1>1, <2>1, <4>1, PrefixAt
    <3>2. t[1] = u[1] /\ t[2] = u[2]
      BY <1>1, <3>1
    <3>3. CASE t = PauseBreak
      BY <3>2, <3>3, LongCodes DEF Long
    <3>4. CASE t = PrintPressed
      BY <3>2, <3>4, LongCodes DEF Long
    <3>5. CASE t = PrintReleased
      BY <3>2, <3>5, LongCodes DEF Long
    <3> QED
      BY <3>3, <3>4, <3>5 DEF Long
  <2> QED
    BY <2>1 DEF IsStrictPrefix, Long
<1> QED
  BY <1>1, <1>2, <1>3 DEF More

\* The table of the keys.
LEMMA Codes ==
  /\ DOMAIN Code = {"A", "SHIFT_L", "ALT_L", "ALT_R", "CTRL_L", "CTRL_R", "CAPS_LOCK",
                    "F1", "F2"}
  /\ Code["A"] = 30 /\ Code["SHIFT_L"] = 42 /\ Code["ALT_L"] = 56 /\ Code["ALT_R"] = 56
  /\ Code["CTRL_L"] = 29 /\ Code["CTRL_R"] = 29 /\ Code["CAPS_LOCK"] = 58
  /\ Code["F1"] = 59 /\ Code["F2"] = 60
BY DEF Code

\* The codes of the keys are different, those with and those without the prefix.
LEMMA KeyCodes ==
  ASSUME NEW key \in DOMAIN Code, NEW e \in BOOLEAN, key \in Extended <=> e
  PROVE  Code[key] \in {29, 30, 42, 56, 58, 59, 60} /\ KeyOf(Code[key], e) = key
<1>1. Code[key] \in {29, 30, 42, 56, 58, 59, 60}
  BY Codes
<1>2. \A k \in DOMAIN Code : Code[k] = Code[key] /\ (k \in Extended <=> e) => k = key
  BY Codes DEF Extended
<1>3. {k \in DOMAIN Code : Code[k] = Code[key] /\ (k \in Extended <=> e)} = {key}
  BY <1>2
<1>4. KeyOf(Code[key], e) = CHOOSE k \in {key} : TRUE
  BY <1>3, Zenon DEF KeyOf
<1> QED
  BY <1>1, <1>4, Zenon

\* An acknowledgement is the release of no key.
LEMMA NoKey == KeyOf(122, FALSE) = "none"
<1>1. {k \in DOMAIN Code : Code[k] = 122 /\ (k \in Extended <=> FALSE)} = {}
  BY Codes
<1> QED
  BY <1>1, Zenon DEF KeyOf
----------------------------------------------------------------------------
(* What the driver makes of a byte *)

Con == 0 .. NR-1

\* What the driver knows: the bytes of an unfinished sequence, the modifiers, the
\* console.
Parsed == [seq : Seq(Nat), shift_l : BOOLEAN, ctrl_l : BOOLEAN, ctrl_r : BOOLEAN,
           alt_l : BOOLEAN, caps_lock : BOOLEAN, current : Con]

\* The driver that knows p learns that key has been pressed or released, and then
\* knows q.
Learns(p, key, make, q) ==
  /\ q.seq = <<>>
  /\ q.shift_l <=> IF key = "SHIFT_L" THEN make ELSE p.shift_l
  /\ q.ctrl_l <=> IF key = "CTRL_L" THEN make ELSE p.ctrl_l
  /\ q.ctrl_r <=> IF key = "CTRL_R" THEN make ELSE p.ctrl_r
  /\ q.alt_l <=> IF key \in {"ALT_L", "ALT_R"} THEN make ELSE p.alt_l
  /\ q.caps_lock <=> IF key = "CAPS_LOCK" /\ make THEN ~p.caps_lock ELSE p.caps_lock
  /\ q.current = IF make /\ Selects(key) THEN Function[key] ELSE p.current

\* Only the bytes of its sequence change.
Keeps(p, q) ==
  /\ q.shift_l = p.shift_l /\ q.ctrl_l = p.ctrl_l /\ q.ctrl_r = p.ctrl_r
  /\ q.alt_l = p.alt_l /\ q.caps_lock = p.caps_lock /\ q.current = p.current

\* The driver that knows p reads the byte b, and then knows q.
Fed(p, b, q) ==
  LET s == Append(p.seq, b)
  IN  /\ More(s) => q.seq = s /\ Keeps(p, q)
      /\ ~More(s) /\ s \in Long => q.seq = <<>> /\ Keeps(p, q)
      /\ ~More(s) /\ s \notin Long => Learns(p, KeyIn(s).key, KeyIn(s).make, q)

\* With b it puts a character into in_buf.
Puts(p, b) ==
  LET s == Append(p.seq, b)
  IN  ~More(s) /\ s \notin Long /\ KeyIn(s).make /\ KeyIn(s).key \in {"A", "none"}

\* The character that is right when the driver knows p.
Right(p) == [tty |-> p.current, capital |-> p.shift_l # p.caps_lock]

\* Reading b, the driver goes from p to q, and from having put n of the characters ty
\* to having put m: what it puts is right.
Feeds(p, n, b, q, m, ty) ==
  /\ Fed(p, b, q)
  /\ ~Puts(p, b) => m = n
  /\ Puts(p, b) => /\ m = n + 1 /\ m <= Len(ty)
                   /\ KeyIn(Append(p.seq, b)).key = "A" /\ ty[m] = Right(p)

\* The states f and the counts g on the way through the bytes B.
Way(B, ty, f, g) ==
  /\ f \in [0 .. Len(B) -> Parsed] /\ g \in [0 .. Len(B) -> Nat]
  /\ \A i, j \in 0 .. Len(B) : i <= j => g[i] <= g[j]
  /\ \A i \in 1 .. Len(B) : Feeds(f[i-1], g[i-1], B[i], f[i], g[i], ty)

\* Reading the bytes B, it goes from p and n to q and m.
Flow(B, ty, p, n, q, m) ==
  \E f, g : Way(B, ty, f, g) /\ f[0] = p /\ g[0] = n /\ f[Len(B)] = q /\ g[Len(B)] = m

Char == [tty : Nat, capital : BOOLEAN]

\* No byte.
LEMMA FlowNil ==
  ASSUME NEW ty \in Seq(Char), NEW p \in Parsed, NEW n \in Nat
  PROVE  Flow(<<>>, ty, p, n, p, n)
<1> DEFINE f == [i \in 0 .. 0 |-> p]
           g == [i \in 0 .. 0 |-> n]
<1>1. f \in [0 .. 0 -> Parsed] /\ g \in [0 .. 0 -> Nat] /\ f[0] = p /\ g[0] = n
  OBVIOUS
<1>2. Len(<<>>) = 0
  OBVIOUS
<1>3. Way(<<>>, ty, f, g)
  <2>1. \A i, j \in 0 .. 0 : i <= j => g[i] <= g[j]
    OBVIOUS
  <2> HIDE DEF f, g
  <2> QED
    BY <1>1, <1>2, <2>1 DEF Way
<1> HIDE DEF f, g
<1> QED
  BY <1>1, <1>2, <1>3 DEF Flow

\* Without a byte nothing changes.
LEMMA FlowEnds ==
  ASSUME NEW ty \in Seq(Char), NEW p, NEW n, NEW q, NEW m, Flow(<<>>, ty, p, n, q, m)
  PROVE  p = q /\ n = m
<1>1. Len(<<>>) = 0
  OBVIOUS
<1> QED
  BY <1>1 DEF Flow

\* One byte more.
LEMMA FlowAppend ==
  ASSUME NEW B \in Seq(Nat), NEW ty \in Seq(Char), NEW p, NEW n, NEW q, NEW m,
         NEW b \in Nat, NEW r \in Parsed, NEW k \in Nat,
         Flow(B, ty, p, n, q, m), Feeds(q, m, b, r, k, ty)
  PROVE  Flow(Append(B, b), ty, p, n, r, k)
<1>1. PICK f, g : Way(B, ty, f, g) /\ f[0] = p /\ g[0] = n /\ f[Len(B)] = q /\ g[Len(B)] = m
  BY DEF Flow
<1>2. PICK l \in Nat : l = Len(B)
  OBVIOUS
<1>3. /\ f \in [0 .. l -> Parsed] /\ g \in [0 .. l -> Nat]
      /\ \A i, j \in 0 .. l : i <= j => g[i] <= g[j]
      /\ \A i \in 1 .. l : Feeds(f[i-1], g[i-1], B[i], f[i], g[i], ty)
  BY <1>1, <1>2 DEF Way
<1> DEFINE B1 == Append(B, b)
           f1 == [i \in 0 .. l+1 |-> IF i = l + 1 THEN r ELSE f[i]]
           g1 == [i \in 0 .. l+1 |-> IF i = l + 1 THEN k ELSE g[i]]
<1>4. /\ B1 \in Seq(Nat) /\ Len(B1) = l + 1 /\ B1[l + 1] = b
      /\ \A i \in 1 .. l : B1[i] = B[i]
  BY <1>2
<1>5. f1 \in [0 .. l+1 -> Parsed] /\ f1[l + 1] = r /\ \A i \in 0 .. l : f1[i] = f[i]
  BY <1>2, <1>3
<1>6. g1 \in [0 .. l+1 -> Nat] /\ g1[l + 1] = k /\ \A i \in 0 .. l : g1[i] = g[i]
  BY <1>2, <1>3
<1>7. m \in Nat /\ m <= k
  BY <1>1, <1>2, <1>3 DEF Feeds
<1> HIDE DEF B1, f1, g1
<1>8. ASSUME NEW i \in 0 .. l+1, NEW j \in 0 .. l+1, i <= j PROVE g1[i] <= g1[j]
  <2>1. CASE j \in 0 .. l
    <3>1. i \in 0 .. l
      BY <1>2, <1>8, <2>1
    <3>2. g[i] <= g[j]
      BY <1>3, <1>8, <2>1, <3>1
    <3> QED
      BY <1>6, <2>1, <3>1, <3>2
  <2>2. CASE j = l + 1 /\ i \in 0 .. l
    <3>0. l \in 0 .. l /\ i <= l
      BY <1>2, <2>2
    <3>1. g[i] <= g[l] /\ g[i] \in Nat /\ g[l] = m
      BY <1>1, <1>2, <1>3, <2>2, <3>0
    <3> QED
      BY <1>6, <1>7, <2>2, <3>1
  <2>3. CASE j = l + 1 /\ i = l + 1
    BY <1>6, <2>3
  <2> QED
    BY <1>2, <1>8, <2>1, <2>2, <2>3
<1>9. ASSUME NEW i \in 1 .. l+1 PROVE Feeds(f1[i-1], g1[i-1], B1[i], f1[i], g1[i], ty)
  <2>1. CASE i \in 1 .. l
    <3>1. i - 1 \in 0 .. l /\ i \in 0 .. l
      BY <1>2, <2>1
    <3>2. f1[i-1] = f[i-1] /\ g1[i-1] = g[i-1] /\ f1[i] = f[i] /\ g1[i] = g[i] /\ B1[i] = B[i]
      BY <1>4, <1>5, <1>6, <2>1, <3>1
    <3> QED
      BY <1>3, <2>1, <3>2
  <2>2. CASE i = l + 1
    <3>1. i - 1 = l /\ l \in 0 .. l
      BY <1>2, <2>2
    <3>2. f1[i-1] = q /\ g1[i-1] = m
      BY <1>1, <1>2, <1>5, <1>6, <3>1
    <3>3. f1[i] = r /\ g1[i] = k /\ B1[i] = b
      BY <1>4, <1>5, <1>6, <2>2
    <3> QED
      BY <3>2, <3>3
  <2> QED
    BY <1>2, <2>1, <2>2
<1>10. Way(B1, ty, f1, g1)
  <2>1. f1 \in [0 .. Len(B1) -> Parsed] /\ g1 \in [0 .. Len(B1) -> Nat]
    BY <1>4, <1>5, <1>6
  <2>2. \A i, j \in 0 .. Len(B1) : i <= j => g1[i] <= g1[j]
    BY <1>4, <1>8
  <2>3. \A i \in 1 .. Len(B1) : Feeds(f1[i-1], g1[i-1], B1[i], f1[i], g1[i], ty)
    BY <1>4, <1>9
  <2> QED
    BY <2>1, <2>2, <2>3 DEF Way
<1>11. f1[0] = p /\ g1[0] = n
  BY <1>1, <1>2, <1>5, <1>6
<1> QED
  BY <1>4, <1>5, <1>6, <1>10, <1>11 DEF Flow, B1

\* The first byte.
LEMMA FlowHead ==
  ASSUME NEW B \in Seq(Nat), B # <<>>, NEW ty \in Seq(Char), NEW p, NEW n, NEW q, NEW m,
         Flow(B, ty, p, n, q, m)
  PROVE  \E r \in Parsed, k \in Nat :
           Feeds(p, n, Head(B), r, k, ty) /\ Flow(Tail(B), ty, r, k, q, m)
<1>1. PICK f, g : Way(B, ty, f, g) /\ f[0] = p /\ g[0] = n /\ f[Len(B)] = q /\ g[Len(B)] = m
  BY DEF Flow
<1>2. PICK l \in Nat : Len(B) = l + 1
  <2>1. Len(B) \in Nat /\ Len(B) # 0
    OBVIOUS
  <2>2. Len(B) - 1 \in Nat /\ Len(B) = (Len(B) - 1) + 1
    BY <2>1
  <2> QED
    BY <2>2
<1>3. /\ f \in [0 .. l+1 -> Parsed] /\ g \in [0 .. l+1 -> Nat]
      /\ \A i, j \in 0 .. l+1 : i <= j => g[i] <= g[j]
      /\ \A i \in 1 .. l+1 : Feeds(f[i-1], g[i-1], B[i], f[i], g[i], ty)
  BY <1>1, <1>2 DEF Way
<1> DEFINE B1 == Tail(B)
           f1 == [i \in 0 .. l |-> f[i + 1]]
           g1 == [i \in 0 .. l |-> g[i + 1]]
<1>4. /\ B1 \in Seq(Nat) /\ Len(B1) = l /\ B[1] = Head(B)
      /\ \A i \in 1 .. l : B1[i] = B[i + 1]
  BY <1>2
<1>5. f1 \in [0 .. l -> Parsed] /\ \A i \in 0 .. l : f1[i] = f[i + 1]
  BY <1>2, <1>3
<1>6. g1 \in [0 .. l -> Nat] /\ \A i \in 0 .. l : g1[i] = g[i + 1]
  BY <1>2, <1>3
<1> HIDE DEF B1, f1, g1
<1>7. f[1] \in Parsed /\ g[1] \in Nat /\ Feeds(p, n, Head(B), f[1], g[1], ty)
  <2>1. 1 \in 1 .. l+1 /\ 1 - 1 = 0
    BY <1>2
  <2> QED
    BY <1>1, <1>3, <1>4, <2>1
<1>8. Way(B1, ty, f1, g1)
  <2>1. ASSUME NEW i \in 0 .. l, NEW j \in 0 .. l, i <= j PROVE g1[i] <= g1[j]
    BY <1>2, <1>3, <1>6, <2>1
  <2>2. ASSUME NEW i \in 1 .. l PROVE Feeds(f1[i-1], g1[i-1], B1[i], f1[i], g1[i], ty)
    <3>1. i - 1 \in 0 .. l /\ i \in 0 .. l /\ i + 1 \in 1 .. l+1 /\ (i - 1) + 1 = i
          /\ (i + 1) - 1 = i
      BY <1>2
    <3>2. f1[i-1] = f[i] /\ g1[i-1] = g[i] /\ f1[i] = f[i+1] /\ g1[i] = g[i+1]
          /\ B1[i] = B[i+1]
      BY <1>4, <1>5, <1>6, <3>1
    <3> QED
      BY <1>3, <3>1, <3>2
  <2> QED
    BY <1>4, <1>5, <1>6, <2>1, <2>2 DEF Way
<1>9. f1[0] = f[1] /\ g1[0] = g[1] /\ f1[l] = q /\ g1[l] = m
  BY <1>1, <1>2, <1>5, <1>6
<1>10. Flow(B1, ty, f[1], g[1], q, m)
  BY <1>4, <1>8, <1>9 DEF Flow
<1> QED
  BY <1>7, <1>10 DEF B1

\* The user types one character more.
LEMMA FlowTyped ==
  ASSUME NEW B \in Seq(Nat), NEW ty \in Seq(Char), NEW p, NEW n, NEW q, NEW m,
         NEW x \in Char, Flow(B, ty, p, n, q, m)
  PROVE  Flow(B, Append(ty, x), p, n, q, m)
<1>1. PICK f, g : Way(B, ty, f, g) /\ f[0] = p /\ g[0] = n /\ f[Len(B)] = q /\ g[Len(B)] = m
  BY DEF Flow
<1>2. ASSUME NEW i \in 1 .. Len(B)
      PROVE  Feeds(f[i-1], g[i-1], B[i], f[i], g[i], Append(ty, x))
  <2>1. Feeds(f[i-1], g[i-1], B[i], f[i], g[i], ty)
    BY <1>1, <1>2 DEF Way
  <2>2. i - 1 \in 0 .. Len(B)
    BY <1>2
  <2>3. g[i-1] \in Nat
    BY <1>1, <2>2 DEF Way
  <2>4. ASSUME NEW k \in Nat, k = g[i-1] + 1, k <= Len(ty)
        PROVE  k <= Len(Append(ty, x)) /\ Append(ty, x)[k] = ty[k]
    BY <2>3, <2>4
  <2> QED
    BY <2>1, <2>3, <2>4 DEF Feeds
<1>3. Way(B, Append(ty, x), f, g)
  BY <1>1, <1>2 DEF Way
<1> QED
  BY <1>1, <1>3 DEF Flow

\* The first character has been written.
LEMMA FlowWritten ==
  ASSUME NEW B \in Seq(Nat), NEW ty \in Seq(Char), NEW p, NEW n \in Nat, NEW q,
         NEW m \in Nat, ty # <<>>, Flow(B, ty, p, n + 1, q, m)
  PROVE  Flow(B, Tail(ty), p, n, q, m - 1)
<1>1. PICK f, g : Way(B, ty, f, g) /\ f[0] = p /\ g[0] = n + 1 /\ f[Len(B)] = q /\ g[Len(B)] = m
  BY DEF Flow
<1>2. PICK l \in Nat : l = Len(B)
  OBVIOUS
<1>3. /\ f \in [0 .. l -> Parsed] /\ g \in [0 .. l -> Nat]
      /\ \A i, j \in 0 .. l : i <= j => g[i] <= g[j]
      /\ \A i \in 1 .. l : Feeds(f[i-1], g[i-1], B[i], f[i], g[i], ty)
  BY <1>1, <1>2 DEF Way
<1>4. \A i \in 0 .. l : g[i] \in Nat \ {0}
  BY <1>1, <1>2, <1>3
<1> DEFINE h == [i \in 0 .. l |-> g[i] - 1]
<1>5. h \in [0 .. l -> Nat] /\ \A i \in 0 .. l : h[i] = g[i] - 1
  BY <1>2, <1>4
<1> HIDE DEF h
<1>6. \A i, j \in 0 .. l : i <= j => h[i] <= h[j]
  BY <1>2, <1>3, <1>4, <1>5
<1>7. ASSUME NEW i \in 1 .. l PROVE Feeds(f[i-1], h[i-1], B[i], f[i], h[i], Tail(ty))
  <2>1. i - 1 \in 0 .. l /\ i \in 0 .. l
    BY <1>2
  <2>0. \A x \in Nat \ {0} : \E a \in Nat : x = a + 1
    <3>1. ASSUME NEW x \in Nat \ {0} PROVE \E a \in Nat : x = a + 1
      <4>1. x - 1 \in Nat /\ x = (x - 1) + 1
        BY <3>1
      <4> QED
        BY <4>1
    <3> QED
      BY <3>1
  <2>2. PICK a \in Nat : g[i-1] = a + 1
    <3>1. g[i-1] \in Nat \ {0}
      BY <1>4, <2>1
    <3> QED
      BY <2>0, <3>1
  <2>3. PICK c \in Nat : g[i] = c + 1
    <3>1. g[i] \in Nat \ {0}
      BY <1>4, <2>1
    <3> QED
      BY <2>0, <3>1
  <2>4. h[i-1] = a /\ h[i] = c
    BY <1>5, <2>1, <2>2, <2>3
  <2>5. Feeds(f[i-1], a + 1, B[i], f[i], c + 1, ty)
    BY <1>3, <2>2, <2>3
  <2>6. ASSUME c + 1 = a + 1 + 1, c + 1 <= Len(ty)
        PROVE  c = a + 1 /\ c <= Len(Tail(ty)) /\ Tail(ty)[c] = ty[c + 1]
    BY <2>6
  <2>7. c + 1 = a + 1 => c = a
    OBVIOUS
  <2> QED
    BY <2>4, <2>5, <2>6, <2>7 DEF Feeds
<1>8. Way(B, Tail(ty), f, h)
  BY <1>2, <1>3, <1>5, <1>6, <1>7 DEF Way
<1>9. h[0] = n /\ h[l] = m - 1
  BY <1>1, <1>2, <1>5
<1> QED
  BY <1>1, <1>2, <1>8, <1>9 DEF Flow
----------------------------------------------------------------------------
(* What it makes of the code of a key *)

\* One element more.
LEMMA Longer ==
  ASSUME NEW s \in Seq(Nat), NEW b \in Nat
  PROVE  /\ Append(s, b) \in Seq(Nat) /\ Len(Append(s, b)) = Len(s) + 1
         /\ Append(s, b)[Len(s) + 1] = b /\ \A j \in 1 .. Len(s) : Append(s, b)[j] = s[j]
OBVIOUS

\* Sequences with the same elements are the same.
LEMMA SameSeq ==
  ASSUME NEW x \in Seq(Nat), NEW y \in Seq(Nat), Len(x) = Len(y),
         \A j \in 1 .. Len(x) : x[j] = y[j]
  PROVE  x = y
OBVIOUS

\* Sequences of bytes one after the other.
LEMMA CatType == ASSUME NEW B \in Seq(Nat), NEW s \in Seq(Nat) PROVE B \o s \in Seq(Nat)
OBVIOUS

LEMMA CatAppend ==
  ASSUME NEW B \in Seq(Nat), NEW s \in Seq(Nat), NEW b \in Nat
  PROVE  Append(B \o s, b) = B \o Append(s, b)
<1> DEFINE X == Append(B \o s, b)
           Y == B \o Append(s, b)
<1>1. X \in Seq(Nat) /\ Len(X) = Len(B) + Len(s) + 1
  OBVIOUS
<1>2. Y \in Seq(Nat) /\ Len(Y) = Len(B) + Len(s) + 1
  OBVIOUS
<1>3. ASSUME NEW j \in 1 .. Len(X) PROVE X[j] = Y[j]
  <2>1. CASE j \in 1 .. Len(B)
    BY <2>1
  <2>2. CASE j \in Len(B) + 1 .. Len(B) + Len(s)
    BY <2>2
  <2>3. CASE j = Len(B) + Len(s) + 1
    BY <2>3
  <2> QED
    BY <1>1, <2>1, <2>2, <2>3
<1>4. PICK x \in Seq(Nat) : x = X
  BY <1>1
<1>5. PICK y \in Seq(Nat) : y = Y
  BY <1>2
<1>6. Len(x) = Len(y) /\ \A j \in 1 .. Len(x) : x[j] = y[j]
  BY <1>1, <1>2, <1>3, <1>4, <1>5
<1>7. x = y
  BY <1>6, SameSeq
<1> QED
  BY <1>4, <1>5, <1>7

\* On the way through one of the long sequences.
Midway(p, t, i, q) == q \in Parsed /\ q.seq = SubSeq(t, 1, i) /\ Keeps(p, q)

\* Pause and Print Screen leave nothing behind.
LEMMA LongFlow ==
  ASSUME NEW B \in Seq(Nat), NEW ty \in Seq(Char), NEW p0, NEW n0, NEW p \in Parsed,
         NEW n \in Nat, NEW t \in Long, p.seq = <<>>, Flow(B, ty, p0, n0, p, n)
  PROVE  Flow(B \o t, ty, p0, n0, p, n)
<1> DEFINE P(i) == \E q : Midway(p, t, i, q) /\ Flow(B \o SubSeq(t, 1, i), ty, p0, n0, q, n)
<1>1. t \in Seq(Nat) /\ Len(t) \in {4, 6}
  BY LongEnds
<1>2. P(0)
  <2>1. SubSeq(t, 1, 0) = <<>> /\ B \o <<>> = B
    BY <1>1
  <2>2. Midway(p, t, 0, p)
    BY <2>1 DEF Midway, Keeps
  <2> QED
    BY <2>1, <2>2
<1>3. ASSUME NEW i \in Nat, i + 1 < Len(t), P(i) PROVE P(i + 1)
  <2>1. PICK q : Midway(p, t, i, q) /\ Flow(B \o SubSeq(t, 1, i), ty, p0, n0, q, n)
    BY <1>3
  <2>2. PICK s : s = SubSeq(t, 1, i)
    OBVIOUS
  <2>3. s \in Seq(Nat) /\ Len(s) = i /\ \A j \in 1 .. i : s[j] = t[j]
    BY <1>1, <1>3, <2>2
  <2>4. PICK b \in Nat : b = t[i + 1]
    <3>1. i + 1 \in 1 .. Len(t)
      BY <1>1, <1>3
    <3> QED
      BY <1>1, <3>1
  <2>5. PICK u : u = Append(s, b)
    OBVIOUS
  <2>6. u \in Seq(Nat) /\ Len(u) = i + 1 /\ \A j \in 1 .. i + 1 : u[j] = t[j]
    BY <2>3, <2>4, <2>5
  <2>7. u = SubSeq(t, 1, i + 1)
    <3>1. /\ SubSeq(t, 1, i + 1) \in Seq(Nat) /\ Len(SubSeq(t, 1, i + 1)) = i + 1
          /\ \A j \in 1 .. i + 1 : SubSeq(t, 1, i + 1)[j] = t[j]
      BY <1>1, <1>3
    <3> QED
      BY <2>6, <3>1
  <2>8. More(u)
    <3>1. u # <<>>
      BY <2>6, <1>3
    <3> QED
      BY <1>1, <1>3, <2>6, <3>1, LongCode
  <2>9. q \in Parsed /\ q.seq = s /\ Keeps(p, q)
    BY <2>1, <2>2 DEF Midway
  <2>10. PICK r \in Parsed : r.seq = u /\ Keeps(p, r)
    <3>1. [p EXCEPT !.seq = u] \in Parsed
      BY <2>6 DEF Parsed
    <3> QED
      BY <3>1 DEF Keeps, Parsed
  <2>11. Feeds(q, n, b, r, n, ty)
    BY <2>5, <2>8, <2>9, <2>10 DEF Feeds, Fed, Puts, Keeps
  <2>12. PICK C \in Seq(Nat) : C = B \o s
    BY <2>3, CatType, Zenon
  <2>13. Append(C, b) = B \o u
    BY <2>3, <2>5, <2>12, CatAppend, Zenon
  <2>14. Flow(C, ty, p0, n0, q, n)
    BY <2>1, <2>2, <2>12
  <2>15. Flow(B \o u, ty, p0, n0, r, n)
    BY <2>11, <2>13, <2>14, FlowAppend
  <2>16. Midway(p, t, i + 1, r)
    BY <2>7, <2>10 DEF Midway
  <2> QED
    BY <2>7, <2>15, <2>16
<1>4. ASSUME NEW i \in Nat, i + 1 = Len(t), P(i) PROVE Flow(B \o t, ty, p0, n0, p, n)
  <2>1. PICK q : Midway(p, t, i, q) /\ Flow(B \o SubSeq(t, 1, i), ty, p0, n0, q, n)
    BY <1>4
  <2>2. PICK s : s = SubSeq(t, 1, i)
    OBVIOUS
  <2>3. s \in Seq(Nat) /\ Len(s) = i /\ \A j \in 1 .. i : s[j] = t[j]
    BY <1>1, <1>4, <2>2
  <2>4. PICK b \in Nat : b = t[i + 1]
    <3>1. i + 1 \in 1 .. Len(t)
      BY <1>1, <1>4
    <3> QED
      BY <1>1, <3>1
  <2>5. Append(s, b) = t
    <3>1. PICK u \in Seq(Nat) : u = Append(s, b)
      BY <2>3, Longer, Zenon
    <3>2. Len(u) = Len(t) /\ u[i + 1] = b /\ \A j \in 1 .. i : u[j] = s[j]
      BY <1>4, <2>3, <3>1, Longer
    <3>3. ASSUME NEW j \in 1 .. Len(t) PROVE u[j] = t[j]
      <4>1. j \in 1 .. i \/ j = i + 1
        BY <1>1, <1>4, <3>3
      <4>2. CASE j \in 1 .. i
        BY <2>3, <3>2, <4>2
      <4>3. CASE j = i + 1
        BY <2>4, <3>2, <4>3
      <4> QED
        BY <4>1, <4>2, <4>3
    <3>4. u = t
      <4>1. \A j \in 1 .. Len(u) : u[j] = t[j]
        BY <3>2, <3>3
      <4> QED
        BY <1>1, <3>2, <4>1, SameSeq
    <3> QED
      BY <3>1, <3>4
  <2>6. q \in Parsed /\ q.seq = s /\ Keeps(p, q)
    BY <2>1, <2>2 DEF Midway
  <2>7. Keeps(q, p)
    BY <2>6 DEF Keeps
  <2>8. ~More(t)
    BY LongEnds
  <2>9. Feeds(q, n, b, p, n, ty)
    BY <2>5, <2>6, <2>7, <2>8 DEF Feeds, Fed, Puts
  <2>10. PICK C \in Seq(Nat) : C = B \o s
    BY <2>3, CatType, Zenon
  <2>11. Append(C, b) = B \o t
    <3>1. Append(C, b) = B \o Append(s, b)
      BY <2>3, <2>10, CatAppend, Zenon
    <3> QED
      BY <2>5, <3>1
  <2>12. Flow(C, ty, p0, n0, q, n)
    BY <2>1, <2>2, <2>10
  <2> QED
    BY <2>9, <2>11, <2>12, FlowAppend
<1> HIDE DEF P
<1>5. P(0 + 1) /\ P(1 + 1) /\ P(2 + 1)
  <2>1. 0 + 1 < Len(t) /\ 1 + 1 < Len(t) /\ 2 + 1 < Len(t)
    <3>1. CASE Len(t) = 4
      BY <3>1
    <3>2. CASE Len(t) = 6
      BY <3>2
    <3> QED
      BY <1>1, <3>1, <3>2
  <2>2. P(0 + 1)
    BY <1>2, <1>3, <2>1
  <2>3. P(1 + 1)
    BY <1>3, <2>1, <2>2
  <2> QED
    BY <1>3, <2>1, <2>2, <2>3
<1>6. CASE Len(t) = 4
  BY <1>4, <1>5, <1>6
<1>7. CASE Len(t) = 6
  <2>1. P(3 + 1)
    BY <1>3, <1>5, <1>7
  <2>2. P(4 + 1)
    BY <1>3, <1>7, <2>1
  <2> QED
    BY <1>4, <1>7, <2>2
<1> QED
  BY <1>1, <1>6, <1>7

\* The key of a sequence that is complete.
LEMMA KeyInAt ==
  ASSUME NEW s \in Seq(Nat), NEW key \in DOMAIN Code, NEW make \in BOOLEAN,
         key \in Extended <=> s[1] = E0,
         (IF key \in Extended THEN s[2] ELSE s[1]) = Code[key] + (IF make THEN 0 ELSE 128)
  PROVE  KeyIn(s).key = key /\ (KeyIn(s).make <=> make)
<1>1. Code[key] \in Nat /\ Code[key] < 128
  BY Codes
<1>2. PICK c \in Nat : c = Code[key] + (IF make THEN 0 ELSE 128)
  BY <1>1
<1>3. c % 128 = Code[key] /\ (c < 128 <=> make)
  <2>1. PICK d \in Nat : d = Code[key] /\ d < 128
    BY <1>1
  <2>2. d % 128 = d /\ (d + 128) % 128 = d
    <3>1. d \in {29, 30, 42, 56, 58, 59, 60}
      BY <2>1, Codes
    <3> QED
      BY <3>1
  <2>3. CASE make
    BY <1>2, <2>1, <2>2, <2>3
  <2>4. CASE ~make
    BY <1>2, <2>1, <2>2, <2>4
  <2> QED
    BY <2>3, <2>4
<1>4. KeyOf(Code[key], s[1] = E0) = key
  BY KeyCodes
<1>5. CASE key \in Extended
  <2>1. s[1] = E0 /\ s[2] = c
    BY <1>2, <1>5
  <2>2. KeyIn(s).key = KeyOf(c % 128, s[1] = E0) /\ (KeyIn(s).make <=> c < 128)
    BY <2>1 DEF KeyIn
  <2> QED
    BY <1>3, <1>4, <2>2
<1>6. CASE key \notin Extended
  <2>1. s[1] # E0 /\ s[1] = c
    BY <1>2, <1>6
  <2>2. KeyIn(s).key = KeyOf(c % 128, s[1] = E0) /\ (KeyIn(s).make <=> c < 128)
    BY <2>1 DEF KeyIn
  <2> QED
    BY <1>3, <1>4, <2>2
<1> QED
  BY <1>5, <1>6

\* What the keyboard sends.
Sent(key, make) == IF make THEN Pressed(key) ELSE Released(key)

\* After the code of any other key the driver knows of it, and has put the character of
\* the key A.
LEMMA KeyFlow ==
  ASSUME NEW B \in Seq(Nat), NEW ty \in Seq(Char), NEW p0, NEW n0, NEW p \in Parsed,
         NEW n \in Nat, NEW key \in DOMAIN Code, NEW make \in BOOLEAN,
         NEW q \in Parsed, NEW m \in Nat,
         p.seq = <<>>, Flow(B, ty, p0, n0, p, n), Learns(p, key, make, q),
         make /\ key = "A" => m = n + 1 /\ m <= Len(ty) /\ ty[m] = Right(p),
         ~(make /\ key = "A") => m = n
  PROVE  Flow(B \o Sent(key, make), ty, p0, n0, q, m)
<1>1. Code[key] \in {29, 30, 42, 56, 58, 59, 60}
  BY Codes
<1>2. PICK c \in Nat : c = Code[key] + (IF make THEN 0 ELSE 128)
  BY <1>1
<1>3. c # 224 /\ c # 225 /\ (key \in Extended => c # 42 /\ c # 183)
  BY <1>1, <1>2, Codes DEF Extended
<1>4. key # "PAUSEBREAK" /\ key # "PRINTSCREEN" /\ key # "none"
  BY Codes
<1>5. ASSUME NEW r \in Parsed, NEW b \in Nat, NEW s \in Seq(Nat), s = Append(r.seq, b),
             Keeps(p, r), ~More(s), s \notin Long,
             KeyIn(s).key = key, KeyIn(s).make <=> make
      PROVE  Feeds(r, n, b, q, m, ty)
  <2>1. Learns(r, key, make, q)
    BY <1>5 DEF Learns, Keeps
  <2>2. Right(r) = Right(p)
    BY <1>5 DEF Right, Keeps
  <2>3. Fed(r, b, q)
    <3>1. Learns(r, KeyIn(s).key, KeyIn(s).make, q)
      BY <1>5, <2>1 DEF Learns
    <3> QED
      BY <1>5, <3>1 DEF Fed
  <2>4. Puts(r, b) <=> make /\ key = "A"
    BY <1>4, <1>5 DEF Puts
  <2> QED
    BY <1>5, <2>2, <2>3, <2>4 DEF Feeds
<1>6. CASE key \notin Extended
  <2>1. Sent(key, make) = <<c>>
    <3>1. CASE make
      <4>1. c = Code[key]
        BY <1>1, <1>2, <3>1
      <4> QED
        BY <1>4, <1>6, <3>1, <4>1, Zenon DEF Sent, Pressed
    <3>2. CASE ~make
      BY <1>2, <1>4, <1>6, <3>2, Zenon DEF Sent, Released
    <3> QED
      BY <3>1, <3>2
  <2>2. PICK s \in Seq(Nat) : s = Append(p.seq, c)
    <3>1. p.seq \in Seq(Nat)
      BY DEF Parsed
    <3> QED
      BY <3>1, Longer, Zenon
  <2>3. Len(s) = 1 /\ s[1] = c
    BY <2>2
  <2>4. ~More(s) /\ s \notin Long
    BY <1>3, <2>3, PlainCode
  <2>5. KeyIn(s).key = key /\ (KeyIn(s).make <=> make)
    <3>1. s[1] # E0
      BY <1>3, <2>3 DEF E0
    <3> QED
      BY <1>2, <1>6, <2>3, <3>1, KeyInAt
  <2>6. Feeds(p, n, c, q, m, ty)
    BY <1>5, <2>2, <2>4, <2>5 DEF Keeps
  <2>7. Append(B, c) = B \o <<c>>
    OBVIOUS
  <2> QED
    BY <2>1, <2>6, <2>7, FlowAppend
<1>7. CASE key \in Extended
  <2>1. Sent(key, make) = <<224, c>>
    <3>1. CASE make
      <4>1. c = Code[key]
        BY <1>1, <1>2, <3>1
      <4> QED
        BY <1>4, <1>7, <3>1, <4>1, Zenon DEF Sent, Pressed, E0
    <3>2. CASE ~make
      BY <1>2, <1>4, <1>7, <3>2, Zenon DEF Sent, Released, E0
    <3> QED
      BY <3>1, <3>2
  <2>2. PICK r \in Parsed : r.seq = <<224>> /\ Keeps(p, r)
    <3>1. PICK u \in Seq(Nat) : u = <<224>>
      <4>1. <<224>> \in Seq(Nat)
        OBVIOUS
      <4> QED
        BY <4>1
    <3>2. [p EXCEPT !.seq = u] \in Parsed
      BY DEF Parsed
    <3>3. [p EXCEPT !.seq = u].seq = u /\ Keeps(p, [p EXCEPT !.seq = u])
      BY DEF Keeps, Parsed
    <3> QED
      BY <3>1, <3>2, <3>3
  <2>3. Feeds(p, n, 224, r, n, ty)
    <3>1. Append(p.seq, 224) = <<224>>
      OBVIOUS
    <3> QED
      BY <2>2, <3>1, PrefixMore DEF Feeds, Fed, Puts
  <2>4. Flow(Append(B, 224), ty, p0, n0, r, n)
    BY <2>3, FlowAppend
  <2>5. PICK s \in Seq(Nat) : s = Append(r.seq, c)
    <3>1. r.seq \in Seq(Nat)
      BY DEF Parsed
    <3> QED
      BY <3>1, Longer, Zenon
  <2>6. Len(s) = 2 /\ s[1] = 224 /\ s[2] = c
    BY <2>2, <2>5
  <2>7. ~More(s) /\ s \notin Long
    BY <1>3, <1>7, <2>6, PrefixCode
  <2>8. KeyIn(s).key = key /\ (KeyIn(s).make <=> make)
    <3>1. s[1] = E0
      BY <2>6 DEF E0
    <3> QED
      BY <1>2, <1>7, <2>6, <3>1, KeyInAt
  <2>9. Feeds(r, n, c, q, m, ty)
    BY <1>5, <2>2, <2>5, <2>7, <2>8
  <2>10. PICK C \in Seq(Nat) : C = Append(B, 224)
    <3>1. Append(B, 224) \in Seq(Nat)
      OBVIOUS
    <3> QED
      BY <3>1
  <2>11. Append(C, c) = B \o <<224, c>>
    BY <2>10
  <2>12. Flow(Append(C, c), ty, p0, n0, q, m)
    <3>1. Flow(C, ty, p0, n0, r, n)
      BY <2>4, <2>10
    <3> QED
      BY <2>9, <3>1, FlowAppend
  <2> QED
    BY <2>1, <2>11, <2>12
<1> QED
  BY <1>6, <1>7

\* The answers to set_leds, which are read as scan codes, change nothing.
LEMMA AckFlow ==
  ASSUME NEW B \in Seq(Nat), NEW ty \in Seq(Char), NEW p0, NEW n0, NEW p \in Parsed,
         NEW n \in Nat, p.seq = <<>>, Flow(B, ty, p0, n0, p, n)
  PROVE  Flow(B \o <<KB_ACK>>, ty, p0, n0, p, n)
<1>1. PICK s \in Seq(Nat) : s = Append(p.seq, 250)
  <2>1. p.seq \in Seq(Nat) /\ 250 \in Nat
    BY DEF Parsed
  <2>2. Append(p.seq, 250) \in Seq(Nat)
    BY <2>1
  <2> QED
    BY <2>2
<1>2. Len(s) = 1 /\ s[1] = 250
  BY <1>1
<1>3. ~More(s) /\ s \notin Long
  BY <1>2, PlainCode
<1>4. KeyIn(s).key = "none" /\ ~KeyIn(s).make
  <2>1. s[1] # E0 /\ 250 % 128 = 122 /\ ~(250 < 128)
    BY <1>2 DEF E0
  <2>2. KeyIn(s).key = KeyOf(250 % 128, s[1] = E0) /\ (KeyIn(s).make <=> 250 < 128)
    <3>1. ASSUME NEW c \in Nat, s[1] = c
          PROVE  KeyIn(s).key = KeyOf(c % 128, s[1] = E0) /\ (KeyIn(s).make <=> c < 128)
      BY <2>1, <3>1 DEF KeyIn
    <3> QED
      BY <1>2, <3>1
  <2>3. (s[1] = E0) = FALSE
    BY <2>1
  <2> QED
    BY <2>1, <2>2, <2>3, NoKey
<1>5. Learns(p, KeyIn(s).key, KeyIn(s).make, p)
  BY <1>4 DEF Learns, Parsed
<1>6. Feeds(p, n, 250, p, n, ty)
  BY <1>1, <1>3, <1>4, <1>5 DEF Feeds, Fed, Puts
<1>7. Append(B, 250) = B \o <<KB_ACK>>
  BY DEF KB_ACK
<1>8. Flow(Append(B, 250), ty, p0, n0, p, n)
  BY <1>6, FlowAppend
<1> QED
  BY <1>7, <1>8
----------------------------------------------------------------------------
(* The invariant *)

InKey == [key : {"A", "none"}, capital : BOOLEAN]

KbType ==
  /\ locked \in BOOLEAN /\ shown \in Con /\ typed \in Seq(Char) /\ lost \in BOOLEAN
  /\ out \in Seq(Nat) /\ kb_in \in Seq(Nat) /\ tty \in Con /\ seq \in Seq(Nat)
  /\ shift_l \in BOOLEAN /\ alt_l \in BOOLEAN /\ ctrl_l \in BOOLEAN /\ ctrl_r \in BOOLEAN
  /\ caps_lock \in BOOLEAN /\ inbuf \in [Con -> Seq(InKey)] /\ current \in Con

\* A character is in in_buf only between the reading and the writing of its TTY, and
\* the rest of a sequence is waited for by the TTY that began to read it.
BufInv ==
  /\ \A t \in Con : t # tty \/ pc # "write" => inbuf[t] = <<>>
  /\ Len(inbuf[tty]) <= 1
  /\ seq # <<>> => pc = "read" /\ tty = current

Driver == [seq |-> seq, shift_l |-> shift_l, ctrl_l |-> ctrl_l, ctrl_r |-> ctrl_r,
           alt_l |-> alt_l, caps_lock |-> caps_lock, current |-> current]

\* It knows of the keyboard what the user does.
Knows(q) ==
  /\ q.seq = <<>>
  /\ q.shift_l <=> "SHIFT_L" \in down
  /\ q.ctrl_l <=> "CTRL_L" \in down
  /\ q.ctrl_r <=> "CTRL_R" \in down
  /\ q.alt_l => {"ALT_L", "ALT_R"} \cap down # {}
  /\ q.caps_lock <=> locked
  /\ q.current = shown

\* The bytes on their way are the right ones: when the driver has read them it will
\* know what the user does, and will have put the characters the user waits for.
FlowInv ==
  ~lost => \E q \in Parsed :
    Knows(q) /\ Flow(kb_in \o out, typed, Driver, Len(inbuf[tty]), q, Len(typed))

IInv == KbType /\ BufInv /\ KeysInOrder /\ FlowInv

----------------------------------------------------------------------------
(* Types *)

\* The driver knows the same when each part of what it knows is the same.
LEMMA SameParsed ==
  ASSUME NEW p \in Parsed, NEW q \in Parsed, p.seq = q.seq, p.shift_l <=> q.shift_l,
         p.ctrl_l <=> q.ctrl_l, p.ctrl_r <=> q.ctrl_r, p.alt_l <=> q.alt_l,
         p.caps_lock <=> q.caps_lock, p.current = q.current
  PROVE  p = q
<1>1. p.shift_l = q.shift_l /\ p.ctrl_l = q.ctrl_l /\ p.ctrl_r = q.ctrl_r
      /\ p.alt_l = q.alt_l /\ p.caps_lock = q.caps_lock
  BY DEF Parsed
<1> QED
  BY <1>1 DEF Parsed

\* What the driver knows, and in the next state.
LEMMA DriverType == KbType => Driver \in Parsed
BY DEF KbType, Driver, Parsed

LEMMA DriverTypeNext == KbType' => Driver' \in Parsed
BY DEF KbType, Driver, Parsed

\* A key is pressed or released.
LEMMA KeyInType == ASSUME NEW s PROVE KeyIn(s).make \in BOOLEAN
BY DEF KeyIn

\* The consoles are numbers, and console 0 is one of them.
LEMMA ConIsInt == Con \subseteq Nat /\ 0 \in Con
BY KeyboardAssumption DEF Con

\* A console that can be selected exists.
LEMMA Selected ==
  ASSUME NEW key, Selects(key) PROVE Function[key] \in Con
<1>1. key \in {"F1", "F2"} /\ Function["F1"] = 0 /\ Function["F2"] = 1 /\ Function[key] < NR
  BY DEF Selects, Function
<1> QED
  BY <1>1, KeyboardAssumption DEF Con

\* The codes of the keys are sequences of bytes.
LEMMA CodeType ==
  ASSUME NEW key \in Keys
  PROVE  Pressed(key) \in Seq(Nat) /\ Released(key) \in Seq(Nat)
<1>1. key = "PAUSEBREAK" \/ key = "PRINTSCREEN" \/ key \in DOMAIN Code
  BY KeyboardAssumption
<1>2. key \in DOMAIN Code => Code[key] \in Nat
  BY Codes
<1>3. CASE key = "PAUSEBREAK"
  BY <1>3, LongCodes DEF Pressed, Released
<1>4. CASE key = "PRINTSCREEN"
  BY <1>4, LongCodes DEF Pressed, Released
<1>5. CASE key \in DOMAIN Code
  <2>1. PICK c \in Nat : c = Code[key]
    BY <1>2, <1>5
  <2>2. <<c>> \in Seq(Nat) /\ <<c + 128>> \in Seq(Nat) /\ <<E0, c>> \in Seq(Nat)
        /\ <<E0, c + 128>> \in Seq(Nat)
    BY DEF E0
  <2>3. key # "PAUSEBREAK" /\ key # "PRINTSCREEN"
    BY <1>5, Codes
  <2> QED
    BY <2>1, <2>2, <2>3, Zenon DEF Pressed, Released
<1> QED
  BY <1>1, <1>3, <1>4, <1>5

\* The last byte of a sequence, without the abbreviations of the action.
LEMMA ReadEndDoes ==
  ASSUME KbType, ReadEnd
  PROVE  \E b \in Nat, s \in Seq(Nat) :
    /\ b = Head(kb_in) /\ s = Append(seq, b) /\ ~More(s)
    /\ kb_in # <<>> /\ kb_in' = Tail(kb_in) /\ pc = "read" /\ (seq # <<>> \/ tty = current)
    /\ seq' = <<>> /\ tty' = tty /\ out' = out /\ lost' = lost /\ typed' = typed
    /\ down' = down /\ locked' = locked /\ shown' = shown
    /\ s \in Long =>
         /\ shift_l' = shift_l /\ ctrl_l' = ctrl_l /\ ctrl_r' = ctrl_r /\ alt_l' = alt_l
         /\ caps_lock' = caps_lock /\ inbuf' = inbuf /\ current' = current
    /\ s \notin Long =>
         /\ Modify(KeyIn(s).key, KeyIn(s).make)
         /\ KeyIn(s).make => PutKey(KeyIn(s).key)
         /\ ~KeyIn(s).make => inbuf' = inbuf
         /\ KeyIn(s).key = "CAPS_LOCK" \/ pc' = "write"
         /\ current' = IF KeyIn(s).make /\ Selects(KeyIn(s).key)
                       THEN Function[KeyIn(s).key] ELSE current
    /\ s \in Long => pc' = "write"
    /\ pc' # "read"
<1>1. kb_in # <<>> /\ Head(kb_in) \in Nat
  BY DEF KbType, ReadEnd
<1>2. PICK b \in Nat : b = Head(kb_in)
  BY <1>1
<1>3. PICK s \in Seq(Nat) : s = Append(seq, b)
  <2>1. seq \in Seq(Nat)
    BY DEF KbType
  <2> QED
    BY <2>1, Longer, Zenon
<1>4. s = Append(seq, Head(kb_in))
  BY <1>2, <1>3
<1>5. /\ ~More(s) /\ kb_in' = Tail(kb_in) /\ pc = "read" /\ (seq # <<>> \/ tty = current)
      /\ seq' = <<>> /\ tty' = tty /\ out' = out /\ lost' = lost /\ typed' = typed
      /\ down' = down /\ locked' = locked /\ shown' = shown
  BY <1>4 DEF ReadEnd, user, dev
<1>6. CASE s \in Long
  <2>1. pc' = "write" /\ UNCHANGED <<mods, inbuf, current>>
    BY <1>4, <1>6 DEF ReadEnd, Long
  <2>2. /\ shift_l' = shift_l /\ ctrl_l' = ctrl_l /\ ctrl_r' = ctrl_r /\ alt_l' = alt_l
        /\ caps_lock' = caps_lock /\ inbuf' = inbuf /\ current' = current
    BY <2>1 DEF mods
  <2> QED
    BY <1>1, <1>2, <1>3, <1>5, <1>6, <2>1, <2>2
<1>7. CASE s \notin Long
  <2>1. /\ Modify(KeyIn(s).key, KeyIn(s).make)
        /\ IF KeyIn(s).make THEN PutKey(KeyIn(s).key) ELSE UNCHANGED inbuf
        /\ current' = IF KeyIn(s).make /\ Selects(KeyIn(s).key)
                      THEN Function[KeyIn(s).key] ELSE current
        /\ pc' = IF KeyIn(s).key = "CAPS_LOCK" /\ KeyIn(s).make THEN "led_code" ELSE "write"
    BY <1>4, <1>7 DEF ReadEnd, Long
  <2> QED
    BY <1>1, <1>2, <1>3, <1>5, <1>7, <2>1, Zenon
<1> QED
  BY <1>6, <1>7

\* put_key: at most one character more, of the TTY whose turn it is.
LEMMA PutKeyDoes ==
  ASSUME KbType, NEW key, PutKey(key)
  PROVE  /\ inbuf' \in [Con -> Seq(InKey)]
         /\ \A t \in Con : t # tty => inbuf'[t] = inbuf[t]
         /\ key \notin {"A", "none"} => inbuf' = inbuf
         /\ key \in {"A", "none"} /\ inbuf[tty] = <<>> =>
              inbuf'[tty] = <<[key |-> key, capital |-> shift_l # caps_lock]>>
<1> DEFINE x == [key |-> key, capital |-> shift_l # caps_lock]
<1>1. tty \in Con /\ inbuf[tty] \in Seq(InKey) /\ inbuf \in [Con -> Seq(InKey)]
  BY DEF KbType
<1>2. CASE key \in {"A", "none"} /\ Len(inbuf[tty]) < TTY_IN_BYTES
  <2>1. x \in InKey
    BY <1>2 DEF InKey, KbType
  <2>2. PICK y \in InKey : y = x
    BY <2>1
  <2>3. inbuf' = [inbuf EXCEPT ![tty] = Append(inbuf[tty], y)]
    BY <1>2, <2>2 DEF PutKey
  <2>4. inbuf[tty] = <<>> => Append(inbuf[tty], y) = <<y>>
    BY <1>1
  <2>5. Append(inbuf[tty], y) \in Seq(InKey)
    BY <1>1
  <2> HIDE DEF x
  <2>6. inbuf' \in [Con -> Seq(InKey)] /\ inbuf'[tty] = Append(inbuf[tty], y)
        /\ \A t \in Con : t # tty => inbuf'[t] = inbuf[t]
    BY <1>1, <2>3, <2>5
  <2> QED
    BY <1>2, <2>2, <2>4, <2>6 DEF x
<1>3. CASE ~(key \in {"A", "none"} /\ Len(inbuf[tty]) < TTY_IN_BYTES)
  <2>1. inbuf' = inbuf
    BY <1>3, Zenon DEF PutKey
  <2>2. inbuf[tty] = <<>> => Len(inbuf[tty]) < TTY_IN_BYTES
    BY KeyboardAssumption
  <2> QED
    BY <1>1, <1>3, <2>1, <2>2
<1> QED
  BY <1>2, <1>3

\* tty_do_write: the TTY whose turn it is has nothing left, and the next one's comes.
LEMMA WriteKeyDoes ==
  ASSUME KbType, WriteKey
  PROVE  /\ tty' \in Con /\ inbuf' \in [Con -> Seq(InKey)]
         /\ \A t \in Con : t # tty => inbuf'[t] = inbuf[t]
         /\ inbuf'[tty] = IF inbuf[tty] = <<>> THEN <<>> ELSE Tail(inbuf[tty])
<1>1. tty \in Con /\ inbuf[tty] \in Seq(InKey) /\ inbuf \in [Con -> Seq(InKey)]
  BY DEF KbType
<1>2. tty' \in Con
  <2>1. PICK x \in Nat : x = tty + 1
    BY <1>1, ConIsInt
  <2>2. PICK n \in Nat \ {0} : n = NR
    BY KeyboardAssumption
  <2>3. x % n \in 0 .. n-1
    BY <2>1, <2>2
  <2> QED
    BY <2>1, <2>2, <2>3 DEF WriteKey, Con
<1>3. PICK y \in Seq(InKey) : y = IF inbuf[tty] = <<>> THEN <<>> ELSE Tail(inbuf[tty])
  <2>1. CASE inbuf[tty] = <<>>
    BY <1>1, <2>1
  <2>2. CASE inbuf[tty] # <<>>
    <3>1. Tail(inbuf[tty]) \in Seq(InKey)
      BY <1>1, <2>2
    <3> QED
      BY <2>2, <3>1
  <2> QED
    BY <2>1, <2>2
<1>4. inbuf' = [inbuf EXCEPT ![tty] = y]
  BY <1>1, <1>3 DEF WriteKey
<1> QED
  BY <1>1, <1>2, <1>3, <1>4

\* Every step keeps the types.
LEMMA TypeStep == ASSUME KbType, [Next]_vars PROVE KbType'
<1>1. ASSUME NEW key \in Keys, Press(key) PROVE KbType'
  <2>1. out' \in Seq(Nat)
    BY <1>1, CodeType DEF Press
  <2>2. locked' \in BOOLEAN
    BY <1>1 DEF Press, KbType
  <2>3. shown' \in Con
    BY <1>1, Selected DEF Press, KbType
  <2>4. typed' \in Seq(Char)
    <3>1. Wanted \in Char
      BY ConIsInt DEF KbType, Wanted, Char
    <3> QED
      BY <1>1, <3>1 DEF Press, KbType
  <2> QED
    BY <1>1, <2>1, <2>2, <2>3, <2>4 DEF Press, KbType, mods
<1>2. ASSUME NEW key \in Keys, Release(key) PROVE KbType'
  <2>1. out' \in Seq(Nat)
    BY <1>2, CodeType DEF Release
  <2> QED
    BY <1>2, <2>1 DEF Release, KbType, mods
<1>3. CASE TakeCommand
  <2>1. out' \in Seq(Nat)
    BY <1>3 DEF TakeCommand, KB_ACK
  <2> QED
    BY <1>3, <2>1 DEF TakeCommand, KbType, mods, user
<1>4. CASE Arrive
  <2>1. out' \in Seq(Nat) /\ kb_in' \in Seq(Nat) /\ lost' \in BOOLEAN
    <3>1. out \in Seq(Nat) /\ kb_in \in Seq(Nat) /\ out # <<>>
      BY <1>4 DEF Arrive, KbType
    <3>2. Head(out) \in Nat /\ Tail(out) \in Seq(Nat)
      BY <3>1
    <3>3. Append(kb_in, Head(out)) \in Seq(Nat)
      BY <3>1, <3>2
    <3> QED
      BY <1>4, <3>1, <3>2, <3>3 DEF Arrive, KbType
  <2> QED
    BY <1>4, <2>1 DEF Arrive, KbType, mods, user
<1>5. CASE Skip
  BY <1>5 DEF Skip, KbType, mods, user, dev
<1>6. CASE ReadOn
  <2>1. kb_in' \in Seq(Nat) /\ seq' \in Seq(Nat)
    BY <1>6 DEF ReadOn, KbType
  <2> QED
    BY <1>6, <2>1 DEF ReadOn, KbType, mods, user, dev
<1>7. CASE ReadEnd
  <2>1. PICK b \in Nat, s \in Seq(Nat) :
    /\ kb_in # <<>> /\ kb_in' = Tail(kb_in)
    /\ seq' = <<>> /\ tty' = tty /\ out' = out /\ lost' = lost /\ typed' = typed
    /\ locked' = locked /\ shown' = shown
    /\ s \in Long =>
         /\ shift_l' = shift_l /\ ctrl_l' = ctrl_l /\ ctrl_r' = ctrl_r /\ alt_l' = alt_l
         /\ caps_lock' = caps_lock /\ inbuf' = inbuf /\ current' = current
    /\ s \notin Long =>
         /\ Modify(KeyIn(s).key, KeyIn(s).make)
         /\ KeyIn(s).make => PutKey(KeyIn(s).key)
         /\ ~KeyIn(s).make => inbuf' = inbuf
         /\ current' = IF KeyIn(s).make /\ Selects(KeyIn(s).key)
                       THEN Function[KeyIn(s).key] ELSE current
    BY <1>7, ReadEndDoes, Zenon
  <2>2. kb_in' \in Seq(Nat) /\ seq' \in Seq(Nat)
    BY <2>1 DEF KbType
  <2>3. /\ shift_l' \in BOOLEAN /\ ctrl_l' \in BOOLEAN /\ ctrl_r' \in BOOLEAN
        /\ alt_l' \in BOOLEAN /\ caps_lock' \in BOOLEAN
    BY <2>1, KeyInType DEF KbType, Modify
  <2>4. inbuf' \in [Con -> Seq(InKey)]
    BY <2>1, PutKeyDoes DEF KbType
  <2>5. current' \in Con
    BY <2>1, Selected DEF KbType
  <2> QED
    BY <2>1, <2>2, <2>3, <2>4, <2>5 DEF KbType
<1>8. CASE SetLeds
  BY <1>8 DEF SetLeds, Write, Ack, KbType, mods, user, dev
<1>9. CASE WriteKey
  <2>1. typed' \in Seq(Char)
    BY <1>9 DEF WriteKey, KbType
  <2> QED
    BY <1>9, <2>1, WriteKeyDoes DEF WriteKey, KbType, mods, dev
<1>10. CASE UNCHANGED vars
  BY <1>10 DEF vars, KbType, mods, user, dev
<1> QED
  BY <1>1, <1>2, <1>3, <1>4, <1>5, <1>6, <1>7, <1>8, <1>9, <1>10
  DEF Next, KeyboardStep, TaskStep

----------------------------------------------------------------------------
(* in_buf *)

\* The driver reads a byte: it is the first of those on their way.
LEMMA StreamHead ==
  ASSUME KbType, kb_in # <<>>
  PROVE  /\ kb_in \o out \in Seq(Nat) /\ kb_in \o out # <<>>
         /\ Head(kb_in \o out) = Head(kb_in) /\ Tail(kb_in \o out) = Tail(kb_in) \o out
<1>1. PICK B \in Seq(Nat) : B = kb_in \o out
  <2>1. kb_in \o out \in Seq(Nat)
    BY DEF KbType
  <2> QED
    BY <2>1
<1>2. kb_in \in Seq(Nat) /\ out \in Seq(Nat) /\ Len(kb_in) >= 1
  BY DEF KbType
<1>3. Len(B) = Len(kb_in) + Len(out) /\ B # <<>> /\ B[1] = kb_in[1]
  BY <1>1, <1>2
<1>4. Head(B) = Head(kb_in)
  BY <1>2, <1>3
<1>5. PICK X \in Seq(Nat) : X = Tail(B)
  <2>1. Tail(B) \in Seq(Nat)
    BY <1>3
  <2> QED
    BY <2>1
<1>6. PICK T \in Seq(Nat) : T = Tail(kb_in)
  <2>1. Tail(kb_in) \in Seq(Nat)
    BY <1>2
  <2> QED
    BY <2>1
<1>7. PICK Y \in Seq(Nat) : Y = T \o out
  BY <1>2, CatType, Zenon
<1>8. Len(T) = Len(kb_in) - 1 /\ \A j \in 1 .. Len(T) : T[j] = kb_in[j + 1]
  BY <1>2, <1>6
<1>9. Len(X) = Len(Y)
  <2>1. Len(Y) = Len(T) + Len(out)
    BY <1>2, <1>7
  <2>2. Len(X) = Len(B) - 1
    BY <1>3, <1>5
  <2> QED
    BY <1>2, <1>3, <1>8, <2>1, <2>2
<1>10. ASSUME NEW j \in 1 .. Len(X) PROVE X[j] = Y[j]
  <2>1. j \in Nat /\ j >= 1 /\ j + 1 <= Len(B) /\ X[j] = B[j + 1]
    BY <1>3, <1>5, <1>10
  <2>2. CASE j <= Len(T)
    <3>1. Y[j] = T[j]
      BY <1>2, <1>7, <2>1, <2>2
    <3>2. B[j + 1] = kb_in[j + 1]
      BY <1>1, <1>2, <1>8, <2>1, <2>2
    <3>3. j \in 1 .. Len(T)
      BY <1>6, <2>1, <2>2
    <3>4. T[j] = kb_in[j + 1]
      BY <1>8, <3>3, Zenon
    <3> QED
      BY <2>1, <3>1, <3>2, <3>4, Zenon
  <2>3. CASE j > Len(T)
    <3>1. Y[j] = out[j - Len(T)]
      <4>1. j \in Len(T) + 1 .. Len(T) + Len(out)
        BY <1>2, <1>3, <1>8, <2>1, <2>3
      <4> QED
        BY <1>2, <1>7, <4>1
    <3>2. B[j + 1] = out[j + 1 - Len(kb_in)]
      BY <1>1, <1>2, <1>3, <1>8, <2>1, <2>3
    <3>3. j - Len(T) = j + 1 - Len(kb_in)
      BY <1>2, <1>8, <2>1
    <3> QED
      BY <2>1, <3>1, <3>2, <3>3
  <2> QED
    BY <2>1, <2>2, <2>3
<1>11. X = Y
  BY <1>9, <1>10, SameSeq
<1> QED
  BY <1>1, <1>3, <1>4, <1>5, <1>6, <1>7, <1>11

\* What FlowInv says of that byte.
LEMMA FirstByte ==
  ASSUME KbType, FlowInv, ~lost, kb_in # <<>>
  PROVE  \E q \in Parsed, r \in Parsed, k \in Nat :
           /\ Knows(q)
           /\ Feeds(Driver, Len(inbuf[tty]), Head(kb_in), r, k, typed)
           /\ Flow(Tail(kb_in) \o out, typed, r, k, q, Len(typed))
<1>1. PICK q \in Parsed :
    Knows(q) /\ Flow(kb_in \o out, typed, Driver, Len(inbuf[tty]), q, Len(typed))
  BY DEF FlowInv
<1>2. PICK B \in Seq(Nat) : B = kb_in \o out
  BY StreamHead
<1>3. typed \in Seq(Char) /\ B # <<>> /\ Head(B) = Head(kb_in) /\ Tail(B) = Tail(kb_in) \o out
  BY <1>2, StreamHead DEF KbType
<1>4. \E r \in Parsed, k \in Nat :
         /\ Feeds(Driver, Len(inbuf[tty]), Head(B), r, k, typed)
         /\ Flow(Tail(B), typed, r, k, q, Len(typed))
  BY <1>1, <1>2, <1>3, FlowHead
<1> QED
  BY <1>1, <1>3, <1>4

\* The last byte of a sequence, in the terms of the invariant.
LEMMA ReadEndPuts ==
  ASSUME KbType, BufInv, ReadEnd
  PROVE  \E b \in Nat, s \in Seq(Nat) :
    /\ b = Head(kb_in) /\ s = Append(Driver.seq, b) /\ ~More(s)
    /\ kb_in # <<>> /\ kb_in' = Tail(kb_in) /\ tty = current
    /\ seq' = <<>> /\ tty' = tty /\ out' = out /\ lost' = lost /\ typed' = typed
    /\ down' = down /\ locked' = locked /\ shown' = shown /\ pc' # "read"
    /\ s \in Long =>
         /\ shift_l' = shift_l /\ ctrl_l' = ctrl_l /\ ctrl_r' = ctrl_r /\ alt_l' = alt_l
         /\ caps_lock' = caps_lock /\ current' = current
    /\ s \notin Long =>
         /\ Modify(KeyIn(s).key, KeyIn(s).make)
         /\ current' = IF KeyIn(s).make /\ Selects(KeyIn(s).key)
                       THEN Function[KeyIn(s).key] ELSE current
    /\ \A t \in Con : inbuf[t] = <<>>
    /\ inbuf' \in [Con -> Seq(InKey)]
    /\ ~Puts(Driver, b) => inbuf' = inbuf
    /\ Puts(Driver, b) =>
         /\ pc' = "write" /\ \A t \in Con : t # tty => inbuf'[t] = inbuf[t]
         /\ inbuf'[tty] = <<[key |-> KeyIn(s).key, capital |-> shift_l # caps_lock]>>
<1>1. PICK b \in Nat, s \in Seq(Nat) :
    /\ b = Head(kb_in) /\ s = Append(seq, b) /\ ~More(s)
    /\ kb_in # <<>> /\ kb_in' = Tail(kb_in) /\ pc = "read" /\ (seq # <<>> \/ tty = current)
    /\ seq' = <<>> /\ tty' = tty /\ out' = out /\ lost' = lost /\ typed' = typed
    /\ down' = down /\ locked' = locked /\ shown' = shown
    /\ s \in Long =>
         /\ shift_l' = shift_l /\ ctrl_l' = ctrl_l /\ ctrl_r' = ctrl_r /\ alt_l' = alt_l
         /\ caps_lock' = caps_lock /\ inbuf' = inbuf /\ current' = current
    /\ s \notin Long =>
         /\ Modify(KeyIn(s).key, KeyIn(s).make)
         /\ KeyIn(s).make => PutKey(KeyIn(s).key)
         /\ ~KeyIn(s).make => inbuf' = inbuf
         /\ KeyIn(s).key = "CAPS_LOCK" \/ pc' = "write"
         /\ current' = IF KeyIn(s).make /\ Selects(KeyIn(s).key)
                       THEN Function[KeyIn(s).key] ELSE current
    /\ s \in Long => pc' = "write"
    /\ pc' # "read"
  BY ReadEndDoes, Zenon
<1>2. Driver.seq = seq
  BY DEF Driver
<1>3. tty = current /\ tty \in Con /\ \A t \in Con : inbuf[t] = <<>>
  BY <1>1 DEF BufInv, KbType
<1>4. Puts(Driver, b) <=> s \notin Long /\ KeyIn(s).make /\ KeyIn(s).key \in {"A", "none"}
  BY <1>1, <1>2 DEF Puts
<1>5. inbuf \in [Con -> Seq(InKey)]
  BY DEF KbType
<1>6. ~Puts(Driver, b) => inbuf' = inbuf
  BY <1>1, <1>4, PutKeyDoes
<1>7. ASSUME Puts(Driver, b)
      PROVE  /\ pc' = "write" /\ \A t \in Con : t # tty => inbuf'[t] = inbuf[t]
             /\ inbuf'[tty] = <<[key |-> KeyIn(s).key, capital |-> shift_l # caps_lock]>>
             /\ inbuf' \in [Con -> Seq(InKey)]
  <2>1. s \notin Long /\ KeyIn(s).make /\ KeyIn(s).key \in {"A", "none"}
    BY <1>4, <1>7
  <2>2. PutKey(KeyIn(s).key)
    BY <1>1, <2>1
  <2>3. pc' = "write"
    BY <1>1, <2>1
  <2>4. inbuf[tty] = <<>>
    BY <1>3
  <2> QED
    BY <2>1, <2>2, <2>3, <2>4, PutKeyDoes
<1>8. inbuf' \in [Con -> Seq(InKey)]
  BY <1>5, <1>6, <1>7
<1>9. s = Append(Driver.seq, b)
  BY <1>1, <1>2
<1>10. /\ s \in Long =>
            /\ shift_l' = shift_l /\ ctrl_l' = ctrl_l /\ ctrl_r' = ctrl_r /\ alt_l' = alt_l
            /\ caps_lock' = caps_lock /\ current' = current
       /\ s \notin Long =>
            /\ Modify(KeyIn(s).key, KeyIn(s).make)
            /\ current' = IF KeyIn(s).make /\ Selects(KeyIn(s).key)
                          THEN Function[KeyIn(s).key] ELSE current
  BY <1>1
<1> QED
  BY <1>1, <1>3, <1>6, <1>7, <1>8, <1>9, <1>10, Zenon

\* The character the last byte of a sequence puts is the next one the user waits for.
LEMMA ReadEndBuf == ASSUME IInv, ReadEnd PROVE BufInv' /\ KeysInOrder'
<1>1. KbType /\ BufInv /\ FlowInv
  BY DEF IInv
<1>2. PICK b \in Nat, s \in Seq(Nat) :
    /\ b = Head(kb_in) /\ s = Append(Driver.seq, b)
    /\ kb_in # <<>> /\ tty = current
    /\ seq' = <<>> /\ tty' = tty /\ lost' = lost /\ typed' = typed
    /\ \A t \in Con : inbuf[t] = <<>>
    /\ inbuf' \in [Con -> Seq(InKey)]
    /\ ~Puts(Driver, b) => inbuf' = inbuf
    /\ Puts(Driver, b) =>
         /\ pc' = "write" /\ \A t \in Con : t # tty => inbuf'[t] = inbuf[t]
         /\ inbuf'[tty] = <<[key |-> KeyIn(s).key, capital |-> shift_l # caps_lock]>>
  BY <1>1, ReadEndPuts, Zenon
<1>3. tty \in Con /\ inbuf[tty] = <<>> /\ Len(inbuf[tty]) = 0
  BY <1>1, <1>2 DEF KbType
<1>4. CASE ~Puts(Driver, b)
  BY <1>2, <1>3, <1>4 DEF BufInv, KeysInOrder
<1>5. CASE Puts(Driver, b)
  <2>1. PICK y : y = [key |-> KeyIn(s).key, capital |-> shift_l # caps_lock]
    OBVIOUS
  <2>2. inbuf'[tty] = <<y>> /\ Len(inbuf'[tty]) = 1 /\ Head(inbuf'[tty]) = y
    <3>1. inbuf'[tty] = <<y>>
      BY <1>2, <1>5, <2>1
    <3>2. Len(<<y>>) = 1 /\ Head(<<y>>) = y
      OBVIOUS
    <3> QED
      BY <3>1, <3>2
  <2>3. BufInv'
    BY <1>2, <1>3, <1>5, <2>2 DEF BufInv
  <2>4. ASSUME ~lost
        PROVE  /\ typed # <<>> /\ tty = Head(typed).tty
               /\ y = [key |-> "A", capital |-> Head(typed).capital]
    <3>1. PICK r \in Parsed, k \in Nat : Feeds(Driver, Len(inbuf[tty]), b, r, k, typed)
      BY <1>1, <1>2, <2>4, FirstByte
    <3>2. /\ k = Len(inbuf[tty]) + 1 /\ k <= Len(typed)
          /\ KeyIn(s).key = "A" /\ typed[k] = Right(Driver)
      BY <1>2, <1>5, <3>1 DEF Feeds
    <3>3. k = 1 /\ typed \in Seq(Char)
      BY <1>1, <1>3, <3>2 DEF KbType
    <3>4. typed # <<>> /\ Head(typed) = Right(Driver)
      BY <3>2, <3>3
    <3>5. Right(Driver) = [tty |-> current, capital |-> shift_l # caps_lock]
      BY DEF Right, Driver
    <3> QED
      BY <1>2, <2>1, <3>2, <3>4, <3>5
  <2>5. KeysInOrder'
    BY <1>2, <2>2, <2>4 DEF KeysInOrder
  <2> QED
    BY <2>3, <2>5
<1> QED
  BY <1>4, <1>5

\* Every step keeps in_buf as BufInv has it, and the characters in their order.
LEMMA BufStep == ASSUME IInv, [Next]_vars PROVE BufInv' /\ KeysInOrder'
<1>1. KbType /\ BufInv /\ KeysInOrder
  BY DEF IInv
<1>2. ASSUME NEW key \in Keys, Press(key) PROVE BufInv' /\ KeysInOrder'
  <2>1. /\ pc' = pc /\ tty' = tty /\ inbuf' = inbuf /\ seq' = seq /\ current' = current
        /\ lost' = lost /\ typed' = IF key = "A" THEN Append(typed, Wanted) ELSE typed
    BY <1>2 DEF Press
  <2>2. typed # <<>> => typed' # <<>> /\ Head(typed') = Head(typed)
    <3>1. Wanted \in Char /\ typed \in Seq(Char)
      BY <1>1, ConIsInt DEF KbType, Wanted, Char
    <3>2. PICK w \in Char : w = Wanted
      BY <3>1
    <3>3. typed # <<>> => Append(typed, w) # <<>> /\ Head(Append(typed, w)) = Head(typed)
      BY <3>1
    <3> QED
      BY <2>1, <3>2, <3>3
  <2> QED
    BY <1>1, <2>1, <2>2 DEF BufInv, KeysInOrder
<1>3. ASSUME NEW key \in Keys, Release(key) PROVE BufInv' /\ KeysInOrder'
  BY <1>1, <1>3 DEF Release, BufInv, KeysInOrder
<1>4. CASE TakeCommand
  BY <1>1, <1>4 DEF TakeCommand, BufInv, KeysInOrder, user
<1>5. CASE Arrive
  <2>1. pc' = pc /\ tty' = tty /\ inbuf' = inbuf /\ seq' = seq /\ current' = current
        /\ typed' = typed /\ (lost' = lost \/ lost' = TRUE)
    BY <1>5 DEF Arrive, user
  <2> QED
    BY <1>1, <2>1 DEF BufInv, KeysInOrder
<1>6. CASE Skip
  BY <1>1, <1>6 DEF Skip, BufInv, KeysInOrder, KbType
<1>7. CASE ReadOn
  BY <1>1, <1>7 DEF ReadOn, BufInv, KeysInOrder, user, dev
<1>8. CASE ReadEnd
  BY <1>8, ReadEndBuf
<1>9. CASE SetLeds
  <2>1. /\ tty' = tty /\ inbuf' = inbuf /\ seq' = seq /\ current' = current
        /\ typed' = typed /\ pc # "write" /\ pc # "read"
    BY <1>9 DEF SetLeds, Write, Ack, user
  <2> QED
    BY <1>1, <2>1 DEF BufInv, KeysInOrder, KbType
<1>10. CASE WriteKey
  <2>1. \A t \in Con : inbuf'[t] = <<>>
    <3>1. inbuf'[tty] = <<>>
      <4>1. inbuf[tty] \in Seq(InKey) /\ Len(inbuf[tty]) <= 1
        BY <1>1 DEF KbType, BufInv
      <4>2. inbuf[tty] # <<>> => Tail(inbuf[tty]) = <<>>
        BY <4>1
      <4> QED
        BY <1>1, <1>10, <4>2, WriteKeyDoes
    <3> QED
      BY <1>1, <1>10, <3>1, WriteKeyDoes DEF BufInv
  <2>2. pc' = "read" /\ pc = "write" /\ seq' = seq
    BY <1>10 DEF WriteKey
  <2>3. Len(<<>>) <= 1 /\ tty' \in Con
    BY <1>1, <1>10, WriteKeyDoes
  <2> QED
    BY <1>1, <2>1, <2>2, <2>3 DEF BufInv, KeysInOrder
<1>11. CASE UNCHANGED vars
  BY <1>1, <1>11 DEF vars, BufInv, KeysInOrder, user, mods, dev
<1> QED
  BY <1>2, <1>3, <1>4, <1>5, <1>6, <1>7, <1>8, <1>9, <1>10, <1>11
  DEF Next, KeyboardStep, TaskStep

----------------------------------------------------------------------------
(* The bytes on their way *)

\* A step that changes none of what FlowInv speaks of.
LEMMA FlowSame ==
  ASSUME KbType, FlowInv, lost' = lost \/ lost' = TRUE,
         ~lost' => /\ kb_in' \o out' = kb_in \o out /\ typed' = typed /\ Driver' = Driver
                   /\ Len(inbuf'[tty']) = Len(inbuf[tty])
                   /\ down' = down /\ locked' = locked /\ shown' = shown
  PROVE  FlowInv'
<1> SUFFICES ASSUME ~lost' PROVE FlowInv'
  BY DEF FlowInv
<1>1. ~lost
  BY DEF KbType
<1>2. PICK q \in Parsed :
    Knows(q) /\ Flow(kb_in \o out, typed, Driver, Len(inbuf[tty]), q, Len(typed))
  BY <1>1 DEF FlowInv
<1>3. Knows(q)'
  BY <1>2 DEF Knows
<1>4. Flow(kb_in' \o out', typed', Driver', Len(inbuf'[tty']), q, Len(typed'))
  BY <1>2
<1> QED
  BY <1>2, <1>3, <1>4 DEF FlowInv

\* There is always a state in which the driver knows of one key more.
LEMMA LearnsSome ==
  ASSUME NEW p \in Parsed, NEW key, NEW make \in BOOLEAN
  PROVE  \E q \in Parsed : Learns(p, key, make, q)
<1>1. PICK c \in Con : c = IF make /\ Selects(key) THEN Function[key] ELSE p.current
  BY Selected DEF Parsed
<1>2. PICK a \in BOOLEAN : a <=> IF key = "SHIFT_L" THEN make ELSE p.shift_l
  BY DEF Parsed
<1>3. PICK d \in BOOLEAN : d <=> IF key = "CTRL_L" THEN make ELSE p.ctrl_l
  BY DEF Parsed
<1>4. PICK e \in BOOLEAN : e <=> IF key = "CTRL_R" THEN make ELSE p.ctrl_r
  BY DEF Parsed
<1>5. PICK h \in BOOLEAN : h <=> IF key \in {"ALT_L", "ALT_R"} THEN make ELSE p.alt_l
  BY DEF Parsed
<1>6. PICK l \in BOOLEAN : l <=> IF key = "CAPS_LOCK" /\ make THEN ~p.caps_lock ELSE p.caps_lock
  BY DEF Parsed
<1>7. PICK s \in Seq(Nat) : s = <<>>
  <2>1. <<>> \in Seq(Nat)
    OBVIOUS
  <2> QED
    BY <2>1
<1> DEFINE q == [seq |-> s, shift_l |-> a, ctrl_l |-> d, ctrl_r |-> e, alt_l |-> h,
                 caps_lock |-> l, current |-> c]
<1>8. q \in Parsed
  BY DEF Parsed
<1>9. Learns(p, key, make, q)
  BY <1>1, <1>2, <1>3, <1>4, <1>5, <1>6, <1>7 DEF Learns
<1> QED
  BY <1>8, <1>9

\* The user presses a key.
LEMMA PressFlow == ASSUME IInv, NEW key \in Keys, Press(key) PROVE FlowInv'
<1>1. KbType /\ FlowInv /\ Driver \in Parsed
  BY DriverType DEF IInv
<1>2. /\ out = <<>> /\ ~lost /\ out' = Pressed(key) /\ kb_in' = kb_in /\ lost' = lost
      /\ down' = (IF key = "PAUSEBREAK" THEN down ELSE down \cup {key})
      /\ locked' = (IF key = "CAPS_LOCK" THEN ~locked ELSE locked)
      /\ shown' = (IF Selects(key) THEN Function[key] ELSE shown)
      /\ typed' = IF key = "A" THEN Append(typed, Wanted) ELSE typed
      /\ tty' = tty /\ inbuf' = inbuf
  BY DEF Press
<1>3. Driver' = Driver
  BY DEF Press, mods, Driver
<1>4. PICK p \in Parsed :
    Knows(p) /\ Flow(kb_in \o out, typed, Driver, Len(inbuf[tty]), p, Len(typed))
  BY <1>1, <1>2 DEF FlowInv
<1>5. kb_in \o out = kb_in /\ kb_in \in Seq(Nat) /\ typed \in Seq(Char)
  BY <1>1, <1>2 DEF KbType
<1>6. Flow(kb_in, typed, Driver, Len(inbuf[tty]), p, Len(typed))
  BY <1>4, <1>5
<1>7. PICK n \in Nat : n = Len(typed)
  BY <1>5
<1>8. CASE key \in {"PAUSEBREAK", "PRINTSCREEN"}
  <2>1. out' \in Long
    BY <1>2, <1>8 DEF Pressed, Long
  <2>2. p.seq = <<>>
    BY <1>4 DEF Knows
  <2>3. Flow(kb_in \o out', typed, Driver, Len(inbuf[tty]), p, n)
    BY <1>5, <1>6, <1>7, <2>1, <2>2, LongFlow
  <2>4. typed' = typed /\ locked' = locked
    BY <1>2, <1>8
  <2>5. shown' = shown
    BY <1>2, <1>8 DEF Selects, Function
  <2>6. /\ "SHIFT_L" \in down' <=> "SHIFT_L" \in down
        /\ "CTRL_L" \in down' <=> "CTRL_L" \in down
        /\ "CTRL_R" \in down' <=> "CTRL_R" \in down
        /\ {"ALT_L", "ALT_R"} \cap down # {} => {"ALT_L", "ALT_R"} \cap down' # {}
    BY <1>2, <1>8
  <2>7. Knows(p)'
    BY <1>4, <2>4, <2>5, <2>6 DEF Knows
  <2> QED
    BY <1>2, <1>3, <1>7, <2>3, <2>4, <2>7 DEF FlowInv
<1>9. CASE key \notin {"PAUSEBREAK", "PRINTSCREEN"}
  <2>1. key \in DOMAIN Code
    BY <1>9, KeyboardAssumption
  <2>2. PICK q \in Parsed : Learns(p, key, TRUE, q)
    BY LearnsSome
  <2>3. p.seq = <<>>
    BY <1>4 DEF Knows
  <2>4. out' = Sent(key, TRUE)
    BY <1>2 DEF Sent
  <2>5. down' = down \cup {key}
    BY <1>2, <1>9
  <2>6. Knows(q)'
    <3>1. q.seq = <<>>
      BY <2>2 DEF Learns
    <3>2. /\ q.shift_l <=> "SHIFT_L" \in down'
          /\ q.ctrl_l <=> "CTRL_L" \in down'
          /\ q.ctrl_r <=> "CTRL_R" \in down'
      BY <1>4, <2>2, <2>5 DEF Learns, Knows
    <3>3. q.alt_l => {"ALT_L", "ALT_R"} \cap down' # {}
      BY <1>4, <2>2, <2>5 DEF Learns, Knows
    <3>4. q.caps_lock <=> locked'
      BY <1>2, <1>4, <2>2 DEF Learns, Knows
    <3>5. q.current = shown'
      BY <1>2, <1>4, <2>2 DEF Learns, Knows
    <3> QED
      BY <3>1, <3>2, <3>3, <3>4, <3>5 DEF Knows
  <2>7. CASE key # "A"
    <3>1. typed' = typed
      BY <1>2, <2>7
    <3>2. Flow(kb_in \o Sent(key, TRUE), typed, Driver, Len(inbuf[tty]), q, n)
      BY <1>5, <1>6, <1>7, <2>1, <2>2, <2>3, <2>7, KeyFlow
    <3> QED
      BY <1>2, <1>3, <1>7, <2>4, <2>6, <3>1, <3>2 DEF FlowInv
  <2>8. CASE key = "A"
    <3>1. PICK w \in Char : w = Wanted
      <4>1. Wanted \in Char
        BY <1>1, ConIsInt DEF KbType, Wanted, Char
      <4> QED
        BY <4>1
    <3>2. w = Right(p)
      <4>1. p.shift_l = ("SHIFT_L" \in down) /\ p.caps_lock = locked
        BY <1>1, <1>4 DEF Knows, Parsed, KbType
      <4> QED
        BY <1>4, <3>1, <4>1 DEF Knows, Right, Wanted
    <3>3. PICK ty \in Seq(Char) : ty = Append(typed, w)
      <4>1. Append(typed, w) \in Seq(Char)
        BY <1>5
      <4> QED
        BY <4>1
    <3>4. Len(ty) = n + 1 /\ ty[n + 1] = w
      BY <1>5, <1>7, <3>3
    <3>5. Flow(kb_in, ty, Driver, Len(inbuf[tty]), p, n)
      BY <1>5, <1>6, <1>7, <3>3, FlowTyped
    <3>6. PICK m \in Nat : m = n + 1
      OBVIOUS
    <3>7. Flow(kb_in \o Sent(key, TRUE), ty, Driver, Len(inbuf[tty]), q, m)
      <4>1. m = n + 1 /\ m <= Len(ty) /\ ty[m] = Right(p)
        BY <3>2, <3>4, <3>6
      <4>2. PICK K \in Seq(Nat) : K = kb_in
        BY <1>5
      <4>3. Flow(K, ty, Driver, Len(inbuf[tty]), p, n)
        BY <3>5, <4>2
      <4> HIDE <2>8
      <4>4. Flow(K \o Sent(key, TRUE), ty, Driver, Len(inbuf[tty]), q, m)
        BY <2>1, <2>2, <2>3, <2>8, <4>1, <4>3, KeyFlow
      <4> QED
        BY <4>2, <4>4
    <3>8. typed' = ty /\ Len(typed') = m
      BY <1>2, <2>8, <3>1, <3>3, <3>4, <3>6
    <3> QED
      BY <1>2, <1>3, <2>4, <2>6, <3>7, <3>8 DEF FlowInv
  <2> QED
    BY <2>7, <2>8
<1> QED
  BY <1>8, <1>9

\* The user releases a key.
LEMMA ReleaseFlow == ASSUME IInv, NEW key \in Keys, Release(key) PROVE FlowInv'
<1>1. KbType /\ FlowInv /\ Driver \in Parsed
  BY DriverType DEF IInv
<1>2. /\ out = <<>> /\ ~lost /\ out' = Released(key) /\ kb_in' = kb_in /\ lost' = lost
      /\ down' = down \ {key} /\ locked' = locked /\ shown' = shown /\ typed' = typed
      /\ tty' = tty /\ inbuf' = inbuf
  BY DEF Release
<1>3. Driver' = Driver
  BY DEF Release, mods, Driver
<1>4. PICK p \in Parsed :
    Knows(p) /\ Flow(kb_in \o out, typed, Driver, Len(inbuf[tty]), p, Len(typed))
  BY <1>1, <1>2 DEF FlowInv
<1>5. kb_in \o out = kb_in /\ kb_in \in Seq(Nat) /\ typed \in Seq(Char) /\ p.seq = <<>>
  BY <1>1, <1>2, <1>4 DEF KbType, Knows
<1>6. Flow(kb_in, typed, Driver, Len(inbuf[tty]), p, Len(typed))
  BY <1>4, <1>5
<1>7. PICK n \in Nat : n = Len(typed)
  BY <1>5
<1>8. CASE key \in {"PAUSEBREAK", "PRINTSCREEN"}
  <2>1. Flow(kb_in \o out', typed, Driver, Len(inbuf[tty]), p, n)
    <3>1. CASE key = "PAUSEBREAK"
      <4>1. kb_in \o out' = kb_in
        BY <1>2, <1>5, <3>1 DEF Released
      <4> QED
        BY <1>6, <1>7, <4>1
    <3>2. CASE key = "PRINTSCREEN"
      <4>1. out' \in Long
        BY <1>2, <3>2 DEF Released, Long
      <4> QED
        BY <1>5, <1>6, <1>7, <4>1, LongFlow
    <3> QED
      BY <1>8, <3>1, <3>2
  <2>2. /\ "SHIFT_L" \in down' <=> "SHIFT_L" \in down
        /\ "CTRL_L" \in down' <=> "CTRL_L" \in down
        /\ "CTRL_R" \in down' <=> "CTRL_R" \in down
        /\ {"ALT_L", "ALT_R"} \cap down # {} => {"ALT_L", "ALT_R"} \cap down' # {}
    BY <1>2, <1>8
  <2>3. Knows(p)'
    BY <1>2, <1>4, <2>2 DEF Knows
  <2> QED
    BY <1>2, <1>3, <1>7, <2>1, <2>3 DEF FlowInv
<1>9. CASE key \notin {"PAUSEBREAK", "PRINTSCREEN"}
  <2>1. key \in DOMAIN Code
    BY <1>9, KeyboardAssumption
  <2>2. PICK q \in Parsed : Learns(p, key, FALSE, q)
    BY LearnsSome
  <2>3. out' = Sent(key, FALSE)
    BY <1>2 DEF Sent
  <2>4. Knows(q)'
    <3>1. q.seq = <<>>
      BY <2>2 DEF Learns
    <3>2. /\ q.shift_l <=> "SHIFT_L" \in down'
          /\ q.ctrl_l <=> "CTRL_L" \in down'
          /\ q.ctrl_r <=> "CTRL_R" \in down'
      BY <1>2, <1>4, <2>2 DEF Learns, Knows
    <3>3. q.alt_l => {"ALT_L", "ALT_R"} \cap down' # {}
      BY <1>2, <1>4, <2>2 DEF Learns, Knows
    <3>4. q.caps_lock <=> locked'
      BY <1>2, <1>4, <2>2 DEF Learns, Knows
    <3>5. q.current = shown'
      BY <1>2, <1>4, <2>2 DEF Learns, Knows
    <3> QED
      BY <3>1, <3>2, <3>3, <3>4, <3>5 DEF Knows
  <2>5. Flow(kb_in \o Sent(key, FALSE), typed, Driver, Len(inbuf[tty]), q, n)
    BY <1>5, <1>6, <1>7, <2>1, <2>2, KeyFlow
  <2> QED
    BY <1>2, <1>3, <1>7, <2>3, <2>4, <2>5 DEF FlowInv
<1> QED
  BY <1>8, <1>9

\* What the driver has learnt of a byte is what it is said to learn.
LEMMA ReadEndFed ==
  ASSUME KbType, KbType', BufInv, ReadEnd, NEW r \in Parsed, Fed(Driver, Head(kb_in), r)
  PROVE  Driver' = r
<1>1. PICK b \in Nat, s \in Seq(Nat) :
    /\ b = Head(kb_in) /\ s = Append(Driver.seq, b) /\ ~More(s)
    /\ seq' = <<>>
    /\ s \in Long =>
         /\ shift_l' = shift_l /\ ctrl_l' = ctrl_l /\ ctrl_r' = ctrl_r /\ alt_l' = alt_l
         /\ caps_lock' = caps_lock /\ current' = current
    /\ s \notin Long =>
         /\ Modify(KeyIn(s).key, KeyIn(s).make)
         /\ current' = IF KeyIn(s).make /\ Selects(KeyIn(s).key)
                       THEN Function[KeyIn(s).key] ELSE current
  BY ReadEndPuts, Zenon
<1>2. Driver' \in Parsed
  BY DriverTypeNext
<1>3. /\ Driver'.seq = seq' /\ Driver'.shift_l = shift_l' /\ Driver'.ctrl_l = ctrl_l'
      /\ Driver'.ctrl_r = ctrl_r' /\ Driver'.alt_l = alt_l' /\ Driver'.caps_lock = caps_lock'
      /\ Driver'.current = current'
  BY DEF Driver
<1>4. /\ Driver.shift_l = shift_l /\ Driver.ctrl_l = ctrl_l
      /\ Driver.ctrl_r = ctrl_r /\ Driver.alt_l = alt_l /\ Driver.caps_lock = caps_lock
      /\ Driver.current = current
  BY DEF Driver
<1>5. CASE s \in Long
  <2>1. r.seq = <<>> /\ Keeps(Driver, r)
    BY <1>1, <1>5 DEF Fed
  <2> QED
    BY <1>1, <1>2, <1>3, <1>4, <1>5, <2>1, SameParsed DEF Keeps
<1>6. CASE s \notin Long
  <2>1. Learns(Driver, KeyIn(s).key, KeyIn(s).make, r)
    BY <1>1, <1>6 DEF Fed
  <2>2. Modify(KeyIn(s).key, KeyIn(s).make)
    BY <1>1, <1>6
  <2>3. KeyIn(s).make \in BOOLEAN
    BY KeyInType
  <2>4. r.seq = Driver'.seq
    BY <1>1, <1>3, <2>1 DEF Learns
  <2>5. /\ r.shift_l <=> Driver'.shift_l
        /\ r.ctrl_l <=> Driver'.ctrl_l
        /\ r.ctrl_r <=> Driver'.ctrl_r
        /\ r.alt_l <=> Driver'.alt_l
    BY <1>3, <1>4, <2>1, <2>2, <2>3 DEF Learns, Modify
  <2>6. r.caps_lock <=> Driver'.caps_lock
    BY <1>3, <1>4, <2>1, <2>2, <2>3 DEF Learns, Modify
  <2>7. r.current = Driver'.current
    BY <1>1, <1>3, <1>4, <1>6, <2>1 DEF Learns
  <2> QED
    BY <1>2, <2>4, <2>5, <2>6, <2>7, SameParsed
<1> QED
  BY <1>5, <1>6

\* The last byte of a sequence has been parsed.
LEMMA ReadEndFlow == ASSUME IInv, KbType', ReadEnd PROVE FlowInv'
<1>1. KbType /\ BufInv /\ FlowInv
  BY DEF IInv
<1>2. PICK b \in Nat, s \in Seq(Nat) :
    /\ b = Head(kb_in) /\ s = Append(Driver.seq, b)
    /\ kb_in # <<>> /\ kb_in' = Tail(kb_in) /\ tty = current
    /\ tty' = tty /\ out' = out /\ lost' = lost /\ typed' = typed
    /\ down' = down /\ locked' = locked /\ shown' = shown
    /\ \A t \in Con : inbuf[t] = <<>>
    /\ ~Puts(Driver, b) => inbuf' = inbuf
    /\ Puts(Driver, b) =>
         inbuf'[tty] = <<[key |-> KeyIn(s).key, capital |-> shift_l # caps_lock]>>
  BY <1>1, ReadEndPuts, Zenon
<1> SUFFICES ASSUME ~lost PROVE FlowInv'
  BY <1>2 DEF FlowInv
<1>3. PICK q \in Parsed, r \in Parsed, k \in Nat :
    /\ Knows(q) /\ Feeds(Driver, Len(inbuf[tty]), b, r, k, typed)
    /\ Flow(Tail(kb_in) \o out, typed, r, k, q, Len(typed))
  BY <1>1, <1>2, FirstByte
<1>4. Fed(Driver, Head(kb_in), r)
  BY <1>2, <1>3 DEF Feeds
<1>5. Driver' = r
  BY <1>1, <1>4, ReadEndFed
<1>6. inbuf[tty] = <<>> /\ Len(inbuf[tty]) = 0
  BY <1>1, <1>2 DEF KbType
<1>7. k = Len(inbuf'[tty'])
  <2>1. CASE Puts(Driver, b)
    <3>1. k = 1
      BY <1>3, <1>6, <2>1 DEF Feeds
    <3>2. PICK y : y = [key |-> KeyIn(s).key, capital |-> shift_l # caps_lock]
      OBVIOUS
    <3>3. inbuf'[tty'] = <<y>>
      BY <1>2, <2>1, <3>2
    <3>4. Len(<<y>>) = 1
      OBVIOUS
    <3> QED
      BY <3>1, <3>3, <3>4
  <2>2. CASE ~Puts(Driver, b)
    BY <1>2, <1>3, <1>6, <2>2 DEF Feeds
  <2> QED
    BY <2>1, <2>2
<1>8. Knows(q)'
  BY <1>2, <1>3 DEF Knows
<1>9. Flow(kb_in' \o out', typed', Driver', Len(inbuf'[tty']), q, Len(typed'))
  BY <1>2, <1>3, <1>5, <1>7
<1> QED
  BY <1>8, <1>9 DEF FlowInv

\* Another byte of it has been read.
LEMMA ReadOnFlow == ASSUME IInv, KbType', ReadOn PROVE FlowInv'
<1>1. KbType /\ BufInv /\ FlowInv
  BY DEF IInv
<1>2. /\ kb_in # <<>> /\ kb_in' = Tail(kb_in) /\ seq' = Append(seq, Head(kb_in))
      /\ More(Append(seq, Head(kb_in)))
      /\ tty' = tty /\ out' = out /\ lost' = lost /\ typed' = typed /\ inbuf' = inbuf
      /\ down' = down /\ locked' = locked /\ shown' = shown /\ current' = current
      /\ shift_l' = shift_l /\ ctrl_l' = ctrl_l /\ ctrl_r' = ctrl_r /\ alt_l' = alt_l
      /\ caps_lock' = caps_lock /\ pc = "read"
  BY DEF ReadOn, user, dev, mods
<1> SUFFICES ASSUME ~lost PROVE FlowInv'
  BY <1>2 DEF FlowInv
<1>3. PICK q \in Parsed, r \in Parsed, k \in Nat :
    /\ Knows(q) /\ Feeds(Driver, Len(inbuf[tty]), Head(kb_in), r, k, typed)
    /\ Flow(Tail(kb_in) \o out, typed, r, k, q, Len(typed))
  BY <1>1, <1>2, FirstByte
<1>4. Driver.seq = seq
  BY DEF Driver
<1>5. r.seq = seq' /\ Keeps(Driver, r)
  BY <1>2, <1>3, <1>4 DEF Feeds, Fed
<1>6. k = Len(inbuf[tty])
  BY <1>2, <1>3, <1>4 DEF Feeds, Puts
<1>7. Driver' = r
  <2>1. Driver' \in Parsed
    BY DriverTypeNext
  <2>2. /\ Driver'.seq = r.seq /\ Driver'.shift_l = r.shift_l /\ Driver'.ctrl_l = r.ctrl_l
        /\ Driver'.ctrl_r = r.ctrl_r /\ Driver'.alt_l = r.alt_l
        /\ Driver'.caps_lock = r.caps_lock /\ Driver'.current = r.current
    BY <1>2, <1>5 DEF Driver, Keeps
  <2> QED
    BY <2>1, <2>2, SameParsed
<1>8. Knows(q)'
  BY <1>2, <1>3 DEF Knows
<1>9. Flow(kb_in' \o out', typed', Driver', Len(inbuf'[tty']), q, Len(typed'))
  BY <1>2, <1>3, <1>6, <1>7
<1> QED
  BY <1>8, <1>9 DEF FlowInv

\* The keyboard answers.
LEMMA CommandFlow == ASSUME IInv, TakeCommand PROVE FlowInv'
<1>1. KbType /\ FlowInv
  BY DEF IInv
<1>2. /\ out = <<>> /\ out' = <<KB_ACK>> /\ kb_in' = kb_in /\ lost' = lost
      /\ down' = down /\ locked' = locked /\ shown' = shown /\ typed' = typed
      /\ tty' = tty /\ inbuf' = inbuf
  BY DEF TakeCommand, user
<1> SUFFICES ASSUME ~lost PROVE FlowInv'
  BY <1>2 DEF FlowInv
<1>3. Driver' = Driver
  BY DEF TakeCommand, mods, Driver
<1>4. PICK p \in Parsed :
    Knows(p) /\ Flow(kb_in \o out, typed, Driver, Len(inbuf[tty]), p, Len(typed))
  BY <1>1 DEF FlowInv
<1>5. kb_in \o out = kb_in /\ kb_in \in Seq(Nat) /\ typed \in Seq(Char) /\ p.seq = <<>>
      /\ Len(typed) \in Nat
  BY <1>1, <1>2, <1>4 DEF KbType, Knows
<1>6. Flow(kb_in, typed, Driver, Len(inbuf[tty]), p, Len(typed))
  BY <1>4, <1>5
<1>7. Flow(kb_in \o <<KB_ACK>>, typed, Driver, Len(inbuf[tty]), p, Len(typed))
  BY <1>5, <1>6, AckFlow
<1>8. Knows(p)'
  BY <1>2, <1>4 DEF Knows
<1> QED
  BY <1>2, <1>3, <1>7, <1>8 DEF FlowInv

\* A character leaves.
LEMMA WriteFlow == ASSUME IInv, WriteKey PROVE FlowInv'
<1>1. KbType /\ BufInv /\ FlowInv /\ KeysInOrder
  BY DEF IInv
<1>2. /\ pc = "write" /\ out' = out /\ kb_in' = kb_in /\ lost' = lost
      /\ down' = down /\ locked' = locked /\ shown' = shown
      /\ typed' = IF inbuf[tty] # <<>> /\ typed # <<>> THEN Tail(typed) ELSE typed
  BY DEF WriteKey, dev
<1> SUFFICES ASSUME ~lost PROVE FlowInv'
  BY <1>2 DEF FlowInv
<1>3. Driver' = Driver
  BY DEF WriteKey, mods, Driver
<1>4. PICK p \in Parsed :
    Knows(p) /\ Flow(kb_in \o out, typed, Driver, Len(inbuf[tty]), p, Len(typed))
  BY <1>1 DEF FlowInv
<1>5. Knows(p)'
  BY <1>2, <1>4 DEF Knows
<1>6. inbuf[tty] \in Seq(InKey) /\ Len(inbuf[tty]) <= 1 /\ tty \in Con
  BY <1>1 DEF KbType, BufInv
<1>7. inbuf'[tty'] = <<>> /\ Len(inbuf'[tty']) = 0
  <2>1. inbuf[tty] # <<>> => Tail(inbuf[tty]) = <<>>
    BY <1>6
  <2>2. tty' = tty => inbuf'[tty'] = <<>>
    BY <1>1, <2>1, WriteKeyDoes
  <2>3. tty' # tty => inbuf'[tty'] = <<>>
    BY <1>1, WriteKeyDoes DEF BufInv
  <2>4. Len(<<>>) = 0
    OBVIOUS
  <2> QED
    BY <2>2, <2>3, <2>4
<1>8. PICK B \in Seq(Nat) : B = kb_in \o out
  BY <1>1, CatType, Zenon DEF KbType
<1>9. typed \in Seq(Char)
  BY <1>1 DEF KbType
<1>10. CASE inbuf[tty] = <<>>
  <2>1. typed' = typed /\ Len(inbuf[tty]) = 0
    BY <1>2, <1>10
  <2> QED
    BY <1>2, <1>3, <1>4, <1>5, <1>7, <2>1 DEF FlowInv
<1>11. CASE inbuf[tty] # <<>>
  <2>1. Len(inbuf[tty]) = 0 + 1
    <3>1. Len(inbuf[tty]) \in Nat /\ Len(inbuf[tty]) # 0
      BY <1>6, <1>11
    <3>2. PICK l \in Nat : l = Len(inbuf[tty])
      BY <3>1
    <3>3. l <= 1 /\ l # 0
      BY <1>6, <3>1, <3>2
    <3>4. l = 0 + 1
      BY <3>3
    <3> QED
      BY <3>2, <3>4
  <2>2. typed # <<>> /\ typed' = Tail(typed)
    BY <1>1, <1>2, <1>11 DEF KeysInOrder
  <2>3. PICK m \in Nat : m = Len(typed)
    BY <1>9
  <2>4. Flow(B, typed, Driver, 0 + 1, p, m)
    BY <1>4, <1>8, <2>1, <2>3
  <2>5. Flow(B, Tail(typed), Driver, 0, p, m - 1)
    BY <1>9, <2>2, <2>4, FlowWritten
  <2>6. Len(Tail(typed)) = m - 1
    BY <1>9, <2>2, <2>3
  <2> QED
    BY <1>2, <1>3, <1>5, <1>7, <1>8, <2>2, <2>5, <2>6 DEF FlowInv
<1> QED
  BY <1>10, <1>11

\* A byte that arrives is still on its way.
LEMMA StreamArrive ==
  ASSUME KbType, out # <<>>
  PROVE  Append(kb_in, Head(out)) \o Tail(out) = kb_in \o out
<1>1. kb_in \in Seq(Nat) /\ out \in Seq(Nat) /\ Len(out) >= 1
  BY DEF KbType
<1>2. PICK b \in Nat : b = Head(out)
  BY <1>1
<1>3. PICK T \in Seq(Nat) : T = Tail(out)
  <2>1. Tail(out) \in Seq(Nat)
    BY <1>1
  <2> QED
    BY <2>1
<1>4. PICK K \in Seq(Nat) : K = Append(kb_in, b)
  BY <1>1, Longer, Zenon
<1>5. PICK X \in Seq(Nat) : X = K \o T
  BY CatType, Zenon
<1>6. PICK Y \in Seq(Nat) : Y = kb_in \o out
  BY <1>1, CatType, Zenon
<1>7. /\ Len(K) = Len(kb_in) + 1 /\ K[Len(kb_in) + 1] = b
      /\ \A j \in 1 .. Len(kb_in) : K[j] = kb_in[j]
  BY <1>1, <1>4, Longer
<1>8. Len(out) = Len(T) + 1 /\ out[1] = b /\ \A j \in 1 .. Len(T) : T[j] = out[j + 1]
  BY <1>1, <1>2, <1>3
<1>9. Len(X) = Len(K) + Len(T) /\ Len(Y) = Len(kb_in) + Len(out)
  BY <1>1, <1>5, <1>6
<1>10. Len(X) = Len(Y)
  BY <1>1, <1>7, <1>8, <1>9
<1>11. ASSUME NEW j \in 1 .. Len(X) PROVE X[j] = Y[j]
  <2>1. CASE j \in 1 .. Len(kb_in)
    BY <1>1, <1>5, <1>6, <1>7, <2>1
  <2>2. CASE j = Len(kb_in) + 1
    <3>1. X[j] = K[j]
      BY <1>1, <1>5, <1>7, <2>2
    <3>2. Y[j] = out[j - Len(kb_in)] /\ j - Len(kb_in) = 1
      BY <1>1, <1>6, <2>2
    <3> QED
      BY <1>7, <1>8, <2>2, <3>1, <3>2
  <2>3. CASE j \in Len(kb_in) + 2 .. Len(X)
    <3>1. j \in Len(K) + 1 .. Len(K) + Len(T)
      BY <1>1, <1>7, <1>9, <2>3
    <3>2. X[j] = T[j - Len(K)]
      BY <1>5, <3>1
    <3>3. Y[j] = out[j - Len(kb_in)]
      <4>1. j \in Len(kb_in) + 1 .. Len(kb_in) + Len(out)
        <5>1. PICK k \in Nat : k = Len(kb_in)
          BY <1>1
        <5>2. PICK l \in Nat : l = Len(out)
          BY <1>1
        <5>3. Len(X) = k + l
          BY <1>9, <1>10, <5>1, <5>2
        <5>4. j \in k + 1 .. k + l
          BY <2>3, <5>1, <5>3
        <5> QED
          BY <5>1, <5>2, <5>4
      <4> QED
        BY <1>1, <1>6, <4>1
    <3>4. j - Len(K) \in 1 .. Len(T) /\ (j - Len(K)) + 1 = j - Len(kb_in)
      BY <1>1, <1>7, <3>1
    <3> QED
      BY <1>8, <3>2, <3>3, <3>4
  <2>4. j \in Nat /\ 1 <= j /\ j <= Len(X) /\ Len(kb_in) \in Nat /\ Len(X) \in Nat
    BY <1>1, <1>11
  <2>5. j \in 1 .. Len(kb_in) \/ j = Len(kb_in) + 1 \/ j \in Len(kb_in) + 2 .. Len(X)
    BY <2>4
  <2> QED
    BY <2>1, <2>2, <2>3, <2>5
<1>12. X = Y
  BY <1>10, <1>11, SameSeq
<1> QED
  BY <1>2, <1>3, <1>4, <1>5, <1>6, <1>12

\* Every step keeps the bytes on their way right.
LEMMA FlowStep == ASSUME IInv, KbType', [Next]_vars PROVE FlowInv'
<1>1. KbType /\ FlowInv /\ BufInv
  BY DEF IInv
<1>2. ASSUME NEW key \in Keys, Press(key) PROVE FlowInv'
  BY <1>2, PressFlow
<1>3. ASSUME NEW key \in Keys, Release(key) PROVE FlowInv'
  BY <1>3, ReleaseFlow
<1>4. CASE TakeCommand
  BY <1>4, CommandFlow
<1>5. CASE Arrive
  <2>1. /\ typed' = typed /\ down' = down /\ locked' = locked /\ shown' = shown
        /\ inbuf' = inbuf /\ tty' = tty /\ out # <<>> /\ out' = Tail(out)
    BY <1>5 DEF Arrive, user
  <2>2. Driver' = Driver
    BY <1>5 DEF Arrive, Driver, mods
  <2>3. (lost' = lost /\ kb_in' = Append(kb_in, Head(out))) \/ lost' = TRUE
    BY <1>5 DEF Arrive
  <2>4. Append(kb_in, Head(out)) \o Tail(out) = kb_in \o out
    BY <1>1, <2>1, StreamArrive
  <2> QED
    BY <1>1, <2>1, <2>2, <2>3, <2>4, FlowSame
<1>6. CASE Skip \/ SetLeds \/ UNCHANGED vars
  <2>1. /\ typed' = typed /\ down' = down /\ locked' = locked /\ shown' = shown
        /\ inbuf' = inbuf /\ tty' = tty /\ out' = out /\ kb_in' = kb_in /\ lost' = lost
    BY <1>6 DEF Skip, SetLeds, Write, Ack, vars, user, dev
  <2>2. Driver' = Driver
    BY <1>6 DEF Skip, SetLeds, Write, Ack, vars, Driver, mods
  <2> QED
    BY <1>1, <2>1, <2>2, FlowSame
<1>7. CASE ReadOn
  BY <1>7, ReadOnFlow
<1>8. CASE ReadEnd
  BY <1>8, ReadEndFlow
<1>9. CASE WriteKey
  BY <1>9, WriteFlow
<1> QED
  BY <1>2, <1>3, <1>4, <1>5, <1>6, <1>7, <1>8, <1>9 DEF Next, KeyboardStep, TaskStep

\* The invariant holds at first, and every step keeps it.
LEMMA InitInv == Init => IInv
<1> SUFFICES ASSUME Init PROVE IInv
  OBVIOUS
<1>1. KbType
  <2>0. /\ <<>> \in Seq(Nat) /\ <<>> \in Seq(Char) /\ <<250>> \in Seq(Nat)
    OBVIOUS
  <2>1. kb_in \in Seq(Nat) /\ out \in Seq(Nat) /\ typed \in Seq(Char) /\ seq \in Seq(Nat)
    BY <2>0 DEF Init, KB_ACK
  <2>2. inbuf \in [Con -> Seq(InKey)]
    BY DEF Init, Con
  <2> QED
    BY <2>1, <2>2, ConIsInt DEF Init, KbType
<1>2. \A t \in Con : inbuf[t] = <<>>
  BY DEF Init, Con
<1>3. tty \in Con /\ Len(<<>>) = 0
  BY <1>1 DEF KbType
<1>4. BufInv /\ KeysInOrder
  <2>1. pc = "read" /\ seq = <<>>
    BY DEF Init
  <2>2. Len(inbuf[tty]) = 0
    BY <1>2, <1>3
  <2> QED
    BY <1>2, <2>1, <2>2 DEF BufInv, KeysInOrder
<1>5. Driver \in Parsed
  BY <1>1, DriverType
<1>6. Knows(Driver)
  BY DEF Init, Knows, Driver
<1>7. Len(typed) = 0 /\ Len(inbuf[tty]) = 0 /\ typed \in Seq(Char)
  BY <1>1, <1>2, <1>3 DEF Init, KbType
<1>8. Flow(<<>>, typed, Driver, 0, Driver, 0)
  BY <1>5, <1>7, FlowNil
<1>9. Flow(kb_in \o out, typed, Driver, 0, Driver, 0)
  <2>1. CASE kb_in = <<>>
    <3>1. kb_in \o out = <<>>
      BY <2>1 DEF Init
    <3> QED
      BY <1>8, <3>1
  <2>2. CASE kb_in = <<KB_ACK>>
    <3>1. Driver.seq = <<>>
      BY DEF Init, Driver
    <3>2. <<>> \in Seq(Nat)
      OBVIOUS
    <3>3. Flow(<<>> \o <<KB_ACK>>, typed, Driver, 0, Driver, 0)
      BY <1>5, <1>7, <1>8, <3>1, <3>2, AckFlow
    <3>4. <<>> \o <<KB_ACK>> = kb_in \o out
      BY <2>2 DEF Init
    <3> QED
      BY <3>3, <3>4
  <2> QED
    BY <2>1, <2>2 DEF Init
<1>10. FlowInv
  BY <1>5, <1>6, <1>7, <1>9 DEF FlowInv
<1> QED
  BY <1>1, <1>4, <1>10 DEF IInv

LEMMA InvStep == IInv /\ [Next]_vars => IInv'
<1> SUFFICES ASSUME IInv, [Next]_vars PROVE IInv'
  OBVIOUS
<1>1. KbType'
  BY TypeStep DEF IInv
<1>2. BufInv' /\ KeysInOrder'
  BY BufStep
<1>3. FlowInv'
  BY <1>1, FlowStep
<1> QED
  BY <1>1, <1>2, <1>3 DEF IInv

LEMMA Invariance == Spec => []IInv
BY InitInv, InvStep, PTL DEF Spec

----------------------------------------------------------------------------
(* The properties *)

\* The user gets the characters that were typed, in their order, as they were typed and
\* where they were typed (keyboard.c:160-360, tty.c:100-153), however many keys,
\* consoles and places the buffers have.
THEOREM OrderCorrect == Spec => []KeysInOrder
<1>1. IInv => KeysInOrder
  BY DEF IInv
<1> QED
  BY <1>1, Invariance, PTL

\* When nothing is on its way the driver knows what the user does.
LEMMA AllRead ==
  ASSUME IInv, out = <<>>, kb_in = <<>>, ~lost
  PROVE  Knows(Driver) /\ Len(inbuf[tty]) = Len(typed)
<1>1. PICK q \in Parsed :
    Knows(q) /\ Flow(kb_in \o out, typed, Driver, Len(inbuf[tty]), q, Len(typed))
  BY DEF IInv, FlowInv
<1>2. kb_in \o out = <<>> /\ typed \in Seq(Char)
  BY DEF IInv, KbType
<1>3. Driver = q /\ Len(inbuf[tty]) = Len(typed)
  <2>1. Flow(<<>>, typed, Driver, Len(inbuf[tty]), q, Len(typed))
    BY <1>1, <1>2
  <2> QED
    BY <1>2, <2>1, FlowEnds
<1> QED
  BY <1>1, <1>3

\* What is known of Shift, Ctrl, Alt, Caps Lock and the console is true as soon as the
\* driver has parsed what was sent (keyboard.c:182-258).
THEOREM ModifiersCorrect == Spec => []ModifiersTrack
<1>1. IInv => ModifiersTrack
  <2> SUFFICES ASSUME IInv, Quiet PROVE
        /\ shift_l = ("SHIFT_L" \in down)
        /\ ctrl_l = ("CTRL_L" \in down) /\ ctrl_r = ("CTRL_R" \in down)
        /\ alt_l => {"ALT_L", "ALT_R"} \cap down # {}
        /\ caps_lock = locked /\ current = shown
    BY DEF ModifiersTrack
  <2>1. Knows(Driver)
    BY AllRead DEF Quiet
  <2>2. /\ shift_l <=> "SHIFT_L" \in down
        /\ ctrl_l <=> "CTRL_L" \in down
        /\ ctrl_r <=> "CTRL_R" \in down
        /\ alt_l => {"ALT_L", "ALT_R"} \cap down # {}
        /\ caps_lock <=> locked
        /\ current = shown
    BY <2>1 DEF Knows, Driver
  <2> QED
    BY <2>2 DEF IInv, KbType
<1> QED
  BY <1>1, Invariance, PTL

\* get_byte_from_kbuf never waits for a byte that nobody is going to send
\* (keyboard.c:160-176, 308).
THEOREM SequenceCorrect == Spec => []SequenceComes
<1>1. IInv => SequenceComes
  <2> SUFFICES ASSUME IInv, out = <<>>, kb_in = <<>>, ~lost PROVE seq = <<>>
    BY DEF SequenceComes, IInv, KbType
  <2>1. Knows(Driver)
    BY AllRead
  <2> QED
    BY <2>1 DEF Knows, Driver
<1> QED
  BY <1>1, Invariance, PTL

\* No character that was typed is missing when everything has been read and written.
THEOREM NoneLost == Spec => []NoKeyLost
<1>1. IInv => NoKeyLost
  <2> SUFFICES ASSUME IInv, Quiet, \A t \in 0 .. NR-1 : inbuf[t] = <<>> PROVE typed = <<>>
    BY DEF NoKeyLost
  <2>1. Len(inbuf[tty]) = Len(typed)
    BY AllRead DEF Quiet
  <2>2. inbuf[tty] = <<>> /\ Len(<<>>) = 0 /\ typed \in Seq(Char)
    BY DEF IInv, KbType, Con
  <2> QED
    BY <2>1, <2>2
<1> QED
  BY <1>1, Invariance, PTL

----------------------------------------------------------------------------
(* The ring of the keyboard is a queue, for every size and every set of items. *)

\* The type invariant holds in the initial states, and every step keeps it.
LEMMA RingTypeInit == RingInit => TypeOK
BY RingAssumption DEF RingInit, TypeOK

LEMMA RingTypeStep == TypeOK /\ [RingNext]_ring => TypeOK'
<1> SUFFICES ASSUME TypeOK, [RingNext]_ring PROVE TypeOK'
  OBVIOUS
<1> USE RingAssumption DEF TypeOK
<1>1. ASSUME NEW x \in Item, Handler(x) PROVE TypeOK'
  BY <1>1 DEF Handler, Step
<1>2. CASE Wait
  BY <1>2 DEF Wait
<1>3. CASE Take
  BY <1>3 DEF Take, Step
<1>4. CASE UNCHANGED ring
  BY <1>4 DEF ring
<1> QED
  BY <1>1, <1>2, <1>3, <1>4 DEF RingNext

\* The pointers and the count of the ring always agree (keyboard.c:48-54, 308-317).
THEOREM RingCorrect == RingSpec => []TypeOK
BY RingTypeInit, RingTypeStep, PTL DEF RingSpec

\* A stretch of n places of a buffer, from place t around its end.
LEMMA StretchType ==
  ASSUME NEW b \in [0 .. Size-1 -> Item], NEW t \in 0 .. Size-1, NEW n \in 0 .. Size
  PROVE  LET place(i) == IF t + i - 1 < Size THEN t + i - 1 ELSE t + i - 1 - Size
             stretch == [i \in 1 .. n |-> b[place(i)]]
         IN  stretch \in Seq(Item) /\ Len(stretch) = n
<1> DEFINE place(i) == IF t + i - 1 < Size THEN t + i - 1 ELSE t + i - 1 - Size
<1>1. \A i \in 1 .. n : place(i) \in 0 .. Size-1
  BY RingAssumption
<1>2. \A i \in 1 .. n : b[place(i)] \in Item
  BY <1>1
<1>3. n \in Nat
  BY RingAssumption
<1> QED
  BY <1>2, <1>3

\* What is in the ring is a sequence of items.
LEMMA ContentsType ==
  TypeOK => Contents \in Seq(Item) /\ Len(Contents) = count
BY StretchType DEF TypeOK, Contents, Place

\* The same of the next state.
LEMMA ContentsTypeNext ==
  TypeOK' => Contents' \in Seq(Item) /\ Len(Contents') = count'
BY StretchType DEF TypeOK, Contents, Place

\* What Append and indexing do to a sequence.
LEMMA AppendAt ==
  ASSUME NEW S, NEW q \in Seq(S), NEW e \in S, NEW i \in 1 .. Len(q) + 1
  PROVE  Append(q, e)[i] = IF i = Len(q) + 1 THEN e ELSE q[i]
OBVIOUS

\* The handler appends its byte to the queue.
LEMMA HandlerPuts ==
  ASSUME TypeOK, NEW x \in Item, Handler(x) PROVE F!Put(x)
<1> USE RingAssumption
<1>1. Contents \in Seq(Item) /\ Len(Contents) = count
  BY ContentsType
<1>2. TypeOK'
  BY RingTypeStep DEF RingNext
<1>3. Contents' \in Seq(Item) /\ Len(Contents') = count'
  BY <1>2, ContentsTypeNext
<1>4. count \in Nat /\ count' = count + 1 /\ count < Size /\ got' = got
  BY DEF Handler, TypeOK
<1>5. ASSUME NEW i \in 1 .. count' PROVE Contents'[i] = Append(Contents, x)[i]
  <2>1. Contents'[i] = buf'[Place(i)]
    BY <1>5 DEF Contents, Place, Handler
  <2>2. CASE i = count'
    <3>1. Append(Contents, x)[i] = x
      BY <1>1, <1>4, <2>2, AppendAt
    <3>2. Place(i) = head
      BY <1>4, <2>2 DEF Place, TypeOK
    <3> QED
      BY <2>1, <3>1, <3>2 DEF Handler, TypeOK
  <2>3. CASE i # count'
    <3>1. i \in 1 .. count
      BY <1>4, <1>5, <2>3
    <3>2. Append(Contents, x)[i] = buf[Place(i)]
      <4>1. Append(Contents, x)[i] = Contents[i]
        BY <1>1, <1>4, <1>5, <2>3, AppendAt
      <4> QED
        BY <3>1, <4>1 DEF Contents
    <3>3. Place(i) # head /\ Place(i) \in 0 .. Size-1
      BY <1>4, <3>1 DEF Place, TypeOK
    <3> QED
      BY <2>1, <3>2, <3>3 DEF Handler, TypeOK
  <2> QED
    BY <2>2, <2>3
<1>6. Append(Contents, x) \in Seq(Item) /\ Len(Append(Contents, x)) = count'
  BY <1>1, <1>4
<1>7. Contents' = Append(Contents, x)
  BY <1>3, <1>4, <1>5, <1>6
<1> QED
  BY <1>1, <1>4, <1>7 DEF F!Put

\* The task takes the oldest byte off the queue.
LEMMA TakeGets ==
  ASSUME TypeOK, Take PROVE F!Get
<1> USE RingAssumption
<1>1. Contents \in Seq(Item) /\ Len(Contents) = count
  BY ContentsType
<1>2. TypeOK'
  BY RingTypeStep DEF RingNext
<1>3. Contents' \in Seq(Item) /\ Len(Contents') = count'
  BY <1>2, ContentsTypeNext
<1>4. count \in Nat /\ count > 0 /\ count' = count - 1
  BY DEF Take, TypeOK
<1>5. Contents # <<>> /\ Head(Contents) = buf[tail]
  <2>1. Contents[1] = buf[Place(1)] /\ Place(1) = tail
    BY <1>4 DEF Contents, Place, TypeOK
  <2> QED
    BY <1>1, <1>4, <2>1
<1>6. Tail(Contents) \in Seq(Item) /\ Len(Tail(Contents)) = count'
  BY <1>1, <1>4, <1>5
<1>7. ASSUME NEW i \in 1 .. count' PROVE Contents'[i] = Tail(Contents)[i]
  <2>1. Contents'[i] = buf'[Place(i)']
    BY <1>7 DEF Contents
  <2>2. i + 1 \in 1 .. count /\ Tail(Contents)[i] = Contents[i + 1]
    BY <1>1, <1>4, <1>5, <1>7
  <2>3. Contents[i + 1] = buf[Place(i + 1)]
    BY <2>2 DEF Contents
  <2>4. Place(i)' = Place(i + 1)
    BY <1>4, <1>7 DEF Place, Take, Step, TypeOK
  <2> QED
    BY <2>1, <2>2, <2>3, <2>4 DEF Take
<1>8. Contents' = Tail(Contents)
  BY <1>3, <1>6, <1>7
<1> QED
  BY <1>5, <1>8 DEF F!Get, Take

\* The ring is a queue for every size and every item (keyboard.c:48-54, 308-317;
\* tty.c:116-126, 145-151): nothing that found room is lost, doubled or overtaken.
THEOREM RingIsFifo == RingSpec => ImplementsFifo
<1>1. RingInit => F!Init
  <2> SUFFICES ASSUME RingInit PROVE F!Init
    OBVIOUS
  <2>1. TypeOK /\ count = 0
    BY RingTypeInit DEF RingInit
  <2>2. Contents = <<>>
    BY <2>1, ContentsType
  <2> QED
    BY <2>2 DEF F!Init, RingInit
<1>2. TypeOK /\ [RingNext]_ring => [F!Next]_F!vars
  <2> SUFFICES ASSUME TypeOK, [RingNext]_ring PROVE [F!Next]_F!vars
    OBVIOUS
  <2>1. ASSUME NEW x \in Item, Handler(x) PROVE F!Next
    BY <2>1, HandlerPuts DEF F!Next
  <2>2. CASE Take
    BY <2>2, TakeGets DEF F!Next
  <2>3. CASE Wait \/ UNCHANGED ring
    BY <2>3 DEF Wait, ring, F!vars, Contents, Place
  <2> QED
    BY <2>1, <2>2, <2>3 DEF RingNext
<1> QED
  BY <1>1, <1>2, RingCorrect, PTL DEF RingSpec, ImplementsFifo, F!Spec
=============================================================================
