----------------------------- MODULE MkfsProofs -----------------------------
(***************************************************************************)
(* Proofs about modules Mkfs and Partition, for any disk, any partition     *)
(* tables and any number of restarts: what mkfs writes stays in the         *)
(* partition whose place and size it was told, if the layout fits there     *)
(* below sector 2^28, and is a file system when it is done; the device      *)
(* numbers lead to the partitions that the tables give these names, as far  *)
(* as the numbers in the tables fit the code's.                             *)
(***************************************************************************)
EXTENDS Mkfs, FiniteSetTheorems, WellFoundedInduction, TLAPS

Short == {n \in Nat : n < WORD}
AnyPart == [base : Nat, size : Short]
Walks == [at : {"closed", "primary", "extended", "open"}, i : Nat, k : Nat, s : Nat]

\* hd_info and the walk through the tables.
DiskInv ==
  /\ \A s \in DOMAIN tables : s \in Nat /\ tables[s] \in Table
  /\ primary \in [0 .. NR_PART -> AnyPart] /\ logical \in [0 .. SUBS - 1 -> AnyPart]
  /\ walk \in Walks
  /\ walk.at \in {"primary", "extended"} => 0 \in DOMAIN tables
  /\ walk.at = "extended" => walk.i < NR_PART

\* What mkfs was told is what hd_rdwt uses, from the ioctl to the end.
MkfsInv ==
  /\ dev \in Primaries \cup Logicals /\ i \in Nat \ {0}
  /\ fs \in {"open", "ioctl", "super", "imap", "smap", "rest", "inodes", "spin"}
  /\ fs # "open" => walk.at = "open"
  /\ fs \notin {"open", "ioctl"} => geo = InfoOf(dev)

IInv == DiskInv /\ MkfsInv

\* What mkfs has written so far: when it writes a sector, those it has written
\* before are still as it left them, although an earlier attempt may have been here.
FormatInv ==
  LET n == nr_smap_sects(geo.size)
  IN  /\ fs \in {"imap", "smap", "rest", "inodes", "spin"} => Has(1, SuperBlock(geo.size))
      /\ fs \in {"smap", "rest", "inodes", "spin"} => Has(2, InodeMap)
      /\ fs \in {"rest", "inodes", "spin"} =>
           i <= n /\ Has(3, SectorMap) /\ \A m \in Nat : 1 <= m /\ m < i => Has(3 + m, NoBits)
      /\ fs \in {"inodes", "spin"} => i = n /\ Has(3 + n, Inodes(geo.size))
      /\ fs = "spin" => Has(n_1st_sect(geo.size), RootDir)

----------------------------------------------------------------------------
(* Numbers of 32 and of 28 bits *)

LEMMA Quotient ==
  ASSUME NEW b \in Nat, NEW w \in Nat, w >= 1
  PROVE  \E q \in Nat, r \in Nat : q = b \div w /\ r = b % w /\ r < w /\ b = w * q + r
OBVIOUS

LEMMA Places ==
  ASSUME NEW w \in Nat, w >= 1, NEW e \in Nat, NEW k \in Nat, k < w
  PROVE  /\ e * w + k \in Nat
         /\ (e * w + k) \div w = e /\ (e * w + k) % w = k
         /\ \A n \in Nat : e < n => e * w + k < w * n
         /\ \A f \in Nat, l \in Nat : l < w /\ e * w + k = f * w + l => e = f /\ k = l
<1>1. e * w + k \in Nat
  OBVIOUS
<1>2. \A n \in Nat : e < n => e * w + k < w * n
  <2>1. ASSUME NEW n \in Nat, e < n PROVE e * w + k < w * n
    <3>1. PICK d \in Nat : n = e + 1 + d
      <4>1. n - e - 1 \in Nat /\ n = e + 1 + (n - e - 1)
        BY <2>1
      <4> QED
        BY <4>1
    <3>2. w * n = e * w + w + w * d /\ w * d >= 0
      BY <3>1
    <3> QED
      BY <3>2
  <2> QED
    BY <2>1
<1>3. ASSUME NEW f \in Nat, NEW l \in Nat, l < w, e * w + k = f * w + l PROVE e = f /\ k = l
  <2>1. ASSUME NEW x \in Nat, NEW y \in Nat, x < y, NEW m \in Nat, m < w
        PROVE  x * w + m < y * w
    <3>1. PICK d \in Nat : y = x + 1 + d
      <4>1. y - x - 1 \in Nat /\ y = x + 1 + (y - x - 1)
        BY <2>1
      <4> QED
        BY <4>1
    <3>2. y * w = x * w + w + d * w /\ d * w >= 0
      BY <3>1
    <3> QED
      BY <2>1, <3>2
  <2>2. ~(e < f)
    <3>1. e < f => e * w + k < f * w
      BY <2>1
    <3> QED
      BY <1>3, <3>1
  <2>3. ~(f < e)
    <3>1. f < e => f * w + l < e * w
      BY <1>3, <2>1
    <3> QED
      BY <1>3, <3>1
  <2> QED
    BY <1>3, <2>2, <2>3
<1>4. (e * w + k) \div w = e /\ (e * w + k) % w = k
  <2>1. PICK u \in Nat : u = e * w + k
    BY <1>1
  <2>2. PICK q \in Nat, r \in Nat : q = u \div w /\ r = u % w /\ r < w /\ u = w * q + r
    BY Quotient, Zenon
  <2>3. e * w + k = q * w + r
    BY <2>1, <2>2
  <2> QED
    BY <1>3, <2>1, <2>2, <2>3
<1> QED
  BY <1>1, <1>2, <1>3, <1>4

\* Numbers that fit stay what they are.
LEMMA BitFacts ==
  /\ LBA \in Nat /\ LBA >= 1 /\ WORD \in Nat /\ WORD >= LBA
  /\ \A n \in Nat : U32(n) \in Nat /\ U32(n) < WORD /\ Sector(n) \in Nat /\ Sector(n) < LBA
  /\ \A n \in Nat : n < WORD => U32(n) = n
  /\ \A n \in Nat : n < LBA => Sector(n) = n
<1>1. PICK l \in Nat, w \in Nat : l = LBA /\ w = WORD /\ l >= 1 /\ w >= l
  BY PartitionAssumption
<1>2. ASSUME NEW n \in Nat, NEW v \in Nat, v >= 1
      PROVE  n % v \in Nat /\ n % v < v /\ (n < v => n % v = n)
  <2>1. PICK q \in Nat, r \in Nat : q = n \div v /\ r = n % v /\ r < v /\ n = v * q + r
    BY <1>2, Quotient, Zenon
  <2>2. ASSUME n < v, q >= 1 PROVE FALSE
    <3>1. PICK e \in Nat : q = e + 1
      BY <2>2
    <3>2. v * q = v * e + v /\ v * e >= 0
      BY <3>1
    <3> QED
      BY <2>1, <2>2, <3>2
  <2>3. q = 0 => r = n
    BY <2>1
  <2> QED
    BY <2>1, <2>2, <2>3
<1>3. \A n \in Nat : U32(n) \in Nat /\ U32(n) < w /\ (n < w => U32(n) = n)
  BY <1>1, <1>2 DEF U32
<1>4. \A n \in Nat : Sector(n) \in Nat /\ Sector(n) < l /\ (n < l => Sector(n) = n)
  BY <1>1, <1>2, <1>3 DEF Sector
<1> QED
  BY <1>1, <1>3, <1>4

\* Fewer numbers in a row than a command can name are different sectors.
LEMMA SectorsDiffer ==
  ASSUME NEW n \in Nat, NEW d \in Nat, d >= 1, d < LBA
  PROVE  Sector(n + d) # Sector(n)
<1>1. PICK l \in Nat, c \in Nat : l = LBA /\ l >= 1 /\ WORD = l * c /\ WORD >= 1 /\ WORD \in Nat
  <2>1. LBA \in Nat /\ LBA >= 1 /\ WORD \in Nat /\ WORD >= 1 /\ WORD % LBA = 0
    BY PartitionAssumption
  <2>2. PICK q \in Nat, r \in Nat : q = WORD \div LBA /\ r = WORD % LBA /\ WORD = LBA * q + r
    BY <2>1, Quotient
  <2> QED
    BY <2>1, <2>2
\* The multiple of LBA below a number.
<1>2. ASSUME NEW m \in Nat PROVE \E a \in Nat : m = a * l + Sector(m) /\ Sector(m) \in Nat /\ Sector(m) < l
  <2>1. PICK q \in Nat, r \in Nat : r = m % WORD /\ m = WORD * q + r
    <3>1. \E q \in Nat, r \in Nat : q = m \div WORD /\ r = m % WORD /\ r < WORD /\ m = WORD * q + r
      BY <1>1, Quotient, Zenon
    <3> QED
      BY <3>1, Zenon
  <2>2. PICK p \in Nat, z \in Nat : z = r % l /\ z < l /\ r = l * p + z
    <3>1. \E p \in Nat, z \in Nat : p = r \div l /\ z = r % l /\ z < l /\ r = l * p + z
      BY <1>1, Quotient, Zenon
    <3> QED
      BY <3>1, Zenon
  <2>3. Sector(m) = z
    BY <1>1, <2>1, <2>2 DEF Sector, U32
  <2>4. PICK a \in Nat : a = c * q + p
    OBVIOUS
  <2>5. a * l = (l * c) * q + l * p
    BY <2>4
  <2>7. PICK v \in Nat : v = (l * c) * q
    OBVIOUS
  <2>8. m = v + r
    BY <1>1, <2>1, <2>7
  <2>6. m = a * l + z
    <3>1. PICK u \in Nat, x \in Nat : u = a * l /\ x = l * p
      OBVIOUS
    <3>2. u = v + x
      BY <2>5, <2>7, <3>1
    <3>3. r = x + z
      BY <2>2, <3>1
    <3>4. m = u + z
      BY <2>2, <2>8, <3>2, <3>3
    <3> QED
      BY <3>1, <3>4, Zenon
  <2> QED
    BY <2>2, <2>3, <2>6
<1> SUFFICES ASSUME Sector(n + d) = Sector(n) PROVE FALSE
  OBVIOUS
<1>3. PICK z \in Nat : z = Sector(n) /\ z < l
  BY <1>2
<1>4. PICK a \in Nat : n = a * l + z
  BY <1>2, <1>3
<1>5. PICK b \in Nat : n + d = b * l + z
  <2>1. PICK m \in Nat : m = n + d
    OBVIOUS
  <2> QED
    BY <1>2, <1>3, <2>1
<1>6. ~(b > a)
  <2>1. ASSUME b > a PROVE FALSE
    <3>1. PICK e \in Nat : b = a + 1 + e
      <4>1. b - a - 1 \in Nat /\ b = a + 1 + (b - a - 1)
        BY <2>1
      <4> QED
        BY <4>1
    <3>2. b * l = a * l + l + e * l /\ e * l >= 0
      BY <3>1
    <3> QED
      BY <1>1, <1>4, <1>5, <3>2
  <2> QED
    BY <2>1
<1>7. ~(b < a)
  <2>1. ASSUME b < a PROVE FALSE
    <3>1. PICK e \in Nat : a = b + 1 + e
      <4>1. a - b - 1 \in Nat /\ a = b + 1 + (a - b - 1)
        BY <2>1
      <4> QED
        BY <4>1
    <3>2. a * l = b * l + l + e * l /\ e * l >= 0
      BY <3>1
    <3> QED
      BY <1>1, <1>4, <1>5, <3>2
  <2> QED
    BY <2>1
<1>8. b = a
  BY <1>6, <1>7
<1> QED
  BY <1>4, <1>5, <1>8

----------------------------------------------------------------------------
(* The tables *)

LEMMA Sizes ==
  /\ NR_PART \in Nat /\ NR_PART >= 2 /\ NR_SUB \in Nat /\ NR_SUB >= 1
  /\ SUBS \in Nat /\ MAX_PRIM \in Nat /\ NR_PART < MAX_PRIM
  /\ MINOR_hd1a \in Nat /\ MAX_PRIM < MINOR_hd1a
<1>1. /\ NR_PART \in Nat /\ NR_PART >= 2 /\ NR_SUB \in Nat /\ NR_SUB >= 1
      /\ MINOR_hd1a \in Nat /\ MAX_PRIM < MINOR_hd1a
  BY PartitionAssumption
<1> QED
  BY <1>1 DEF SUBS, MAX_PRIM, NR_PRIM

\* An entry of a table.
LEMMA EntryFacts ==
  ASSUME NEW tbl \in Table, NEW n \in 0 .. NR_PART - 1
  PROVE  /\ Part(tbl[n].start_sect, tbl[n].nr_sects) \in AnyPart
         /\ tbl[n].start_sect \in Nat /\ tbl[n].start_sect < WORD /\ tbl[n].nr_sects \in Short
BY PartitionAssumption DEF Part, AnyPart, Short

\* A device number leads to an entry of hd_info.
LEMMA InfoFacts ==
  ASSUME IInv
  PROVE  InfoOf(dev) \in AnyPart
<1>1. CASE dev \in Primaries
  <2>1. dev \in 0 .. NR_PART /\ dev < MAX_PRIM
    BY <1>1, Sizes DEF Primaries
  <2> QED
    BY <2>1 DEF IInv, DiskInv, InfoOf, Walks
<1>2. CASE dev \in Logicals
  <2>1. dev - MINOR_hd1a \in Nat /\ dev - MINOR_hd1a < SUBS /\ SUBS \in Nat /\ ~(dev < MAX_PRIM)
    BY <1>2, Sizes DEF Logicals
  <2>2. PICK d \in Nat : d = dev - MINOR_hd1a
    BY <2>1
  <2>3. d \div SUBS = 0
    BY <2>1, <2>2
  <2>4. LogIdx(dev) = d
    BY <2>1, <2>2, <2>3 DEF LogIdx, Rem, Quot
  <2>5. LogIdx(dev) \in 0 .. SUBS - 1
    BY <2>1, <2>2, <2>4
  <2> QED
    BY <2>1, <2>5 DEF IInv, DiskInv, InfoOf, Walks
<1> QED
  BY <1>1, <1>2 DEF IInv, MkfsInv

LEMMA InitInv == Init => IInv
<1> SUFFICES ASSUME Init PROVE IInv
  OBVIOUS
<1>1. Unknown \in AnyPart
  BY PartitionAssumption DEF Unknown, Part, AnyPart, Short
<1>2. DOMAIN tables = {}
  BY DEF Init, OpenInit
<1>3. DiskInv
  BY <1>1, <1>2 DEF Init, OpenInit, DiskInv, NoPrimary, NoLogical, Closed, Walks
<1>4. MkfsInv
  BY MkfsAssumption DEF Init, MkfsInv
<1> QED
  BY <1>3, <1>4 DEF IInv

\* get_part_table keeps the tables tables, and that of its sector is tbl.
LEMMA TableRead ==
  ASSUME DiskInv, NEW s \in Nat, NEW tbl \in Table, GetPartTable(s, tbl)
  PROVE  /\ \A x \in DOMAIN tables' : x \in Nat /\ tables'[x] \in Table
         /\ DOMAIN tables' = DOMAIN tables \cup {Sector(s)}
<1>1. CASE Sector(s) \in DOMAIN tables
  BY <1>1 DEF GetPartTable, DiskInv
<1>2. CASE Sector(s) \notin DOMAIN tables
  BY <1>2, BitFacts DEF GetPartTable, DiskInv
<1> QED
  BY <1>1, <1>2

\* The steps of the walk.
ToLink(q, w, m, n)     == q = [w EXCEPT !.k = m, !.s = n]
ToExtended(q, w, m, n) == q = [w EXCEPT !.at = "extended", !.k = m, !.s = n]
ToEntry(q, w, m)       == q = [w EXCEPT !.i = m]
ToPrimary(q, w, m)     == q = [w EXCEPT !.at = "primary", !.i = m]

LEMMA LinkFields ==
  ASSUME NEW w \in Walks, NEW q, NEW m \in Nat, NEW n \in Nat, ToLink(q, w, m, n)
  PROVE  q \in Walks /\ q.at = w.at /\ q.i = w.i /\ q.k = m /\ q.s = n
<1>1. PICK a : a = [w EXCEPT !.k = m]
  OBVIOUS
<1>2. q = [a EXCEPT !.s = n]
  BY <1>1 DEF ToLink
<1>3. a \in Walks /\ a.at = w.at /\ a.i = w.i /\ a.k = m
  BY <1>1, SMT DEF Walks
<1> QED
  BY <1>2, <1>3, SMT DEF Walks

LEMMA ExtendedFields ==
  ASSUME NEW w \in Walks, NEW q, NEW m \in Nat, NEW n \in Nat, ToExtended(q, w, m, n)
  PROVE  q \in Walks /\ q.at = "extended" /\ q.i = w.i /\ q.k = m /\ q.s = n
<1>1. PICK a : a = [w EXCEPT !.at = "extended"]
  OBVIOUS
<1>2. ToLink(q, a, m, n)
  BY <1>1 DEF ToExtended, ToLink
<1>3. a \in Walks /\ a.at = "extended" /\ a.i = w.i
  BY <1>1, SMT DEF Walks
<1>4. q \in Walks /\ q.at = a.at /\ q.i = a.i /\ q.k = m /\ q.s = n
  BY <1>2, <1>3, LinkFields
<1> QED
  BY <1>3, <1>4

LEMMA EntryFields ==
  ASSUME NEW w \in Walks, NEW q, NEW m \in Nat
  PROVE  /\ ToPrimary(q, w, m) => q \in Walks /\ q.at = "primary" /\ q.i = m
         /\ ToEntry(q, w, m) => q \in Walks /\ q.at = w.at /\ q.i = m
<1>1. ASSUME ToPrimary(q, w, m)
      PROVE  q \in Walks /\ q.at = "primary" /\ q.i = m
  <2>1. PICK a : a = [w EXCEPT !.at = "primary"]
    OBVIOUS
  <2>2. q = [a EXCEPT !.i = m]
    BY <1>1, <2>1 DEF ToPrimary
  <2>3. a \in Walks /\ a.at = "primary"
    BY <2>1, SMT DEF Walks
  <2> QED
    BY <2>2, <2>3, SMT DEF Walks
<1>2. ToEntry(q, w, m) => q \in Walks /\ q.at = w.at /\ q.i = m
  BY SMT DEF Walks, ToEntry
<1> QED
  BY <1>1, <1>2

LEMMA OpenKeeps == ASSUME DiskInv, OpenStep PROVE DiskInv'
<1>1. CASE OpenDrive
  <2>1. PICK tbl \in Table : GetPartTable(0, tbl)
    BY <1>1 DEF OpenDrive
  <2>2. (\A x \in DOMAIN tables' : x \in Nat /\ tables'[x] \in Table) /\ 0 \in DOMAIN tables'
    <3>1. PICK z \in Nat : z = 0 /\ Sector(z) = 0
      BY BitFacts
    <3>2. GetPartTable(z, tbl)
      BY <2>1, <3>1
    <3> QED
      BY <3>1, <3>2, TableRead
  <2> QED
    BY <1>1, <2>2 DEF OpenDrive, DiskInv, Walks
<1>2. CASE PrimaryEntry
  <2>1. walk.i \in 0 .. NR_PART - 1 /\ tables[0] \in Table /\ walk.i + 1 \in 0 .. NR_PART
    BY <1>2, Sizes DEF PrimaryEntry, DiskInv, Walks
  <2>2. /\ Part(tables[0][walk.i].start_sect, tables[0][walk.i].nr_sects) \in AnyPart
        /\ tables[0][walk.i].start_sect \in Nat
    BY <2>1, EntryFacts
  <2>3. primary' \in [0 .. NR_PART -> AnyPart]
    BY <1>2, <2>2 DEF PrimaryEntry, DiskInv
  <2>4. /\ walk' \in Walks
        /\ walk'.at \in {"primary", "extended"}
        /\ walk'.at = "extended" => walk'.i < NR_PART
    <3>1. walk \in Walks /\ walk.at = "primary" /\ walk.i \in Nat /\ walk.i < NR_PART
      BY <1>2 DEF PrimaryEntry, DiskInv, Walks
    <3>2. PICK m \in Nat, z \in Nat, n \in Nat : m = walk.i + 1 /\ z = 0 /\ n = tables[0][walk.i].start_sect
      BY <3>1, <2>2
    <3>3. ToExtended(walk', walk, z, n) \/ ToEntry(walk', walk, m)
      BY <1>2, <3>2, Zenon DEF PrimaryEntry, ToExtended, ToEntry
    <3>4. PICK q : q = walk'
      OBVIOUS
    <3>5. CASE ToExtended(q, walk, z, n)
      BY <3>1, <3>2, <3>4, <3>5, ExtendedFields
    <3>6. CASE ToEntry(q, walk, m)
      BY <3>1, <3>2, <3>4, <3>6, EntryFields
    <3> QED
      BY <3>3, <3>4, <3>5, <3>6
  <2> QED
    BY <1>2, <2>3, <2>4 DEF PrimaryEntry, DiskInv
<1>3. CASE SubEntry
  <2>1. walk.s \in Nat /\ walk.i + 1 \in 0 .. NR_PART
    BY <1>3, Sizes DEF SubEntry, DiskInv, Walks
  <2>2. PICK tbl \in Table :
          LET j == walk.i + 1
          IN  /\ GetPartTable(walk.s, tbl)
              /\ logical' = [logical EXCEPT ![(j - 1) * NR_SUB + walk.k] =
                               Part(U32(walk.s + tbl[0].start_sect), tbl[0].nr_sects)]
              /\ walk' = IF tbl[1].sys_id = NO_PART \/ walk.k = NR_SUB - 1
                         THEN [walk EXCEPT !.at = "primary", !.i = @ + 1]
                         ELSE [walk EXCEPT !.k = @ + 1, !.s = U32(primary[j].base + tbl[1].start_sect)]
    BY <1>3, Zenon DEF SubEntry
  <2>3. \A x \in DOMAIN tables' : x \in Nat /\ tables'[x] \in Table
    BY <2>1, <2>2, TableRead
  <2>4. 0 \in DOMAIN tables'
    BY <1>3, <2>1, <2>2, TableRead DEF SubEntry, DiskInv
  <2>5. /\ tbl[0].start_sect \in Nat /\ tbl[0].nr_sects \in Short /\ tbl[1].start_sect \in Nat
    BY Sizes, EntryFacts
  <2>6. Part(U32(walk.s + tbl[0].start_sect), tbl[0].nr_sects) \in AnyPart
    BY <2>1, <2>5, BitFacts DEF Part, AnyPart
  <2>7. logical' \in [0 .. SUBS - 1 -> AnyPart]
    BY <2>2, <2>6, Zenon DEF DiskInv
  <2>8. U32(primary[walk.i + 1].base + tbl[1].start_sect) \in Nat
    <3>1. primary[walk.i + 1] \in AnyPart
      BY <2>1 DEF DiskInv
    <3>2. PICK n \in Nat : n = primary[walk.i + 1].base + tbl[1].start_sect
      BY <2>5, <3>1 DEF AnyPart
    <3> QED
      BY <3>2, BitFacts
  <2>9. /\ walk' \in Walks
        /\ walk'.at = "extended" => walk'.i < NR_PART
    <3>1. walk \in Walks /\ walk.at = "extended" /\ walk.i \in Nat /\ walk.k \in Nat /\ walk.i < NR_PART
      BY <1>3 DEF SubEntry, DiskInv, Walks
    <3>2. PICK m \in Nat, l \in Nat, n \in Nat : /\ m = walk.i + 1 /\ l = walk.k + 1
                                           /\ n = U32(primary[walk.i + 1].base + tbl[1].start_sect)
      BY <3>1, <2>8
    <3>3. ToPrimary(walk', walk, m) \/ ToLink(walk', walk, l, n)
      BY <2>2, <3>2, Zenon DEF ToPrimary, ToLink
    <3>4. PICK q : q = walk'
      OBVIOUS
    <3>5. CASE ToPrimary(q, walk, m)
      BY <3>2, <3>1, <3>4, <3>5, EntryFields
    <3>6. CASE ToLink(q, walk, l, n)
      BY <3>1, <3>2, <3>4, <3>6, LinkFields
    <3> QED
      BY <3>3, <3>4, <3>5, <3>6
  <2> QED
    BY <1>3, <2>3, <2>4, <2>7, <2>9 DEF SubEntry, DiskInv
<1>4. CASE OpenDone
  BY <1>4 DEF OpenDone, DiskInv, Walks
<1> QED
  BY <1>1, <1>2, <1>3, <1>4 DEF OpenStep

\* No sector but sect of the partition changes.
Only(sect) ==
  \A s \in DOMAIN content' :
    s = Sector(InfoOf(dev).base + sect) \/ (s \in DOMAIN content /\ content'[s] = content[s])

LEMMA WriteKeeps ==
  ASSUME DiskInv, walk.at = "open", NEW sect, NEW what, WrSect(sect, what)
  PROVE  /\ DiskInv' /\ InfoOf(dev)' = InfoOf(dev) /\ walk' = walk /\ dev' = dev /\ geo' = geo
         /\ Only(sect)
<1>1. /\ primary' = primary /\ logical' = logical /\ walk' = walk /\ dev' = dev /\ geo' = geo
      /\ \A x \in DOMAIN tables' : x \in DOMAIN tables /\ tables'[x] = tables[x]
  BY DEF WrSect
<1>2. InfoOf(dev)' = InfoOf(dev)
  BY <1>1 DEF InfoOf, LogIdx
<1>3. Only(sect)
  <2>1. PICK s : s = Sector(InfoOf(dev).base + sect)
    OBVIOUS
  <2>2. content' = [x \in DOMAIN content \cup {s} |-> IF x = s THEN what ELSE content[x]]
    BY <2>1, Zenon DEF WrSect
  <2>3. \A x \in DOMAIN content' : x = s \/ (x \in DOMAIN content /\ content'[x] = content[x])
    BY <2>2
  <2> QED
    BY <2>1, <2>3, Zenon DEF Only
<1> QED
  BY <1>1, <1>2, <1>3 DEF DiskInv

----------------------------------------------------------------------------
(* The layout *)

LEMMA LayoutFacts ==
  ASSUME NEW size \in Nat
  PROVE  /\ nr_smap_sects(size) \in Nat /\ nr_smap_sects(size) >= 1 /\ nr_imap_sects = 1
         /\ n_1st_sect(size) = 3 + nr_smap_sects(size) + INODE_SECTS
         /\ INODE_SECTS \in Nat /\ FILE \in Nat /\ INODE_SECTS >= 1 /\ FILE >= 1
         /\ size < WORD => n_1st_sect(size) < LBA
<1>1. BITS \in Nat /\ BITS >= 1 /\ INODE_SECTS \in Nat /\ FILE \in Nat /\ INODE_SECTS >= 1 /\ FILE >= 1
  BY MkfsAssumption
<1>2. size \div BITS \in Nat
  BY <1>1
<1>3. size < WORD => size \div BITS <= WORD \div BITS
  <2>1. PICK w \in Nat : w = WORD
    BY BitFacts
  <2>2. PICK q \in Nat, r \in Nat : q = size \div BITS /\ r < BITS /\ size = BITS * q + r
    BY <1>1, Quotient
  <2>3. PICK p \in Nat, z \in Nat : p = w \div BITS /\ z < BITS /\ w = BITS * p + z
    BY <1>1, Quotient
  <2>4. ASSUME q > p PROVE size >= w
    <3>1. PICK e \in Nat : q = p + 1 + e
      <4>1. q - p - 1 \in Nat /\ q = p + 1 + (q - p - 1)
        BY <2>4
      <4> QED
        BY <4>1
    <3>2. BITS * q = BITS * p + BITS + BITS * e /\ BITS * e >= 0
      BY <1>1, <3>1
    <3> QED
      BY <1>1, <2>2, <2>3, <3>2
  <2> QED
    BY <2>1, <2>2, <2>3, <2>4
<1>4. PICK n \in Nat : n = size \div BITS
  BY <1>2
<1>5. nr_smap_sects(size) = n + 1 /\ n_1st_sect(size) = 4 + n + INODE_SECTS /\ nr_imap_sects = 1
  BY <1>1, <1>4 DEF nr_smap_sects, n_1st_sect, nr_imap_sects
<1>6. size < WORD => n_1st_sect(size) < LBA
  <2>1. PICK v \in Nat : v = WORD \div BITS
    BY <1>1, BitFacts
  <2>2. v + 4 + INODE_SECTS < LBA
    BY <2>1, MkfsAssumption
  <2> QED
    BY <1>1, <1>3, <1>4, <1>5, <2>1, <2>2, BitFacts
<1> QED
  BY <1>1, <1>4, <1>5, <1>6

\* The sectors of the partition mkfs writes.
Layout(size) == 1 .. n_1st_sect(size)

\* Every step of mkfs after the ioctl writes one of them.
LEMMA MkfsWrites ==
  ASSUME IInv, mkfs, ~GetGeo
  PROVE  /\ fs \notin {"open", "ioctl"}
         /\ fs' \in {"imap", "smap", "rest", "inodes", "spin"}
         /\ i' \in Nat \ {0}
         /\ \E sect \in Layout(geo.size) : \E what : WrSect(sect, what)
<1>0. fs \notin {"open", "ioctl"}
  BY DEF mkfs, WriteSuper, WriteImap, WriteSmap, ClearSmap, WriteInodes, WriteRoot, Goto
<1>1. geo = InfoOf(dev) /\ geo.size \in Nat /\ geo.size < WORD /\ i \in Nat /\ i >= 1
  BY <1>0, InfoFacts DEF IInv, MkfsInv, AnyPart, Short
<1>2. PICK n \in Nat : n = nr_smap_sects(geo.size) /\ n >= 1 /\ n_1st_sect(geo.size) >= 4 + n
                       /\ n_1st_sect(geo.size) \in Nat
  BY <1>1, LayoutFacts
<1>3. \A x \in 1 .. 4 + n : x \in Layout(geo.size)
  BY <1>1, <1>2, LayoutFacts DEF Layout
<1>4. CASE WriteSuper
  BY <1>0, <1>1, <1>2, <1>3, <1>4 DEF WriteSuper, Goto
<1>5. CASE WriteImap
  BY <1>0, <1>1, <1>2, <1>3, <1>5 DEF WriteImap, Goto
<1>6. CASE WriteSmap
  BY <1>0, <1>1, <1>2, <1>3, <1>6 DEF WriteSmap, Goto, nr_imap_sects
<1>7. CASE ClearSmap
  <2>1. 2 + nr_imap_sects + i \in 1 .. 4 + n
    BY <1>1, <1>2, <1>7 DEF ClearSmap, RestCleared, nr_imap_sects
  <2> QED
    BY <1>0, <1>1, <1>3, <1>7, <2>1 DEF ClearSmap
<1>8. CASE WriteInodes
  <2>1. 2 + nr_imap_sects + nr_smap_sects(geo.size) \in 1 .. 4 + n
    BY <1>2 DEF nr_imap_sects
  <2> QED
    BY <1>0, <1>1, <1>3, <1>8, <2>1 DEF WriteInodes, Goto
<1>9. CASE WriteRoot
  <2>1. n_1st_sect(geo.size) \in Layout(geo.size)
    BY <1>2 DEF Layout
  <2> QED
    BY <1>0, <1>1, <1>9, <2>1 DEF WriteRoot, Goto
<1> QED
  BY <1>4, <1>5, <1>6, <1>7, <1>8, <1>9 DEF mkfs

\* What a step of mkfs changes.
LEMMA MkfsStep ==
  ASSUME IInv, mkfs
  PROVE  IInv' /\ (content' = content \/ \E sect \in Layout(geo.size) : Only(sect))
<1>1. CASE GetGeo
  <2>1. UNCHANGED <<disk, dev, i, content>> /\ fs = "ioctl" /\ fs' = "super" /\ geo' = InfoOf(dev)
    BY <1>1 DEF GetGeo, Goto
  <2>2. DiskInv'
    BY <2>1 DEF IInv, DiskInv, disk
  <2>3. InfoOf(dev)' = InfoOf(dev)
    BY <2>1 DEF InfoOf, LogIdx, disk
  <2> QED
    BY <2>1, <2>2, <2>3 DEF IInv, MkfsInv, disk
<1>2. CASE ~GetGeo
  <2>1. PICK sect \in Layout(geo.size) : \E what : WrSect(sect, what)
    BY <1>2, MkfsWrites, Zenon
  <2>2. walk.at = "open" /\ geo = InfoOf(dev)
    BY <1>2, MkfsWrites DEF IInv, MkfsInv
  <2>3. /\ DiskInv' /\ InfoOf(dev)' = InfoOf(dev) /\ walk' = walk /\ dev' = dev /\ geo' = geo
        /\ Only(sect)
    BY <2>1, <2>2, WriteKeeps DEF IInv
  <2>4. MkfsInv'
    BY <1>2, <2>2, <2>3, MkfsWrites DEF IInv, MkfsInv
  <2> QED
    BY <2>1, <2>3, <2>4 DEF IInv
<1> QED
  BY <1>1, <1>2

LEMMA InitFsStep == ASSUME IInv, InitFs PROVE IInv' /\ content' = content
<1>1. DiskInv'
  BY OpenKeeps DEF InitFs, IInv
<1> QED
  BY <1>1 DEF InitFs, IInv, MkfsInv

LEMMA RestartStep == ASSUME IInv, Restart PROVE IInv' /\ content' = content
<1>1. Unknown \in AnyPart
  BY PartitionAssumption DEF Unknown, Part, AnyPart, Short
<1>2. DiskInv'
  BY <1>1 DEF Restart, IInv, DiskInv, NoPrimary, NoLogical, Closed, Walks
<1> QED
  BY <1>2 DEF Restart, IInv, MkfsInv

LEMMA NoStep == ASSUME IInv, UNCHANGED vars PROVE IInv' /\ content' = content
<1>1. UNCHANGED <<disk, dev, fs, geo, i, content>>
  BY DEF vars
<1>2. DiskInv'
  BY <1>1 DEF IInv, DiskInv, disk
<1>3. InfoOf(dev)' = InfoOf(dev)
  BY <1>1 DEF InfoOf, LogIdx, disk
<1> QED
  BY <1>1, <1>2, <1>3 DEF IInv, MkfsInv, disk

----------------------------------------------------------------------------
(* The file system *)

\* The sectors of the partition that the layout needs are different ones.
LEMMA AtFacts ==
  ASSUME geo.base \in Nat, NEW t \in Nat, t < LBA, NEW u \in Nat, u < LBA, t # u
  PROVE  At(t) # At(u)
<1>1. LBA \in Nat
  BY BitFacts
<1>2. ASSUME NEW x \in Nat, x < LBA, NEW y \in Nat, y < LBA, x < y
      PROVE  Sector(geo.base + x) # Sector(geo.base + y)
  <2>1. PICK n \in Nat, d \in Nat : n = geo.base + x /\ d = y - x /\ d >= 1 /\ d < LBA
    BY <1>1, <1>2
  <2>2. geo.base + y = n + d
    BY <2>1
  <2> QED
    BY <2>1, <2>2, SectorsDiffer
<1> QED
  BY <1>1, <1>2 DEF At

\* A sector written is what was written to it; the others of the layout stay.
LEMMA WriteHas ==
  ASSUME geo = InfoOf(dev), geo.base \in Nat, NEW sect \in Nat, sect < LBA, NEW what,
         WrSect(sect, what)
  PROVE  /\ geo' = geo /\ Has(sect, what)'
         /\ \A t \in Nat : \A w : t < LBA /\ t # sect /\ Has(t, w) => Has(t, w)'
<1>1. PICK s : s = At(sect)
  OBVIOUS
<1>5. s = Sector(InfoOf(dev).base + sect)
  BY <1>1 DEF At
<1>2. content' = [x \in DOMAIN content \cup {s} |-> IF x = s THEN what ELSE content[x]] /\ geo' = geo
  BY <1>5, Zenon DEF WrSect
<1>6. ASSUME NEW t PROVE At(t)' = At(t)
  BY <1>2 DEF At
<1>3. Has(sect, what)'
  <2>1. At(sect)' = s
    BY <1>1, <1>6
  <2>2. s \in DOMAIN content' /\ content'[s] = what
    BY <1>2
  <2> QED
    BY <2>1, <2>2, Zenon DEF Has
<1>4. ASSUME NEW t \in Nat, NEW w, t < LBA, t # sect, Has(t, w)
      PROVE  Has(t, w)'
  <2>1. PICK r : r = At(t)
    OBVIOUS
  <2>2. r # s
    BY <1>1, <1>4, <2>1, AtFacts
  <2>3. r \in DOMAIN content /\ content[r] = w
    BY <1>4, <2>1 DEF Has
  <2>4. r \in DOMAIN content' /\ content'[r] = w
    BY <1>2, <2>2, <2>3
  <2>5. At(t)' = r
    BY <1>6, <2>1
  <2> QED
    BY <2>4, <2>5, Zenon DEF Has
<1> QED
  BY <1>2, <1>3, <1>4

\* A request of mkfs leaves what it wrote before.
LEMMA MkfsFormats == ASSUME IInv, FormatInv, mkfs, ~GetGeo PROVE FormatInv'
<1>1. geo = InfoOf(dev) /\ geo.base \in Nat /\ geo.size \in Nat /\ geo.size < WORD /\ i \in Nat /\ i >= 1
  BY MkfsWrites, InfoFacts DEF IInv, MkfsInv, AnyPart, Short
<1>2. PICK n \in Nat, d \in Nat : n = nr_smap_sects(geo.size) /\ d = n_1st_sect(geo.size)
  BY <1>1, LayoutFacts
<1>3. n >= 1 /\ nr_imap_sects = 1 /\ d >= n + 4 /\ d < LBA /\ LBA \in Nat
  BY <1>1, <1>2, LayoutFacts, BitFacts
<1>4. PICK sb, ino : sb = SuperBlock(geo.size) /\ ino = Inodes(geo.size)
  OBVIOUS
<1> DEFINE Phases(f, j) ==
      /\ f \in {"imap", "smap", "rest", "inodes", "spin"} => Has(1, sb)
      /\ f \in {"smap", "rest", "inodes", "spin"} => Has(2, InodeMap)
      /\ f \in {"rest", "inodes", "spin"} =>
           j <= n /\ Has(3, SectorMap) /\ \A m \in Nat : 1 <= m /\ m < j => Has(3 + m, NoBits)
      /\ f \in {"inodes", "spin"} => j = n /\ Has(3 + n, ino)
      /\ f = "spin" => Has(d, RootDir)
<1>5. Phases(fs, i)
  BY <1>2, <1>4, Zenon DEF FormatInv
<1>6. PICK f, j : f = fs' /\ j = i'
  OBVIOUS
<1>7. ASSUME geo' = geo, Phases(f, j)' PROVE FormatInv'
  <2>1. /\ nr_smap_sects(geo.size)' = n /\ n_1st_sect(geo.size)' = d
        /\ SuperBlock(geo.size)' = sb /\ Inodes(geo.size)' = ino
    BY <1>2, <1>4, <1>7, Zenon DEF nr_smap_sects, n_1st_sect, SuperBlock, Inodes, nr_imap_sects, ROOT_INODE
  <2> QED
    BY <1>6, <1>7, <2>1, Zenon DEF FormatInv
<1>8. CASE WriteSuper
  <2>1. WrSect(1, sb) /\ f = "imap"
    BY <1>4, <1>6, <1>8 DEF WriteSuper, Goto
  <2>2. geo' = geo /\ Has(1, sb)'
    BY <1>1, <1>2, <1>3, <2>1, WriteHas
  <2> QED
    BY <1>7, <2>1, <2>2
<1>9. CASE WriteImap
  <2>1. WrSect(2, InodeMap) /\ f = "smap" /\ fs = "imap"
    BY <1>6, <1>9 DEF WriteImap, Goto
  <2>2. geo' = geo /\ Has(2, InodeMap)' /\ Has(1, sb)'
    BY <1>1, <1>2, <1>3, <1>5, <2>1, WriteHas
  <2> QED
    BY <1>7, <2>1, <2>2
<1>10. CASE WriteSmap
  <2>1. WrSect(3, SectorMap) /\ f = "rest" /\ fs = "smap" /\ j = 1
    BY <1>3, <1>6, <1>10 DEF WriteSmap, Goto
  <2>2. geo' = geo /\ Has(3, SectorMap)' /\ Has(2, InodeMap)' /\ Has(1, sb)'
    BY <1>1, <1>2, <1>3, <1>5, <2>1, WriteHas
  <2> QED
    BY <1>3, <1>7, <2>1, <2>2
<1>11. CASE ClearSmap
  <2>1. WrSect(3 + i, NoBits) /\ f = "rest" /\ fs = "rest" /\ j = i + 1 /\ i < n
    BY <1>1, <1>2, <1>3, <1>6, <1>11 DEF ClearSmap, RestCleared
  <2>2. PICK s \in Nat : s = 3 + i
    BY <1>1
  <2>3. /\ geo' = geo /\ Has(s, NoBits)'
        /\ \A t \in Nat : \A w : t < LBA /\ t # s /\ Has(t, w) => Has(t, w)'
    BY <1>1, <1>2, <1>3, <2>1, <2>2, WriteHas
  <2>4. Has(3, SectorMap)' /\ Has(2, InodeMap)' /\ Has(1, sb)'
    BY <1>1, <1>2, <1>3, <1>5, <2>1, <2>2, <2>3
  <2>5. ASSUME NEW m \in Nat, 1 <= m, m < j PROVE Has(3 + m, NoBits)'
    <3>1. CASE m = i
      BY <2>2, <2>3, <3>1
    <3>2. CASE m # i
      <4>1. m < i /\ 3 + m \in Nat /\ 3 + m < LBA /\ 3 + m # s
        BY <1>1, <1>2, <1>3, <2>1, <2>2, <2>5, <3>2
      <4>2. Has(3 + m, NoBits)
        BY <1>5, <2>1, <2>5, <4>1
      <4> QED
        BY <2>3, <4>1, <4>2
    <3> QED
      BY <3>1, <3>2
  <2>6. j <= n
    BY <1>1, <2>1
  <2> QED
    BY <1>7, <2>1, <2>3, <2>4, <2>5, <2>6
<1>12. CASE WriteInodes
  <2>1. WrSect(3 + n, ino) /\ f = "inodes" /\ fs = "rest" /\ j = i /\ i >= n
    BY <1>1, <1>2, <1>3, <1>4, <1>6, <1>12 DEF WriteInodes, RestCleared, Goto
  <2>2. PICK s \in Nat : s = 3 + n
    BY <1>2
  <2>3. /\ geo' = geo /\ Has(s, ino)'
        /\ \A t \in Nat : \A w : t < LBA /\ t # s /\ Has(t, w) => Has(t, w)'
    BY <1>1, <1>2, <1>3, <2>1, <2>2, WriteHas
  <2>4. Has(3, SectorMap)' /\ Has(2, InodeMap)' /\ Has(1, sb)' /\ i = n
    BY <1>1, <1>2, <1>3, <1>5, <2>1, <2>2, <2>3
  <2>5. ASSUME NEW m \in Nat, 1 <= m, m < j PROVE Has(3 + m, NoBits)'
    <3>1. 3 + m \in Nat /\ 3 + m < LBA /\ 3 + m # s
      BY <1>1, <1>2, <1>3, <2>1, <2>2, <2>4, <2>5
    <3>2. Has(3 + m, NoBits)
      BY <1>5, <2>1, <2>5
    <3> QED
      BY <2>3, <3>1, <3>2
  <2> QED
    BY <1>7, <2>1, <2>2, <2>3, <2>4, <2>5
<1>13. CASE WriteRoot
  <2>1. WrSect(d, RootDir) /\ f = "spin" /\ fs = "inodes" /\ j = i
    BY <1>2, <1>6, <1>13 DEF WriteRoot, Goto
  <2>2. /\ geo' = geo /\ Has(d, RootDir)'
        /\ \A t \in Nat : \A w : t < LBA /\ t # d /\ Has(t, w) => Has(t, w)'
    BY <1>1, <1>2, <1>3, <2>1, WriteHas
  <2>3. i = n /\ 3 + n \in Nat /\ 3 + n < LBA /\ 3 + n # d
    BY <1>2, <1>3, <1>5, <2>1
  <2>4. Has(3, SectorMap)' /\ Has(2, InodeMap)' /\ Has(1, sb)' /\ Has(3 + n, ino)'
    BY <1>2, <1>3, <1>5, <2>1, <2>2, <2>3
  <2>5. ASSUME NEW m \in Nat, 1 <= m, m < j PROVE Has(3 + m, NoBits)'
    <3>1. 3 + m \in Nat /\ 3 + m < LBA /\ 3 + m # d
      BY <1>2, <1>3, <2>1, <2>3, <2>5
    <3>2. Has(3 + m, NoBits)
      BY <1>5, <2>1, <2>5
    <3> QED
      BY <2>2, <3>1, <3>2
  <2> QED
    BY <1>2, <1>7, <2>1, <2>2, <2>3, <2>4, <2>5
<1> QED
  BY <1>8, <1>9, <1>10, <1>11, <1>12, <1>13 DEF mkfs

LEMMA FormatStep == ASSUME IInv, FormatInv, [Next]_vars PROVE FormatInv'
<1>1. CASE mkfs /\ ~GetGeo
  BY <1>1, MkfsFormats
<1>2. CASE GetGeo
  BY <1>2 DEF GetGeo, Goto, FormatInv
<1>3. CASE Restart
  BY <1>3 DEF Restart, FormatInv
<1>4. CASE InitFs
  BY <1>4 DEF InitFs, FormatInv
<1>5. CASE UNCHANGED vars
  <2>1. fs' = fs /\ geo' = geo /\ i' = i /\ content' = content
    BY <1>5 DEF vars
  <2> QED
    BY <2>1 DEF FormatInv, Has, At, SuperBlock, Inodes, nr_smap_sects, n_1st_sect, nr_imap_sects
<1> QED
  BY <1>1, <1>2, <1>3, <1>4, <1>5 DEF Next

\* The bytes and bits mkfs sets in the first sector of the sector map are a reserved
\* one and the root directory's.
LEMMA SectorMapFacts == SectorMap.bits = 0 .. FILE
<1>1. FILE \in Nat
  BY MkfsAssumption
<1>2. PICK q \in Nat, r \in Nat : /\ q = (FILE + 1) \div 8 /\ r = (FILE + 1) % 8
                                  /\ r < 8 /\ FILE + 1 = 8 * q + r
  BY <1>1
<1>3. SectorMap.bits = 0 .. 8 * q - 1 \cup {8 * q + j : j \in 0 .. r - 1}
  BY <1>2 DEF SectorMap
<1>4. ASSUME NEW x \in 0 .. FILE PROVE x \in SectorMap.bits
  <2>1. CASE x <= 8 * q - 1
    BY <1>2, <1>3, <2>1
  <2>2. CASE ~(x <= 8 * q - 1)
    <3>1. x - 8 * q \in 0 .. r - 1 /\ x = 8 * q + (x - 8 * q)
      BY <1>1, <1>2, <2>2
    <3> QED
      BY <1>3, <3>1
  <2> QED
    BY <2>1, <2>2
<1>5. ASSUME NEW x \in SectorMap.bits PROVE x \in 0 .. FILE
  <2>1. CASE x \in 0 .. 8 * q - 1
    BY <1>1, <1>2, <2>1
  <2>2. CASE \E j \in 0 .. r - 1 : x = 8 * q + j
    BY <1>1, <1>2, <2>2
  <2> QED
    BY <1>3, <2>1, <2>2
<1> QED
  BY <1>4, <1>5

\* A bit of a map that is spread over the sectors of the disk.
LEMMA BitPlace ==
  ASSUME NEW b \in Nat, NEW w \in Nat, w >= 1, NEW n \in Nat, b < n * w
  PROVE  b \div w \in Nat /\ b \div w < n /\ (b < w => b \div w = 0 /\ b % w = b)
         /\ (b \div w = 0 => b % w = b)
<1>1. PICK q \in Nat, r \in Nat : q = b \div w /\ r = b % w /\ r < w /\ b = w * q + r
  OBVIOUS
<1>2. q < n
  <2>1. ASSUME q >= n PROVE FALSE
    <3>1. PICK e \in Nat : q = n + e
      BY <2>1
    <3>2. w * q = w * n + w * e /\ w * e >= 0 /\ w * n = n * w
      BY <3>1
    <3> QED
      BY <1>1, <3>2
  <2> QED
    BY <2>1
<1>3. b < w => q = 0
  <2>1. ASSUME b < w, q >= 1 PROVE FALSE
    <3>1. PICK e \in Nat : q = e + 1
      BY <2>1
    <3>2. w * q = w * e + w /\ w * e >= 0
      BY <3>1
    <3> QED
      BY <1>1, <2>1, <3>2
  <2> QED
    BY <2>1
<1>4. q = 0 => r = b
  BY <1>1
<1> QED
  BY <1>1, <1>2, <1>3, <1>4

\* The bits marked in the sector map are the root directory's sectors.
LEMMA MarkedFacts ==
  ASSUME NEW n \in Nat, n >= 1, geo.base \in Nat, Has(3, SectorMap),
         \A m \in Nat : 1 <= m /\ m < n => Has(3 + m, NoBits)
  PROVE  {bit \in 1 .. n * BITS - 1 : bit % BITS \in content[At(3 + bit \div BITS)].bits} = 1 .. FILE
<1>1. BITS \in Nat /\ BITS >= 1 /\ FILE \in Nat /\ FILE < BITS
  BY MkfsAssumption
<1>2. n * BITS \in Nat /\ n * BITS >= BITS
  <2>1. PICK e \in Nat : n = e + 1
    OBVIOUS
  <2>2. n * BITS = e * BITS + BITS /\ e * BITS >= 0
    BY <1>1, <2>1
  <2> QED
    BY <1>1, <2>2
<1>3. ASSUME NEW b \in 1 .. n * BITS - 1
      PROVE  b % BITS \in content[At(3 + b \div BITS)].bits <=> b \in 1 .. FILE
  <2>1. /\ b \div BITS \in Nat /\ b \div BITS < n
        /\ b < BITS => b \div BITS = 0 /\ b % BITS = b
        /\ b \div BITS = 0 => b % BITS = b
    BY <1>1, <1>2, BitPlace
  <2>2. PICK q, r : q \in Nat /\ q = b \div BITS /\ r = b % BITS
    BY <2>1
  <2>3. CASE q = 0
    <3>1. r = b /\ 3 + q = 3
      BY <2>1, <2>2, <2>3
    <3>2. content[At(3 + q)].bits = 0 .. FILE
      BY <3>1, SectorMapFacts DEF Has
    <3>3. b \in 0 .. FILE <=> b \in 1 .. FILE
      BY <1>1
    <3> QED
      BY <2>2, <3>1, <3>2, <3>3
  <2>4. CASE q # 0
    <3>1. Has(3 + q, NoBits)
      BY <2>1, <2>2, <2>4
    <3>3. content[At(3 + q)].bits = {}
      BY <3>1 DEF Has, NoBits
    <3>4. ~(b \in 1 .. FILE)
      BY <1>1, <2>1, <2>2, <2>4
    <3> QED
      BY <2>2, <3>3, <3>4
  <2> QED
    BY <2>3, <2>4
<1>4. 1 .. FILE \subseteq 1 .. n * BITS - 1
  BY <1>1, <1>2
<1> QED
  BY <1>3, <1>4

\* What mkfs has written when it is done is a file system.
LEMMA DoneConsistent ==
  ASSUME NR_CONSOLES = 3, IInv, FormatInv, fs = "spin"
  PROVE  Has(1, SuperBlock(geo.size)) /\ Consistent(SuperBlock(geo.size))
<1>1. geo.base \in Nat /\ geo.size \in Nat /\ i \in Nat
  BY InfoFacts DEF IInv, MkfsInv, AnyPart, Short
<1>2. PICK n \in Nat, d \in Nat : n = nr_smap_sects(geo.size) /\ d = n_1st_sect(geo.size)
  BY <1>1, LayoutFacts
<1>3. n >= 1 /\ d = 3 + n + INODE_SECTS /\ INODE_SECTS \in Nat /\ FILE \in Nat /\ FILE >= 1
  BY <1>1, <1>2, LayoutFacts
<1>4. PICK sb, ino : sb = SuperBlock(geo.size) /\ ino = Inodes(geo.size)
  OBVIOUS
<1>5. /\ sb.nr_sects = geo.size /\ sb.nr_imap_sects = 1 /\ sb.nr_smap_sects = n
      /\ sb.n_1st_sect = d /\ sb.nr_inode_sects = INODE_SECTS /\ sb.root_inode = 1
  BY <1>2, <1>4 DEF SuperBlock, nr_imap_sects, ROOT_INODE
<1>6. /\ Has(1, sb) /\ Has(2, InodeMap) /\ Has(3, SectorMap)
      /\ \A m \in Nat : 1 <= m /\ m < n => Has(3 + m, NoBits)
      /\ Has(3 + n, ino) /\ Has(d, RootDir)
  BY <1>2, <1>4, Zenon DEF FormatInv
<1> DEFINE smap == {m \in 0 .. n - 1 : At(3 + m) \in DOMAIN content}
           marked == {bit \in 1 .. n * BITS - 1 :
                        bit % BITS \in content[At(3 + bit \div BITS)].bits}
           imap == content[At(2)].bits
           table == content[At(3 + n)].inodes
           root == table[1]
           names == content[At(root.start)].names
<1>7. smap = 0 .. n - 1
  <2>1. ASSUME NEW m \in 0 .. n - 1 PROVE At(3 + m) \in DOMAIN content
    <3>1. m = 0 => 3 + m = 3
      BY <1>1
    <3>2. m = 0 \/ (m \in Nat /\ 1 <= m /\ m < n)
      BY <1>2
    <3> QED
      BY <1>6, <3>1, <3>2 DEF Has
  <2> QED
    BY <2>1
<1>8. n * BITS > geo.size
  <2>1. BITS \in Nat /\ BITS >= 1
    BY MkfsAssumption
  <2>2. PICK q \in Nat, r \in Nat : q = geo.size \div BITS /\ r < BITS /\ geo.size = BITS * q + r
    <3>1. PICK b \in Nat, w \in Nat : b = geo.size /\ w = BITS
      BY <1>1, <2>1
    <3>2. \E q \in Nat, r \in Nat : q = b \div w /\ r = b % w /\ r < w /\ b = w * q + r
      BY <2>1, <3>1, Quotient, Zenon
    <3> QED
      BY <3>1, <3>2, Zenon
  <2>3. n = q + 1
    BY <1>2, <2>2 DEF nr_smap_sects
  <2>4. n * BITS = BITS * q + BITS
    <3>1. PICK w \in Nat : w = BITS
      BY <2>1
    <3>2. (q + 1) * w = w * q + w
      OBVIOUS
    <3> QED
      BY <2>3, <3>1, <3>2
  <2> QED
    BY <2>1, <2>2, <2>4
<1>9. imap = 0 .. 4 /\ table = ino.inodes /\ DOMAIN ino.inodes = 1 .. 4
  BY <1>4, <1>6 DEF Has, InodeMap, Inodes
<1>10. /\ root.mode = "directory" /\ root.entries = 4 /\ root.start = d /\ root.sects = FILE
  BY <1>2, <1>4, <1>9 DEF Inodes, ROOT_INODE
<1>11. /\ names = RootDir.names /\ DOMAIN RootDir.names = 0 .. 3
       /\ \A e \in 0 .. 3 : RootDir.names[e] \in 0 .. 4
  BY <1>6, <1>10 DEF Has, RootDir
<1>12. Cardinality(0 .. 3) = 4
  <2>1. PICK a \in Int, b \in Int : a = 0 /\ b = 3
    OBVIOUS
  <2>2. Cardinality(a .. b) = IF a > b THEN 0 ELSE b - a + 1
    BY FS_Interval, Zenon
  <2> QED
    BY <2>1, <2>2
<1>13. marked = 1 .. FILE
  BY <1>1, <1>2, <1>3, <1>6, MarkedFacts
<1>14. {d + bit - 1 : bit \in 1 .. FILE} = d .. d + FILE - 1
  <2>1. ASSUME NEW x \in d .. d + FILE - 1 PROVE x \in {d + bit - 1 : bit \in 1 .. FILE}
    <3>1. x - d + 1 \in 1 .. FILE /\ x = d + (x - d + 1) - 1
      BY <1>2, <1>3
    <3> QED
      BY <3>1
  <2>2. ASSUME NEW bit \in 1 .. FILE PROVE d + bit - 1 \in d .. d + FILE - 1
    BY <1>2, <1>3
  <2> QED
    BY <2>1, <2>2
<1>15. imap \ {0} = DOMAIN table
  BY <1>9
<1>16. d >= 3 + n + INODE_SECTS
  BY <1>2, <1>3
<1>17. Consistent(sb) <=>
         /\ smap = 0 .. n - 1 /\ n * BITS > geo.size
         /\ imap \ {0} = DOMAIN table
         /\ root.mode = "directory" /\ root.entries = Cardinality(DOMAIN names)
         /\ {d + bit - 1 : bit \in marked} = root.start .. root.start + root.sects - 1
         /\ \A e \in DOMAIN names : names[e] \in imap
         /\ root.start >= 3 + n + INODE_SECTS
  BY <1>5 DEF Consistent
<1> HIDE DEF smap, marked, imap, table, root, names
<1> QED
  BY <1>4, <1>6, <1>7, <1>8, <1>9, <1>10, <1>11, <1>12, <1>13, <1>14, <1>15, <1>16, <1>17

----------------------------------------------------------------------------
(* Chains of tables *)

\* Induction, of a set of numbers.
Below == {p \in Nat \X Nat : p[1] < p[2]}

LEMMA Induction ==
  ASSUME NEW H, 0 \in H, \A n \in Nat : n \in H => n + 1 \in H
  PROVE  \A n \in Nat : n \in H
<1> DEFINE T == {n \in Nat : n \notin H}
<1> SUFFICES ASSUME T # {} PROVE FALSE
  OBVIOUS
<1>1. OpToRel(<, Nat) = Below
  BY DEF OpToRel, Below
<1>2. IsWellFoundedOn(Below, Nat)
  BY <1>1, NatLessThanWellFounded
<1>3. PICK x \in T : \A y \in T : ~(<<y, x>> \in Below)
  BY <1>2, WFMin
<1>4. x \in Nat /\ x # 0
  OBVIOUS
<1>5. PICK n \in Nat : x = n + 1
  <2>1. x - 1 \in Nat /\ x = (x - 1) + 1
    BY <1>4
  <2> QED
    BY <2>1
<1>6. n \in T
  BY <1>5
<1>7. <<n, x>> \in Below
  BY <1>4, <1>5 DEF Below
<1> QED
  BY <1>3, <1>6, <1>7

\* What follows sector x in the extended partition at b, by the tables T: as the code
\* finds it, and as the tables say it.
After(T, b, x, way) ==
  IF way = "code"
  THEN IF x = -1 \/ T[Sector(x)][1].sys_id = NO_PART THEN -1
       ELSE U32(b + T[Sector(x)][1].start_sect)
  ELSE IF x \notin DOMAIN T \/ T[x][1].sys_id = NO_PART THEN -1
       ELSE b + T[x][1].start_sect

\* f is the chain of the first n + 1 tables there.
IsChain(T, b, f, n, way) ==
  f = [k \in 0 .. n |-> IF k = 0 THEN b ELSE After(T, b, f[k - 1], way)]

LEMMA ChainExists == ASSUME NEW T, NEW b, NEW way, NEW m \in Nat
                    PROVE  \E f : IsChain(T, b, f, m, way)
<1> DEFINE H == {n \in Nat : \E f : IsChain(T, b, f, n, way)}
<1>1. 0 \in H
  <2>1. PICK f : f = [k \in 0 .. 0 |-> b]
    OBVIOUS
  <2>2. IsChain(T, b, f, 0, way)
    BY <2>1 DEF IsChain
  <2> QED
    BY <2>2
<1>2. ASSUME NEW n \in Nat, n \in H PROVE n + 1 \in H
  <2>1. PICK f : IsChain(T, b, f, n, way)
    BY <1>2
  <2>2. PICK g : g = [k \in 0 .. n + 1 |-> IF k = n + 1 THEN After(T, b, f[n], way) ELSE f[k]]
    OBVIOUS
  <2>3. PICK h : h = [k \in 0 .. n + 1 |-> IF k = 0 THEN b ELSE After(T, b, g[k - 1], way)]
    OBVIOUS
  <2>4. ASSUME NEW k \in 0 .. n + 1 PROVE g[k] = h[k]
    <3>1. CASE k = n + 1
      <4>1. k - 1 = n /\ k # 0 /\ n # n + 1 /\ n \in 0 .. n + 1
        BY <3>1
      <4> QED
        BY <2>2, <2>3, <3>1, <4>1
    <3>2. CASE k = 0
      <4>1. k # n + 1 /\ k \in 0 .. n
        BY <3>2
      <4>2. f[k] = b
        BY <2>1, <3>2, <4>1 DEF IsChain
      <4> QED
        BY <2>2, <2>3, <3>2, <4>1, <4>2
    <3>3. CASE k # 0 /\ k # n + 1
      <4>1. k \in 0 .. n /\ k - 1 \in 0 .. n + 1 /\ k - 1 # n + 1
        BY <3>3
      <4>2. f[k] = After(T, b, f[k - 1], way)
        BY <2>1, <3>3, <4>1 DEF IsChain
      <4>3. g[k - 1] = f[k - 1]
        BY <2>2, <4>1
      <4> QED
        BY <2>2, <2>3, <3>3, <4>1, <4>2, <4>3
    <3> QED
      BY <3>1, <3>2, <3>3
  <2>5. g = h
    BY <2>2, <2>3, <2>4
  <2> QED
    BY <2>3, <2>5 DEF IsChain
<1> HIDE DEF H
<1>3. m \in H
  BY <1>1, <1>2, Induction
<1> QED
  BY <1>3 DEF H

ChainOf(T, b) == CHOOSE f : IsChain(T, b, f, NR_SUB - 1, "code")

\* The sector of table k of the extended partition that is entry e, by the tables T.
SubSector(T, e, k) ==
  IF T[0][e].sys_id # EXT_PART THEN -1 ELSE ChainOf(T, T[0][e].start_sect)[k]

\* Chain is what it says it is.
LEMMA ChainFacts ==
  ASSUME NEW b
  PROVE  /\ Chain(b)[0] = b
         /\ \A k \in Nat : k + 1 < NR_SUB =>
              Chain(b)[k + 1] = After(tables, b, Chain(b)[k], "said")
<1>1. PICK n \in Nat : n = NR_SUB - 1 /\ NR_SUB \in Nat
  BY Sizes
<1>2. PICK f : IsChain(tables, b, f, n, "said")
  BY ChainExists
<1>3. f = [k \in 0 .. NR_SUB - 1 |->
             IF k = 0 THEN b
             ELSE IF f[k - 1] \notin DOMAIN tables \/ tables[f[k - 1]][1].sys_id = NO_PART THEN -1
             ELSE b + tables[f[k - 1]][1].start_sect]
  BY <1>1, <1>2 DEF IsChain, After
<1>4. PICK c : c = Chain(b)
  OBVIOUS
<1>5. c = [k \in 0 .. NR_SUB - 1 |->
             IF k = 0 THEN b
             ELSE IF c[k - 1] \notin DOMAIN tables \/ tables[c[k - 1]][1].sys_id = NO_PART THEN -1
             ELSE b + tables[c[k - 1]][1].start_sect]
  BY <1>3, <1>4, Zenon DEF Chain
<1>6. 0 \in 0 .. NR_SUB - 1
  BY <1>1
<1>7. ASSUME NEW k \in Nat, k + 1 < NR_SUB PROVE c[k + 1] = After(tables, b, c[k], "said")
  <2>1. k + 1 \in 0 .. NR_SUB - 1 /\ k + 1 # 0 /\ (k + 1) - 1 = k
    BY <1>1, <1>7
  <2> QED
    BY <1>5, <2>1 DEF After
<1> QED
  BY <1>4, <1>5, <1>6, <1>7

LEMMA SubFacts ==
  ASSUME NEW T, NEW e
  PROVE  /\ SubSector(T, e, 0) = IF T[0][e].sys_id # EXT_PART THEN -1 ELSE T[0][e].start_sect
         /\ \A k \in Nat : k + 1 < NR_SUB =>
              SubSector(T, e, k + 1) = IF T[0][e].sys_id # EXT_PART THEN -1
                                       ELSE After(T, T[0][e].start_sect, SubSector(T, e, k), "code")
<1>1. PICK n \in Nat : n = NR_SUB - 1 /\ NR_SUB \in Nat
  BY Sizes
<1>2. PICK b, f : b = T[0][e].start_sect /\ f = ChainOf(T, b)
  OBVIOUS
<1>3. IsChain(T, b, f, n, "code")
  BY <1>1, <1>2, ChainExists, Zenon DEF ChainOf
<1>4. f[0] = b
  <2>1. 0 \in 0 .. n
    BY <1>1
  <2> QED
    BY <1>3, <2>1 DEF IsChain
<1>5. ASSUME NEW k \in Nat, k + 1 < NR_SUB PROVE f[k + 1] = After(T, b, f[k], "code")
  <2>1. k + 1 \in 0 .. n /\ k + 1 # 0 /\ (k + 1) - 1 = k
    BY <1>1, <1>5
  <2> QED
    BY <1>3, <2>1 DEF IsChain
<1> QED
  BY <1>2, <1>4, <1>5, Zenon DEF SubSector

\* Table x is there, or there is none.
Read(T, x) == x = -1 \/ (x \in Nat /\ Sector(x) \in DOMAIN T)

\* Tables read later do not change where the chain has led so far.
LEMMA SubStays ==
  ASSUME NEW T, NEW U, NEW e, NEW m \in Nat, m < NR_SUB, T[0] = U[0],
         \A x \in DOMAIN T : U[x] = T[x],
         \A k \in Nat : k < m => Read(T, SubSector(T, e, k))
  PROVE  SubSector(U, e, m) = SubSector(T, e, m)
<1>1. NR_SUB \in Nat
  BY Sizes
<1> DEFINE H == {k \in Nat : k <= m => SubSector(U, e, k) = SubSector(T, e, k)}
<1>2. 0 \in H
  BY SubFacts
<1>3. ASSUME NEW k \in Nat, k \in H PROVE k + 1 \in H
  <2> SUFFICES ASSUME k + 1 <= m PROVE SubSector(U, e, k + 1) = SubSector(T, e, k + 1)
    OBVIOUS
  <2>1. k < m /\ k <= m /\ k + 1 < NR_SUB
    BY <1>1
  <2>2. SubSector(U, e, k) = SubSector(T, e, k) /\ Read(T, SubSector(T, e, k))
    BY <1>3, <2>1
  <2>3. PICK b, x : b = T[0][e].start_sect /\ x = SubSector(T, e, k)
    OBVIOUS
  <2>4. After(U, b, x, "code") = After(T, b, x, "code")
    BY <2>2, <2>3 DEF After, Read
  <2> QED
    BY <2>1, <2>2, <2>3, <2>4, SubFacts
<1> HIDE DEF H
<1>4. m \in H
  BY <1>2, <1>3, Induction
<1> QED
  BY <1>4 DEF H

\* Nothing follows the end of a chain.
LEMMA SubEnds ==
  ASSUME NEW T, NEW e, NEW m \in Nat, SubSector(T, e, m) = -1, NEW k \in Nat, m <= k, k < NR_SUB
  PROVE  SubSector(T, e, k) = -1
<1>1. NR_SUB \in Nat
  BY Sizes
<1> DEFINE H == {d \in Nat : m + d < NR_SUB => SubSector(T, e, m + d) = -1}
<1>2. 0 \in H
  OBVIOUS
<1>3. ASSUME NEW d \in Nat, d \in H PROVE d + 1 \in H
  <2> SUFFICES ASSUME m + (d + 1) < NR_SUB PROVE SubSector(T, e, m + (d + 1)) = -1
    OBVIOUS
  <2>1. PICK j \in Nat : j = m + d /\ j + 1 = m + (d + 1) /\ j + 1 < NR_SUB /\ j < NR_SUB
    BY <1>1
  <2>2. SubSector(T, e, j) = -1
    BY <1>3, <2>1
  <2>3. SubSector(T, e, j + 1) = -1
    BY <2>1, <2>2, SubFacts DEF After
  <2> QED
    BY <2>1, <2>3
<1> HIDE DEF H
<1>4. PICK d \in Nat : k = m + d
  <2>1. k - m \in Nat /\ k = m + (k - m)
    OBVIOUS
  <2> QED
    BY <2>1
<1>5. d \in H
  BY <1>2, <1>3, Induction
<1> QED
  BY <1>4, <1>5 DEF H

----------------------------------------------------------------------------
(* The walk through the tables *)

\* How far it is: entry e of the table of the drive is in hd_info, and table k of the
\* extended partition there.
Passed(e) == e < walk.i \/ (e = walk.i /\ walk.at = "extended")
PassedSub(e, k) == e < walk.i \/ (e = walk.i /\ walk.at = "extended" /\ k < walk.k)

\* What the tables T say there.
PrimaryNamed(T, e) ==
  IF T[0][e].sys_id = NO_PART THEN Unknown ELSE Part(T[0][e].start_sect, T[0][e].nr_sects)
PartAt(T, s) ==
  IF s = -1 THEN Unknown
  ELSE Part(U32(s + T[Sector(s)][0].start_sect), T[Sector(s)][0].nr_sects)

\* hd_info has what the tables say up to there and nothing behind; the tables it comes
\* from have been read, so that they will not change.
EntryOK(e) ==
  /\ primary[e + 1] = IF Passed(e) THEN PrimaryNamed(tables, e) ELSE Unknown
  /\ \A k \in Nat : k < NR_SUB =>
       /\ logical[e * NR_SUB + k] =
            IF PassedSub(e, k) THEN PartAt(tables, SubSector(tables, e, k)) ELSE Unknown
       /\ PassedSub(e, k) => Read(tables, SubSector(tables, e, k))

\* The walk stands at table walk.k of the extended partition.
LinkOK ==
  /\ tables[0][walk.i].sys_id = EXT_PART
  /\ walk.k < NR_SUB /\ SubSector(tables, walk.i, walk.k) = walk.s

WalkInv ==
  /\ walk.at = "closed" => walk = Closed /\ primary = NoPrimary /\ logical = NoLogical
  /\ walk.at \in {"primary", "extended"} => \A e \in Nat : e < NR_PART => EntryOK(e)
  /\ walk.at = "extended" => LinkOK

\* The places of the logical partitions in hd_info.
LEMMA LogicalPlace ==
  ASSUME NEW e \in Nat, e < NR_PART, NEW k \in Nat, k < NR_SUB
  PROVE  e * NR_SUB + k \in 0 .. SUBS - 1
<1>1. NR_SUB \in Nat /\ NR_SUB >= 1 /\ NR_PART \in Nat /\ SUBS = NR_SUB * NR_PART /\ SUBS \in Nat
  BY Sizes DEF SUBS
<1>2. e * NR_SUB + k \in Nat /\ e * NR_SUB + k < SUBS
  BY <1>1, Places
<1> QED
  BY <1>1, <1>2

LEMMA WalkDrive == ASSUME DiskInv, WalkInv, OpenDrive PROVE WalkInv'
<1>1. walk = Closed /\ primary' = NoPrimary /\ logical' = NoLogical
  BY DEF OpenDrive, WalkInv
<1>2. walk'.at = "primary" /\ walk'.i = 0
  BY <1>1 DEF OpenDrive, Closed
<1>3. ASSUME NEW e \in Nat, e < NR_PART PROVE EntryOK(e)'
  <2>1. ~Passed(e)' /\ \A k \in Nat : ~PassedSub(e, k)'
    BY <1>2 DEF Passed, PassedSub
  <2>2. primary'[e + 1] = Unknown
    BY <1>1, <1>3, Sizes DEF NoPrimary
  <2>3. \A k \in Nat : k < NR_SUB => logical'[e * NR_SUB + k] = Unknown
    BY <1>1, <1>3, LogicalPlace DEF NoLogical
  <2> QED
    BY <2>1, <2>2, <2>3 DEF EntryOK
<1> QED
  BY <1>2, <1>3 DEF WalkInv

LEMMA WalkPrimary == ASSUME DiskInv, WalkInv, PrimaryEntry PROVE WalkInv'
<1>1. /\ walk \in Walks /\ walk.at = "primary" /\ walk.i \in Nat /\ walk.i < NR_PART
      /\ tables' = tables /\ logical' = logical
  BY DEF PrimaryEntry, DiskInv, Walks
<1>2. PICK i0 \in Nat, z \in Nat : i0 = walk.i /\ z = 0
  BY <1>1
<1>10. PICK t : t = tables[0][i0]
  OBVIOUS
<1>3. PICK m \in Nat, n \in Nat : t = tables[0][i0] /\ m = i0 + 1 /\ n = t.start_sect
  <2>1. i0 \in 0 .. NR_PART - 1 /\ tables[0] \in Table
    BY <1>1, <1>2, Sizes DEF DiskInv
  <2>2. t.start_sect \in Nat
    BY <1>10, <2>1, EntryFacts
  <2> QED
    BY <1>2, <1>10, <2>2
<1>4. /\ primary' = IF t.sys_id = NO_PART THEN primary
                    ELSE [primary EXCEPT ![m] = Part(t.start_sect, t.nr_sects)]
      /\ walk' = IF t.sys_id = EXT_PART
                 THEN [walk EXCEPT !.at = "extended", !.k = z, !.s = n]
                 ELSE [walk EXCEPT !.i = m]
  BY <1>2, <1>3, Zenon DEF PrimaryEntry
<1>5. PICK q : q = walk'
  OBVIOUS
<1>6. IF t.sys_id = EXT_PART
      THEN q.at = "extended" /\ q.i = i0 /\ q.k = 0 /\ q.s = n
      ELSE q.at = "primary" /\ q.i = m
  <2>1. CASE t.sys_id = EXT_PART
    <3>1. ToExtended(q, walk, z, n)
      BY <1>4, <1>5, <2>1, Zenon DEF ToExtended
    <3> QED
      BY <1>1, <1>2, <1>3, <2>1, <3>1, ExtendedFields
  <2>2. CASE t.sys_id # EXT_PART
    <3>1. ToEntry(q, walk, m)
      BY <1>4, <1>5, <2>2, Zenon DEF ToEntry
    <3> QED
      BY <1>1, <1>3, <2>2, <3>1, EntryFields
  <2> QED
    BY <2>1, <2>2
<1>7. \A e \in Nat : e < NR_PART => EntryOK(e)
  BY <1>1 DEF WalkInv
<1>8. ASSUME NEW e \in Nat, e < NR_PART PROVE EntryOK(e)'
  <2>1. Passed(e) <=> e < i0
    BY <1>1, <1>2 DEF Passed
  <2>2. Passed(e)' <=> (e < i0 \/ e = i0)
    BY <1>2, <1>3, <1>5, <1>6 DEF Passed
  <2>3. primary'[e + 1] = IF Passed(e)' THEN PrimaryNamed(tables, e) ELSE Unknown
    <3>1. primary[e + 1] = IF Passed(e) THEN PrimaryNamed(tables, e) ELSE Unknown
      BY <1>7, <1>8 DEF EntryOK
    <3>2. CASE e = i0
      <4>1. m \in 0 .. NR_PART /\ e + 1 = m
        BY <1>1, <1>2, <1>3, <3>2, Sizes
      <4> QED
        BY <1>3, <1>4, <2>1, <2>2, <3>1, <3>2, <4>1 DEF PrimaryNamed, DiskInv
    <3>3. CASE e # i0
      <4>1. e + 1 # m
        BY <1>2, <1>3, <3>3
      <4>2. primary'[e + 1] = primary[e + 1]
        BY <1>4, <4>1 DEF DiskInv
      <4> QED
        BY <2>1, <2>2, <3>1, <3>3, <4>2
    <3> QED
      BY <3>2, <3>3
  <2>4. ASSUME NEW k \in Nat, k < NR_SUB
        PROVE  /\ logical[e * NR_SUB + k] =
                    IF PassedSub(e, k)' THEN PartAt(tables, SubSector(tables, e, k)) ELSE Unknown
               /\ PassedSub(e, k)' => Read(tables, SubSector(tables, e, k))
    <3>1. /\ logical[e * NR_SUB + k] =
               IF PassedSub(e, k) THEN PartAt(tables, SubSector(tables, e, k)) ELSE Unknown
          /\ PassedSub(e, k) => Read(tables, SubSector(tables, e, k))
      BY <1>7, <1>8, <2>4 DEF EntryOK
    <3>2. PassedSub(e, k) <=> e < i0
      BY <1>1, <1>2 DEF PassedSub
    <3>3. PassedSub(e, k)' <=> (e < i0 \/ (e = i0 /\ t.sys_id # EXT_PART))
      BY <1>2, <1>3, <1>5, <1>6, <2>4 DEF PassedSub
    <3>4. CASE e = i0 /\ t.sys_id # EXT_PART
      <4>1. SubSector(tables, e, k) = -1
        BY <1>3, <3>4 DEF SubSector
      <4> QED
        BY <1>2, <3>1, <3>2, <3>3, <3>4, <4>1 DEF PartAt, Read
    <3> QED
      BY <3>1, <3>2, <3>3, <3>4
  <2> QED
    BY <1>1, <2>3, <2>4 DEF EntryOK
<1>9. q.at = "extended" => LinkOK'
  <2> SUFFICES ASSUME q.at = "extended" PROVE LinkOK'
    OBVIOUS
  <2>1. t.sys_id = EXT_PART /\ q.i = i0 /\ q.k = 0 /\ q.s = n
    BY <1>6
  <2>2. SubSector(tables, i0, 0) = n
    BY <1>3, <2>1, SubFacts
  <2>3. 0 < NR_SUB
    BY Sizes
  <2> QED
    BY <1>1, <1>3, <1>5, <2>1, <2>2, <2>3 DEF LinkOK
<1> QED
  BY <1>5, <1>6, <1>8, <1>9 DEF WalkInv

LEMMA TableStays ==
  ASSUME NEW s, NEW tbl, GetPartTable(s, tbl)
  PROVE  /\ DOMAIN tables' = DOMAIN tables \cup {Sector(s)} /\ tables'[Sector(s)] = tbl
         /\ \A x \in DOMAIN tables : tables'[x] = tables[x]
<1>1. CASE Sector(s) \in DOMAIN tables
  BY <1>1 DEF GetPartTable
<1>2. CASE Sector(s) \notin DOMAIN tables
  BY <1>2 DEF GetPartTable
<1> QED
  BY <1>1, <1>2

LEMMA WalkSub == ASSUME DiskInv, WalkInv, SubEntry PROVE WalkInv'
<1>1. PICK i0 \in Nat, k0 \in Nat, s0 \in Nat : i0 = walk.i /\ k0 = walk.k /\ s0 = walk.s
  BY DEF DiskInv, Walks
<1>2. /\ walk \in Walks /\ walk.at = "extended" /\ i0 < NR_PART /\ 0 \in DOMAIN tables
      /\ primary' = primary /\ NR_SUB \in Nat /\ NR_SUB >= 1
  BY <1>1, Sizes DEF DiskInv, SubEntry
<1>3. tables[0][i0].sys_id = EXT_PART /\ k0 < NR_SUB /\ SubSector(tables, i0, k0) = s0
  BY <1>1, <1>2 DEF WalkInv, LinkOK
<1>4. \A e \in Nat : e < NR_PART => EntryOK(e)
  BY <1>2 DEF WalkInv
<1>5. PICK b : b = tables[0][i0].start_sect
  OBVIOUS
<1>6. primary[i0 + 1].base = b
  <2>1. Passed(i0)
    BY <1>1, <1>2 DEF Passed
  <2>2. primary[i0 + 1] = Part(tables[0][i0].start_sect, tables[0][i0].nr_sects)
    BY <1>2, <1>3, <1>4, <2>1 DEF EntryOK, PrimaryNamed, NO_PART, EXT_PART
  <2> QED
    BY <1>5, <2>2 DEF Part
<1>7. PICK tbl \in Table :
        LET j == walk.i + 1
        IN  /\ GetPartTable(walk.s, tbl)
            /\ logical' = [logical EXCEPT ![(j - 1) * NR_SUB + walk.k] =
                             Part(U32(walk.s + tbl[0].start_sect), tbl[0].nr_sects)]
            /\ walk' = IF tbl[1].sys_id = NO_PART \/ walk.k = NR_SUB - 1
                       THEN [walk EXCEPT !.at = "primary", !.i = @ + 1]
                       ELSE [walk EXCEPT !.k = @ + 1, !.s = U32(primary[j].base + tbl[1].start_sect)]
  BY Zenon DEF SubEntry
<1>8. PICK U, x, p, last : /\ U = tables' /\ x = i0 * NR_SUB + k0
                           /\ p = Part(U32(s0 + tbl[0].start_sect), tbl[0].nr_sects)
                           /\ last = (tbl[1].sys_id = NO_PART \/ k0 = NR_SUB - 1)
  OBVIOUS
<1>9. GetPartTable(s0, tbl) /\ logical' = [logical EXCEPT ![x] = p]
  <2>1. (walk.i + 1) - 1 = i0
    BY <1>1
  <2> QED
    BY <1>1, <1>7, <1>8, <2>1, Zenon
<1>10. /\ DOMAIN U = DOMAIN tables \cup {Sector(s0)} /\ U[Sector(s0)] = tbl
       /\ (\A y \in DOMAIN tables : U[y] = tables[y]) /\ U[0] = tables[0]
  BY <1>2, <1>8, <1>9, TableStays
<1>11. PICK m \in Nat, l \in Nat, n \in Nat : m = i0 + 1 /\ l = k0 + 1 /\ n = U32(b + tbl[1].start_sect)
  <2>1. i0 \in 0 .. NR_PART - 1 /\ tables[0] \in Table
    BY <1>2, Sizes DEF DiskInv
  <2>2. b \in Nat
    BY <1>5, <2>1, EntryFacts
  <2>3. 1 \in 0 .. NR_PART - 1
    BY Sizes
  <2>4. tbl[1].start_sect \in Nat
    BY <1>7, <2>3, EntryFacts
  <2> QED
    BY <2>2, <2>4, BitFacts
<1>12. PICK q : q = walk'
  OBVIOUS
<1>13. IF tbl[1].sys_id = NO_PART \/ k0 = NR_SUB - 1
       THEN q.at = "primary" /\ q.i = m
       ELSE q.at = "extended" /\ q.i = i0 /\ q.k = l /\ q.s = n
  <2>1. CASE tbl[1].sys_id = NO_PART \/ k0 = NR_SUB - 1
    <3>1. ToPrimary(q, walk, m)
      BY <1>1, <1>7, <1>11, <1>12, <2>1, Zenon DEF ToPrimary
    <3> QED
      BY <1>2, <1>11, <2>1, <3>1, EntryFields
  <2>2. CASE ~(tbl[1].sys_id = NO_PART \/ k0 = NR_SUB - 1)
    <3>1. ToLink(q, walk, l, n)
      BY <1>1, <1>6, <1>7, <1>11, <1>12, <2>2, Zenon DEF ToLink
    <3> QED
      BY <1>1, <1>2, <1>11, <2>2, <3>1, LinkFields
  <2> QED
    BY <2>1, <2>2
\* What has been passed stays as it is.
<1>14. ASSUME NEW e \in Nat, e < NR_PART, NEW k \in Nat, k < NR_SUB,
              PassedSub(e, k) \/ (e = i0 /\ k = k0)
       PROVE  SubSector(U, e, k) = SubSector(tables, e, k)
  <2>1. ASSUME NEW j \in Nat, j < k PROVE Read(tables, SubSector(tables, e, j))
    <3>1. PassedSub(e, j) /\ j < NR_SUB
      BY <1>1, <1>2, <1>14, <2>1 DEF PassedSub
    <3> QED
      BY <1>4, <1>14, <2>1, <3>1 DEF EntryOK
  <2> QED
    BY <1>10, <1>14, <2>1, SubStays
<1>15. SubSector(U, i0, k0) = s0 /\ PartAt(U, s0) = p
  BY <1>2, <1>3, <1>8, <1>10, <1>14 DEF PartAt
<1>16. k0 + 1 < NR_SUB =>
         SubSector(U, i0, k0 + 1) = IF tbl[1].sys_id = NO_PART THEN -1 ELSE n
  <2>1. After(U, b, s0, "code") = IF tbl[1].sys_id = NO_PART THEN -1 ELSE n
    BY <1>10, <1>11 DEF After
  <2> QED
    BY <1>3, <1>5, <1>10, <1>15, <2>1, SubFacts
<1>17. ASSUME NEW e \in Nat, e < NR_PART, NEW k \in Nat, k < NR_SUB
       PROVE  logical'[e * NR_SUB + k] = IF e = i0 /\ k = k0 THEN p ELSE logical[e * NR_SUB + k]
  <2>1. PICK y \in 0 .. SUBS - 1 : y = e * NR_SUB + k
    BY <1>17, LogicalPlace
  <2>2. y = x => e = i0 /\ k = k0
    <3>1. \A f \in Nat, g \in Nat :
            g < NR_SUB /\ e * NR_SUB + k = f * NR_SUB + g => e = f /\ k = g
      <4>1. PICK w \in Nat : w = NR_SUB /\ w >= 1
        BY <1>2
      <4>2. \A f \in Nat, g \in Nat : g < w /\ e * w + k = f * w + g => e = f /\ k = g
        BY <1>17, <4>1, Places
      <4> QED
        BY <4>1, <4>2
    <3> QED
      BY <1>3, <1>8, <2>1, <3>1
  <2>3. e = i0 /\ k = k0 => y = x
    BY <1>8, <2>1
  <2>4. logical'[y] = IF y = x THEN p ELSE logical[y]
    BY <1>9 DEF DiskInv
  <2> QED
    BY <2>1, <2>2, <2>3, <2>4
<1>18. ASSUME NEW e \in Nat, e < NR_PART PROVE EntryOK(e)'
  <2>1. primary'[e + 1] = IF Passed(e)' THEN PrimaryNamed(U, e) ELSE Unknown
    <3>1. Passed(e)' <=> Passed(e)
      BY <1>1, <1>2, <1>11, <1>12, <1>13 DEF Passed
    <3>2. PrimaryNamed(U, e) = PrimaryNamed(tables, e)
      BY <1>10 DEF PrimaryNamed
    <3> QED
      BY <1>2, <1>4, <1>18, <3>1, <3>2 DEF EntryOK
  <2>2. ASSUME NEW k \in Nat, k < NR_SUB
        PROVE  /\ logical'[e * NR_SUB + k] =
                    IF PassedSub(e, k)' THEN PartAt(U, SubSector(U, e, k)) ELSE Unknown
               /\ PassedSub(e, k)' => Read(U, SubSector(U, e, k))
    <3>1. /\ logical[e * NR_SUB + k] =
               IF PassedSub(e, k) THEN PartAt(tables, SubSector(tables, e, k)) ELSE Unknown
          /\ PassedSub(e, k) => Read(tables, SubSector(tables, e, k))
      BY <1>4, <1>18, <2>2 DEF EntryOK
    <3>2. logical'[e * NR_SUB + k] = IF e = i0 /\ k = k0 THEN p ELSE logical[e * NR_SUB + k]
      BY <1>17, <1>18, <2>2
    <3>3. PassedSub(e, k) <=> (e < i0 \/ (e = i0 /\ k < k0))
      BY <1>1, <1>2 DEF PassedSub
    <3>4. PassedSub(e, k)' <=>
            IF tbl[1].sys_id = NO_PART \/ k0 = NR_SUB - 1 THEN e <= i0
            ELSE e < i0 \/ (e = i0 /\ k <= k0)
      BY <1>11, <1>12, <1>13 DEF PassedSub
    <3>5. CASE PassedSub(e, k)
      <4>1. SubSector(U, e, k) = SubSector(tables, e, k)
        BY <1>14, <1>18, <2>2, <3>5
      <4>2. PartAt(U, SubSector(tables, e, k)) = PartAt(tables, SubSector(tables, e, k))
        BY <1>10, <3>1, <3>5 DEF PartAt, Read
      <4>3. PassedSub(e, k)' /\ ~(e = i0 /\ k = k0)
        BY <3>3, <3>4, <3>5
      <4> QED
        BY <1>10, <3>1, <3>2, <3>5, <4>1, <4>2, <4>3 DEF Read
    <3>6. CASE e = i0 /\ k = k0
      <4>1. PassedSub(e, k)'
        BY <3>4, <3>6
      <4> QED
        BY <1>10, <1>15, <3>2, <3>6, <4>1 DEF Read
    <3>7. CASE ~PassedSub(e, k) /\ ~(e = i0 /\ k = k0)
      <4>1. logical'[e * NR_SUB + k] = Unknown
        BY <3>1, <3>2, <3>7
      <4>2. ASSUME PassedSub(e, k)' PROVE SubSector(U, e, k) = -1
        <5>1. /\ e = i0 /\ k0 + 1 <= k /\ k0 + 1 < NR_SUB
              /\ tbl[1].sys_id = NO_PART
          BY <1>2, <2>2, <3>3, <3>4, <3>7, <4>2
        <5>2. SubSector(U, i0, k0 + 1) = -1
          BY <1>16, <5>1
        <5> QED
          BY <1>11, <2>2, <5>1, <5>2, SubEnds
      <4> QED
        BY <4>1, <4>2 DEF PartAt, Read
    <3> QED
      BY <3>5, <3>6, <3>7
  <2> QED
    BY <1>8, <2>1, <2>2 DEF EntryOK
<1>19. q.at = "extended" => LinkOK'
  <2> SUFFICES ASSUME q.at = "extended" PROVE LinkOK'
    OBVIOUS
  <2>1. q.i = i0 /\ q.k = k0 + 1 /\ q.s = n /\ tbl[1].sys_id # NO_PART /\ k0 + 1 < NR_SUB
    BY <1>2, <1>3, <1>11, <1>13
  <2>2. SubSector(U, i0, k0 + 1) = n
    BY <1>16, <2>1
  <2> QED
    BY <1>3, <1>8, <1>10, <1>12, <2>1, <2>2 DEF LinkOK
<1> QED
  BY <1>12, <1>13, <1>18, <1>19 DEF WalkInv

\* As far as the tables are where a command can reach, the code finds what they say.
LEMMA ChainFound ==
  ASSUME DiskInv, NEW e \in Nat, e < NR_PART, 0 \in DOMAIN tables, tables[0][e].sys_id = EXT_PART,
         NEW n \in Nat, n < NR_SUB,
         \A k \in Nat : k <= n => Chain(tables[0][e].start_sect)[k] < LBA,
         \A k \in Nat : k <= n => Read(tables, SubSector(tables, e, k))
  PROVE  Chain(tables[0][e].start_sect)[n] = SubSector(tables, e, n)
<1>1. PICK b, c : b = tables[0][e].start_sect /\ c = Chain(b)
  OBVIOUS
<1>2. /\ NR_SUB \in Nat /\ LBA \in Nat /\ WORD \in Nat /\ LBA <= WORD
      /\ e \in 0 .. NR_PART - 1 /\ 1 \in 0 .. NR_PART - 1 /\ tables[0] \in Table /\ b \in Nat
  <2>1. e \in 0 .. NR_PART - 1 /\ 1 \in 0 .. NR_PART - 1 /\ tables[0] \in Table
    BY Sizes DEF DiskInv
  <2> QED
    BY <1>1, <2>1, Sizes, BitFacts, EntryFacts
<1> DEFINE H == {k \in Nat : k <= n => c[k] = SubSector(tables, e, k)}
<1>3. 0 \in H
  BY <1>1, ChainFacts, SubFacts
<1>4. ASSUME NEW k \in Nat, k \in H PROVE k + 1 \in H
  <2> SUFFICES ASSUME k + 1 <= n PROVE c[k + 1] = SubSector(tables, e, k + 1)
    OBVIOUS
  <2>1. PICK x : x = c[k] /\ x = SubSector(tables, e, k) /\ x < LBA /\ Read(tables, x)
    BY <1>1, <1>4
  <2>2. c[k + 1] = After(tables, b, x, "said") /\ k + 1 < NR_SUB
    <3>1. k + 1 < NR_SUB
      BY <1>2
    <3>2. \A j \in Nat : j + 1 < NR_SUB => c[j + 1] = After(tables, b, c[j], "said")
      BY <1>1, ChainFacts, Zenon
    <3> QED
      BY <2>1, <3>1, <3>2, Zenon
  <2>3. SubSector(tables, e, k + 1) = After(tables, b, x, "code")
    BY <1>1, <2>1, <2>2, SubFacts
  <2>4. CASE x = -1
    <3>1. x \notin DOMAIN tables
      BY <2>4 DEF DiskInv
    <3> QED
      BY <2>2, <2>3, <2>4, <3>1 DEF After
  <2>5. CASE x \in Nat /\ Sector(x) \in DOMAIN tables
    <3>1. Sector(x) = x /\ x \in DOMAIN tables /\ tables[x] \in Table
      BY <2>1, <2>5, BitFacts DEF DiskInv
    <3>2. PICK t : t = tables[x][1]
      OBVIOUS
    <3>3. CASE t.sys_id = NO_PART
      BY <2>2, <2>3, <3>1, <3>2, <3>3 DEF After
    <3>4. CASE t.sys_id # NO_PART
      <4>1. t.start_sect \in Nat
        BY <1>2, <3>1, <3>2, EntryFacts
      <4>2. c[k + 1] = b + t.start_sect
        BY <2>2, <2>5, <3>1, <3>2, <3>4 DEF After
      <4>3. SubSector(tables, e, k + 1) = U32(b + t.start_sect)
        BY <2>3, <2>5, <3>1, <3>2, <3>4 DEF After
      <4>4. c[k + 1] < LBA
        BY <1>1, <2>2
      <4>5. b + t.start_sect \in Nat /\ b + t.start_sect < WORD
        BY <1>2, <4>1, <4>2, <4>4
      <4> QED
        BY <4>2, <4>3, <4>5, BitFacts
    <3> QED
      BY <3>3, <3>4
  <2> QED
    BY <2>1, <2>4, <2>5 DEF Read
<1> HIDE DEF H
<1>5. n \in H
  BY <1>3, <1>4, Induction
<1> QED
  BY <1>1, <1>5 DEF H

\* A walk that has come to its end has found what the tables say, as far as it can.
LEMMA WalkFinds ==
  ASSUME DiskInv, WalkInv, OpenDone, NEW d \in Primaries \cup Logicals
  PROVE  DrvOfDev(d) = 0 /\ (Reached(d) => InfoOf(d) = Named(d))
<1>1. walk.at = "primary" /\ walk.i = NR_PART
  BY DEF OpenDone
<1>2. /\ NR_PART \in Nat /\ NR_SUB \in Nat /\ NR_SUB >= 1 /\ NR_PART >= 2 /\ SUBS \in Nat
      /\ MAX_PRIM \in Nat /\ MINOR_hd1a \in Nat /\ NR_PART < MAX_PRIM /\ MAX_PRIM < MINOR_hd1a
      /\ SUBS = NR_SUB * NR_PART
  BY Sizes DEF SUBS
<1>3. ASSUME NEW e \in Nat, e < NR_PART
      PROVE  /\ primary[e + 1] = PrimaryNamed(tables, e)
             /\ \A k \in Nat : k < NR_SUB =>
                  /\ logical[e * NR_SUB + k] = PartAt(tables, SubSector(tables, e, k))
                  /\ Read(tables, SubSector(tables, e, k))
  BY <1>1, <1>3 DEF WalkInv, EntryOK, Passed, PassedSub
<1>4. CASE d \in Primaries
  <2>1. d \in Nat /\ d >= 1 /\ d <= NR_PART /\ d < MAX_PRIM
    BY <1>2, <1>4 DEF Primaries
  <2>2. PICK e \in Nat : d = e + 1 /\ e = d - 1 /\ e < NR_PART
    <3>1. d - 1 \in Nat /\ d = (d - 1) + 1 /\ d - 1 < NR_PART
      BY <1>2, <2>1
    <3> QED
      BY <3>1
  <2>3. InfoOf(d) = PrimaryNamed(tables, e)
    BY <1>3, <2>1, <2>2 DEF InfoOf
  <2>4. Named(d) = PrimaryNamed(tables, e)
    BY <1>4, <2>2 DEF Named, PrimaryNamed
  <2>5. DrvOfDev(d) = 0
    <3>1. PICK w \in Nat : w = NR_PRIM /\ w = NR_PART + 1
      BY <1>2 DEF NR_PRIM
    <3>2. d < w /\ d <= MAX_PRIM
      BY <1>2, <2>1, <3>1
    <3>3. d \div w = 0
      BY <2>1, <3>2
    <3> QED
      BY <2>1, <3>1, <3>2, <3>3 DEF DrvOfDev, Quot
  <2> QED
    BY <2>3, <2>4, <2>5
<1>5. CASE d \in Logicals
  <2>1. PICK l \in Nat : l = d - MINOR_hd1a /\ l < SUBS /\ ~(d < MAX_PRIM) /\ ~(d <= MAX_PRIM) /\ d \notin Primaries
    <3>1. /\ d - MINOR_hd1a \in Nat /\ d - MINOR_hd1a < SUBS /\ ~(d < MAX_PRIM) /\ ~(d <= MAX_PRIM)
          /\ d \notin Primaries
      BY <1>2, <1>5 DEF Logicals, Primaries
    <3> QED
      BY <3>1
  <2>2. PICK e \in Nat, k \in Nat : e = l \div NR_SUB /\ k = l % NR_SUB /\ k < NR_SUB /\ l = NR_SUB * e + k
    BY <1>2, Quotient
  <2>3. l = e * NR_SUB + k /\ e < NR_PART
    <3>1. l = e * NR_SUB + k
      <4>1. NR_SUB * e = e * NR_SUB
        BY <1>2
      <4> QED
        BY <2>2, <4>1
    <3>2. l < NR_PART * NR_SUB
      <4>1. NR_SUB * NR_PART = NR_PART * NR_SUB
        BY <1>2
      <4> QED
        BY <1>2, <2>1, <4>1
    <3>3. e < NR_PART
      BY <1>2, <2>2, <3>2, BitPlace
    <3> QED
      BY <3>1, <3>3
  <2>4. l \div SUBS = 0
    BY <1>2, <2>1
  <2>5. LogIdx(d) = l /\ DrvOfDev(d) = 0
    BY <1>2, <2>1, <2>4 DEF LogIdx, DrvOfDev, Rem, Quot
  <2>6. InfoOf(d) = PartAt(tables, SubSector(tables, e, k))
    BY <1>3, <2>1, <2>2, <2>3, <2>5 DEF InfoOf
  <2>7. ASSUME Reached(d) PROVE Named(d) = PartAt(tables, SubSector(tables, e, k))
    <3>1. PICK t : t = tables[0][e]
      OBVIOUS
    <3>2. EntryOf(d) = t /\ PlaceOf(d) = k
      BY <2>1, <2>2, <3>1, Zenon DEF EntryOf, PlaceOf
    <3>3. CASE t.sys_id # EXT_PART
      <4>1. SubSector(tables, e, k) = -1
        BY <3>1, <3>3 DEF SubSector
      <4>2. Named(d) = Unknown
        BY <2>1, <3>2, <3>3 DEF Named
      <4> QED
        BY <4>1, <4>2 DEF PartAt
    <3>4. CASE t.sys_id = EXT_PART
      <4>1. PICK x : x = Chain(t.start_sect)[k]
        OBVIOUS
      <4>2. \A m \in Nat : m <= k => Chain(t.start_sect)[m] < LBA
        <5>1. \A m \in 0 .. k : Chain(t.start_sect)[m] < LBA
          BY <2>1, <2>7, <3>2, <3>4 DEF Reached
        <5> QED
          BY <5>1
      <4>3. \A m \in Nat : m <= k => Read(tables, SubSector(tables, e, m))
        <5>1. \A m \in Nat : m <= k => m < NR_SUB
          BY <1>2, <2>2
        <5> QED
          BY <1>3, <2>3, <5>1
      <4>4. x = SubSector(tables, e, k)
        BY <1>1, <2>2, <2>3, <3>1, <3>4, <4>1, <4>2, <4>3, ChainFound DEF DiskInv
      <4>5. Named(d) = IF x = -1 THEN Unknown
                       ELSE Part(x + tables[x][0].start_sect, tables[x][0].nr_sects)
        BY <2>1, <3>2, <3>4, <4>1, Zenon DEF Named
      <4>6. CASE x = -1
        BY <4>4, <4>5, <4>6 DEF PartAt
      <4>7. CASE x # -1
        <5>1. x \in Nat /\ Sector(x) \in DOMAIN tables /\ x < LBA
          <6>2. k <= k
            OBVIOUS
          <6>1. Read(tables, x) /\ x < LBA
            BY <4>1, <4>2, <4>3, <4>4, <6>2, Zenon
          <6> QED
            BY <4>7, <6>1 DEF Read
        <5>2. Sector(x) = x /\ tables[x] \in Table
          BY <5>1, BitFacts DEF DiskInv
        <5>3. tables[x][0].start_sect \in Nat
          <6>1. 0 \in 0 .. NR_PART - 1
            BY <1>2
          <6> QED
            BY <5>2, <6>1, EntryFacts
        <5>4. PICK n \in Nat : n = x + tables[x][0].start_sect
          BY <5>1, <5>3
        <5>5. Named(d).base = n
          BY <4>5, <4>7, <5>4 DEF Part
        <5>6. n < WORD
          BY <2>1, <2>7, <3>2, <3>4, <5>5 DEF Reached
        <5>7. U32(n) = n
          BY <5>6, BitFacts
        <5> QED
          BY <4>4, <4>5, <4>7, <5>2, <5>4, <5>7 DEF PartAt
      <4> QED
        BY <4>6, <4>7
    <3> QED
      BY <3>3, <3>4
  <2> QED
    BY <2>5, <2>6, <2>7
<1> QED
  BY <1>4, <1>5

LEMMA WalkStep == ASSUME IInv, WalkInv, [Next]_vars PROVE WalkInv'
<1>1. CASE InitFs
  <2>1. CASE OpenDone
    BY <2>1 DEF OpenDone, DiskInv, Walks, WalkInv, IInv
  <2> QED
    BY <1>1, <2>1, WalkDrive, WalkPrimary, WalkSub DEF InitFs, OpenStep, IInv
<1>2. CASE mkfs
  <2>1. walk.at = "open"
    BY <1>2 DEF IInv, MkfsInv, mkfs, GetGeo, WriteSuper, WriteImap, WriteSmap, ClearSmap, WriteInodes, WriteRoot, Goto
  <2>2. walk' = walk
    BY <1>2 DEF mkfs, GetGeo, WriteSuper, WriteImap, WriteSmap, ClearSmap, WriteInodes, WriteRoot, WrSect, disk
  <2> QED
    BY <2>1, <2>2 DEF WalkInv
<1>3. CASE Restart
  BY <1>3 DEF Restart, WalkInv, Closed
<1>4. CASE UNCHANGED vars
  <2>1. UNCHANGED <<tables, primary, logical, walk>>
    BY <1>4 DEF vars, disk
  <2> QED
    BY <2>1 DEF WalkInv, EntryOK, LinkOK, Passed, PassedSub
<1> QED
  BY <1>1, <1>2, <1>3, <1>4 DEF Next

----------------------------------------------------------------------------
(* The theorems *)

\* Whatever the tables say and wherever the machine stops, what mkfs was told of its
\* partition is what its requests are carried out with (fs/main.c:108, hd.c:314).
THEOREM Invariance == Spec => []IInv
<1>1. IInv /\ [Next]_vars => IInv'
  BY MkfsStep, InitFsStep, RestartStep, NoStep DEF Next
<1> QED
  BY <1>1, InitInv, PTL DEF Spec

\* mkfs writes to its own partition only, if that has room enough (fs/main.c:135) and
\* ends where the 28 bits of a sector number do or before (hd.c:327-330).
THEOREM StaysCorrect == Spec => StaysInPartition
<1>1. ASSUME IInv, [Next]_vars, NEW s \in DOMAIN content',
             s \notin DOMAIN content \/ content'[s] # content[s], Roomy(geo)
      PROVE  s \in geo.base .. geo.base + geo.size - 1
  <2>1. mkfs /\ ~GetGeo
    BY <1>1, MkfsStep, InitFsStep, RestartStep, NoStep DEF Next, GetGeo
  <2>2. PICK sect \in Layout(geo.size) : Only(sect)
    BY <1>1, <2>1, MkfsStep
  <2>3. geo = InfoOf(dev) /\ geo.base \in Nat /\ geo.size \in Nat
    BY <1>1, <2>1, MkfsWrites, InfoFacts DEF IInv, MkfsInv, AnyPart, Short
  <2>4. sect \in Nat /\ sect + 1 <= geo.size /\ geo.base + geo.size <= LBA /\ LBA \in Nat
    BY <1>1, <2>2, <2>3, LayoutFacts, BitFacts DEF Layout, Roomy
  <2>5. s = geo.base + sect
    <3>1. s = Sector(geo.base + sect)
      BY <1>1, <2>2, <2>3 DEF Only
    <3>2. geo.base + sect \in Nat /\ geo.base + sect < LBA
      BY <2>3, <2>4
    <3> QED
      BY <3>1, <3>2, BitFacts
  <2> QED
    BY <2>3, <2>4, <2>5
<1>2. IInv /\ [Next]_vars =>
        [\A s \in DOMAIN content' :
           Roomy(geo) /\ (s \notin DOMAIN content \/ content'[s] # content[s])
           => s \in geo.base .. geo.base + geo.size - 1]_vars
  BY <1>1, Zenon
<1> QED
  BY <1>2, Invariance, PTL DEF Spec, StaysInPartition

\* When mkfs is done the partition holds a consistent file system, whatever an earlier
\* attempt has left there (fs/main.c:108-255).  Three terminals are what the code
\* asserts (line 169) and what the size of its root directory is written for (line 209).  The
\* partition may lie anywhere: the layout is shorter than what 28 bits count, so that
\* the sectors it is written to are different ones also where it goes round.
THEOREM FormatCorrect == NR_CONSOLES = 3 => (Spec => []Formatted)
<1> SUFFICES ASSUME NR_CONSOLES = 3 PROVE Spec => []Formatted
  OBVIOUS
<1>1. Init => FormatInv
  BY DEF Init, FormatInv
<1>2. IInv /\ FormatInv /\ [Next]_vars => FormatInv'
  BY FormatStep
<1>3. IInv /\ FormatInv => Formatted
  BY DoneConsistent DEF Formatted
<1> QED
  BY <1>1, <1>2, <1>3, Invariance, PTL DEF Spec

\* When the drive is open every device number of it leads to the partition the tables
\* give that name (hd.c:333-481), if the numbers that lead there fit the 28 bits of a
\* sector number and the 32 of hd_info, whatever the other entries of the tables say and
\* however often the machine stops.
THEOREM OpenCorrect == Spec => OpenFinds
<1>1. Init => WalkInv
  BY DEF Init, OpenInit, WalkInv, Closed
<1>2. IInv /\ WalkInv /\ [Next]_vars => WalkInv'
  BY WalkStep
<1>3. IInv /\ WalkInv => Finds
  BY WalkFinds DEF IInv, Finds
<1> QED
  BY <1>1, <1>2, <1>3, Invariance, PTL DEF Spec, OpenFinds
=============================================================================
