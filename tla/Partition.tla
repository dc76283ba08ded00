----------------------------- MODULE Partition -----------------------------
(***************************************************************************)
(* The partitions of the disk as the driver learns them (kernel/hd.c): the  *)
(* first open of the drive walks the partition tables and fills hd_info,    *)
(* and reads, writes and ioctls look up a device number there.              *)
(*                                                                          *)
(* A table is read by a command to the drive of its own (module HdDriver),  *)
(* so it is a step.  What the tables say is external: a table is chosen     *)
(* when its sector is first read, so the links of an extended partition may *)
(* lead anywhere, also in a circle.  A sum of sector numbers is kept in 32  *)
(* bits (u32 or int, which agree on them), and 28 of them reach the drive.  *)
(***************************************************************************)
EXTENDS IntC

CONSTANTS NR_PART,    \* NR_PART_PER_DRIVE, the entries of a table
          NR_SUB,     \* NR_SUB_PER_PART, the logical partitions of an extended one
          MINOR_hd1a, \* the device number of the first logical partition
          LBA,        \* 2^28, the sectors a command can name
          WORD,       \* 2^32
          Table       \* what a sector with a partition table may say

NO_PART  == "unused"
EXT_PART == "extended"

NR_PRIM  == NR_PART + 1        \* NR_PRIM_PER_DRIVE
SUBS     == NR_SUB * NR_PART   \* NR_SUB_PER_DRIVE
MAX_PRIM == 2 * NR_PRIM - 1    \* MAX_DRIVES is 2

ASSUME PartitionAssumption ==
  /\ {NR_PART, NR_SUB} \subseteq Nat \ {0}
  /\ MINOR_hd1a \in Nat /\ MINOR_hd1a > MAX_PRIM
  /\ NR_PART >= 2
  /\ {LBA, WORD} \subseteq Nat \ {0} /\ LBA <= WORD /\ WORD % LBA = 0
  /\ \A tbl \in Table, i \in 0 .. NR_PART - 1 :
       /\ tbl[i].sys_id \in {NO_PART, EXT_PART, "data"}
       /\ tbl[i].start_sect \in Nat /\ tbl[i].start_sect < WORD
       /\ tbl[i].nr_sects \in Nat /\ tbl[i].nr_sects < WORD

VARIABLES
  tables,            \* the tables on the disk that have been read, by their sector
  primary, logical,  \* hd_info
  walk               \* partition(): at "closed", "primary", "extended" or "open";
                     \* the loop counters i and k, the sector s of the next table

disk == <<tables, primary, logical, walk>>

\* A sum in 32 bits, and the sector that the four registers name then: the division
\* of the number over lba_low, lba_mid, lba_high and device.
U32(n)    == n % WORD
Sector(n) == U32(n) % LBA

Part(base, size) == [base |-> base, size |-> size]
Unknown == Part(0, 0)

\* init_hd clears hd_info, and the drive has not been opened.
NoPrimary == [i \in 0 .. NR_PART |-> Unknown]
NoLogical == [l \in 0 .. SUBS - 1 |-> Unknown]
Closed    == [at |-> "closed", i |-> 0, k |-> 0, s |-> 0]

OpenInit == tables = <<>> /\ primary = NoPrimary /\ logical = NoLogical /\ walk = Closed

----------------------------------------------------------------------------
(* Opening the drive *)

\* get_part_table
GetPartTable(s, tbl) ==
  LET n == Sector(s)
  IN  IF n \in DOMAIN tables
      THEN tbl = tables[n] /\ UNCHANGED tables
      ELSE tables' = [x \in DOMAIN tables \cup {n} |-> IF x = n THEN tbl ELSE tables[x]]

\* hd_open finds the drive closed, and partition() reads the table of the drive.
OpenDrive ==
  /\ walk.at = "closed"
  /\ \E tbl \in Table : GetPartTable(0, tbl)
  /\ walk' = [walk EXCEPT !.at = "primary"]
  /\ UNCHANGED <<primary, logical>>

\* The next entry of the table of the drive, which partition() keeps on its stack.
PrimaryEntry ==
  /\ walk.at = "primary" /\ walk.i < NR_PART
  /\ LET e == tables[0][walk.i]  dev_nr == walk.i + 1
     IN  /\ IF e.sys_id = NO_PART THEN UNCHANGED primary
            ELSE primary' = [primary EXCEPT ![dev_nr] = Part(e.start_sect, e.nr_sects)]
         /\ walk' = IF e.sys_id = EXT_PART
                    THEN [walk EXCEPT !.at = "extended", !.k = 0, !.s = e.start_sect]
                    ELSE [walk EXCEPT !.i = @ + 1]
  /\ UNCHANGED <<tables, logical>>

\* Mutant of SubEntry: only an entry without a link ends the loop.
SubEntryUnbounded ==
  /\ walk.at = "extended"
  /\ \E tbl \in Table :
       LET j == walk.i + 1
       IN  /\ GetPartTable(walk.s, tbl)
           /\ logical' = [logical EXCEPT ![(j - 1) * NR_SUB + walk.k] =
                            Part(U32(walk.s + tbl[0].start_sect), tbl[0].nr_sects)]
           /\ walk' = IF tbl[1].sys_id = NO_PART
                      THEN [walk EXCEPT !.at = "primary", !.i = @ + 1]
                      ELSE [walk EXCEPT !.k = (@ + 1) % NR_SUB,
                                        !.s = U32(primary[j].base + tbl[1].start_sect)]
  /\ UNCHANGED primary

\* Mutant of SubEntry: the links are relative to the table they stand in.
SubEntryRelative ==
  /\ walk.at = "extended"
  /\ \E tbl \in Table :
       LET j == walk.i + 1
       IN  /\ GetPartTable(walk.s, tbl)
           /\ logical' = [logical EXCEPT ![(j - 1) * NR_SUB + walk.k] =
                            Part(U32(walk.s + tbl[0].start_sect), tbl[0].nr_sects)]
           /\ walk' = IF tbl[1].sys_id = NO_PART \/ walk.k = NR_SUB - 1
                      THEN [walk EXCEPT !.at = "primary", !.i = @ + 1]
                      ELSE [walk EXCEPT !.k = @ + 1, !.s = U32(walk.s + tbl[1].start_sect)]
  /\ UNCHANGED primary

\* A table of an extended partition: its first entry is a logical partition, its
\* second one leads to the next table, relative to the extended partition.
SubEntry ==
  /\ walk.at = "extended"
  /\ \E tbl \in Table :
       LET j == walk.i + 1
       IN  /\ GetPartTable(walk.s, tbl)
           /\ logical' = [logical EXCEPT ![(j - 1) * NR_SUB + walk.k] =
                            Part(U32(walk.s + tbl[0].start_sect), tbl[0].nr_sects)]
           /\ walk' = IF tbl[1].sys_id = NO_PART \/ walk.k = NR_SUB - 1
                      THEN [walk EXCEPT !.at = "primary", !.i = @ + 1]
                      ELSE [walk EXCEPT !.k = @ + 1, !.s = U32(primary[j].base + tbl[1].start_sect)]
  /\ UNCHANGED primary

\* All entries seen: the drive is open.
OpenDone ==
  /\ walk.at = "primary" /\ walk.i = NR_PART
  /\ walk' = [walk EXCEPT !.at = "open"]
  /\ UNCHANGED <<tables, primary, logical>>

OpenStep == OpenDrive \/ PrimaryEntry \/ SubEntry \/ OpenDone

----------------------------------------------------------------------------
(* Device numbers *)

DrvOfDev(dev) == IF dev <= MAX_PRIM THEN Quot(dev, NR_PRIM)
                                    ELSE Quot(dev - MINOR_hd1a, SUBS)

\* The index into logical, which hd_rdwt computes for every device.
LogIdx(dev) == Rem(dev - MINOR_hd1a, SUBS)

\* The entry hd_rdwt and hd_ioctl use, with one drive in hd_info.
InfoOf(dev) == IF dev < MAX_PRIM THEN primary[dev] ELSE logical[LogIdx(dev)]

\* The devices of the first drive: hd1 .. and hd1a ..
Primaries == 1 .. NR_PART
Logicals  == MINOR_hd1a .. MINOR_hd1a + SUBS - 1

----------------------------------------------------------------------------
(* What the tables say *)

\* The sectors of the tables of the extended partition at base, -1 after the last
\* and after one that no command can name.
Chain(base) ==
  LET link[k \in 0 .. NR_SUB - 1] ==
        IF k = 0 THEN base
        ELSE IF link[k - 1] \notin DOMAIN tables \/ tables[link[k - 1]][1].sys_id = NO_PART THEN -1
        ELSE base + tables[link[k - 1]][1].start_sect
  IN  link

\* The extended partition and the place in its chain that a logical one belongs to.
EntryOf(dev) == tables[0][(dev - MINOR_hd1a) \div NR_SUB]
PlaceOf(dev) == (dev - MINOR_hd1a) % NR_SUB

\* Device number dev names this partition, if there is one.
Named(dev) ==
  IF dev \in Primaries
  THEN LET e == tables[0][dev - 1]
       IN  IF e.sys_id = NO_PART THEN Unknown ELSE Part(e.start_sect, e.nr_sects)
  ELSE LET s == IF EntryOf(dev).sys_id # EXT_PART THEN -1
                ELSE Chain(EntryOf(dev).start_sect)[PlaceOf(dev)]
       IN  IF s = -1 THEN Unknown
           ELSE Part(s + tables[s][0].start_sect, tables[s][0].nr_sects)

\* A command can name all the tables that lead to the partition, and hd_info can
\* hold where it begins.
Reached(dev) ==
  \/ dev \in Primaries \/ EntryOf(dev).sys_id # EXT_PART
  \/ /\ \A k \in 0 .. PlaceOf(dev) : Chain(EntryOf(dev).start_sect)[k] < LBA
     /\ Named(dev).base < WORD

\* When the drive is open every device number of it leads to the partition the
\* tables give that name, also when links lead in a circle, and the numbers of
\* partitions that do not exist lead to none.  Numbers too large for a command or
\* for hd_info spoil only the partitions they are needed for.
Finds ==
  OpenDone => \A dev \in Primaries \cup Logicals :
                /\ DrvOfDev(dev) = 0
                /\ Reached(dev) => InfoOf(dev) = Named(dev)
OpenFinds == [][Finds]_disk

\* The walk ends, also when links lead in a circle (or the machine stops).
WalkDone == walk.at = "primary" ~> walk.at \in {"open", "closed"}
=============================================================================
