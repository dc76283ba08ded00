-------------------------------- MODULE Mkfs --------------------------------
(***************************************************************************)
(* The file system task (fs/main.c): it opens the disk, asks for the place  *)
(* and the size of its partition and writes an empty file system to it, one *)
(* sector per request.  Between two requests the machine may stop (power,   *)
(* or a driver that no longer answers, see HdDriver): what has been written *)
(* stays, hd_info is lost, and the next boot begins again.                  *)
(*                                                                          *)
(* A sector holds what is written to it: the super block, the set of bits   *)
(* of a map, the inodes by their number, the entries of a directory.        *)
(***************************************************************************)
EXTENDS Partition, FiniteSets

CONSTANTS ROOT_DEV,     \* the minor number of the partition, here one of several
          BITS,         \* bits of a sector
          INODE_SECTS,  \* nr_inode_sects
          FILE,         \* NR_DEFAULT_FILE_SECTS
          NR_CONSOLES,
          MaxStops      \* bound: how often the machine stops

ASSUME MkfsAssumption ==
  /\ ROOT_DEV \subseteq Primaries \cup Logicals
  /\ {BITS, INODE_SECTS, FILE, NR_CONSOLES} \subseteq Nat \ {0}
  /\ FILE < BITS /\ NR_CONSOLES + 1 < BITS
  /\ WORD \div BITS + 4 + INODE_SECTS < LBA
  /\ MaxStops \in Nat

VARIABLES
  dev,      \* the device
  fs,       \* the next request: "open", "ioctl", "super", "imap", "smap", "rest",
            \* "inodes", "root"; then "spin"
  geo,      \* the partition, as DIOCTL_GET_GEO gives it
  i,        \* the next sector of the sector map to be cleared
  content,  \* the sectors written, by their number on the disk
  stops

vars == <<disk, dev, fs, geo, i, content, stops>>

Init ==
  /\ OpenInit /\ dev \in ROOT_DEV
  /\ fs = "open" /\ geo = Unknown /\ i = 1
  /\ content = <<>> /\ stops = 0

----------------------------------------------------------------------------
(* The layout *)

ROOT_INODE    == 1
nr_imap_sects == 1
nr_smap_sects(size) == size \div BITS + 1

n_1st_sect(size) == 1 + 1 + nr_imap_sects + nr_smap_sects(size) + INODE_SECTS

SuperBlock(size) ==
  [nr_sects |-> size, nr_imap_sects |-> nr_imap_sects,
   nr_smap_sects |-> nr_smap_sects(size), n_1st_sect |-> n_1st_sect(size),
   nr_inode_sects |-> INODE_SECTS, root_inode |-> ROOT_INODE]

\* The bits of the inode map: the reserved one, the root's, the terminals'.
InodeMap == [bits |-> 0 .. NR_CONSOLES + 1]
NoBits   == [bits |-> {}]

\* The bits of the first sector of the sector map: whole bytes, then the rest.
SectorMap ==
  LET nr_sects == FILE + 1
  IN  [bits |-> 0 .. 8 * (nr_sects \div 8) - 1
                \cup {8 * (nr_sects \div 8) + j : j \in 0 .. (nr_sects % 8) - 1}]

Inodes(size) ==
  [inodes |->
     [n \in 1 .. NR_CONSOLES + 1 |->
        IF n = ROOT_INODE
        THEN [mode |-> "directory", entries |-> 4, start |-> n_1st_sect(size), sects |-> FILE]
        ELSE [mode |-> "char", tty |-> n - 2, sects |-> 0]]]

\* The inode numbers of `.', dev_tty0, dev_tty1, ...
RootDir == [names |-> [e \in 0 .. NR_CONSOLES |-> IF e = 0 THEN 1 ELSE e + 1]]

----------------------------------------------------------------------------
(* The requests *)

Goto(from, to) == fs = from /\ fs' = to

\* Mutant of WrSect: the sector counts from the beginning of the disk.
WrSectOfDisk(sect, what) ==
  /\ content' = [x \in DOMAIN content \cup {sect} |-> IF x = sect THEN what ELSE content[x]]
  /\ tables' = [x \in DOMAIN tables \ {sect} |-> tables[x]]
  /\ UNCHANGED <<primary, logical, walk, dev, geo, stops>>

\* rw_sector and hd_rdwt: a sector relative to the partition, of which a command
\* names 28 bits.  If it held a table, what is read as a table there from now on is
\* left open.
WrSect(sect, what) ==
  LET s == Sector(InfoOf(dev).base + sect)
  IN  /\ content' = [x \in DOMAIN content \cup {s} |-> IF x = s THEN what ELSE content[x]]
      /\ tables' = [x \in DOMAIN tables \ {s} |-> tables[x]]
      /\ UNCHANGED <<primary, logical, walk, dev, geo, stops>>

\* DEV_OPEN is answered when the tables have been read.
InitFs ==
  /\ fs = "open"
  /\ OpenStep
  /\ fs' = IF walk'.at = "open" THEN "ioctl" ELSE fs
  /\ UNCHANGED <<dev, geo, i, content, stops>>

\* hd_ioctl
GetGeo ==
  /\ Goto("ioctl", "super") /\ geo' = InfoOf(dev)
  /\ UNCHANGED <<disk, dev, i, content, stops>>

WriteSuper == Goto("super", "imap") /\ WrSect(1, SuperBlock(geo.size)) /\ UNCHANGED i
WriteImap  == Goto("imap", "smap") /\ WrSect(2, InodeMap) /\ UNCHANGED i
WriteSmap  == Goto("smap", "rest") /\ WrSect(2 + nr_imap_sects, SectorMap) /\ i' = 1

\* Mutant of RestCleared: one sector too few.
RestClearedEarly == i >= nr_smap_sects(geo.size) - 1

\* Where the loop over the rest of the sector map ends.
RestCleared == i >= nr_smap_sects(geo.size)

ClearSmap ==
  /\ fs = "rest" /\ ~RestCleared
  /\ WrSect(2 + nr_imap_sects + i, NoBits) /\ i' = i + 1 /\ UNCHANGED fs

WriteInodes ==
  /\ RestCleared /\ Goto("rest", "inodes")
  /\ WrSect(2 + nr_imap_sects + nr_smap_sects(geo.size), Inodes(geo.size)) /\ UNCHANGED i

WriteRoot == Goto("inodes", "spin") /\ WrSect(n_1st_sect(geo.size), RootDir) /\ UNCHANGED i

\* The machine stops and is started again.
Restart ==
  /\ stops < MaxStops /\ stops' = stops + 1
  /\ fs' = "open" /\ geo' = Unknown /\ i' = 1
  /\ primary' = NoPrimary /\ logical' = NoLogical /\ walk' = Closed
  /\ UNCHANGED <<tables, dev, content>>

mkfs == \/ GetGeo \/ WriteSuper \/ WriteImap \/ WriteSmap \/ ClearSmap \/ WriteInodes \/ WriteRoot

Next == InitFs \/ mkfs \/ Restart

\* A driver that has not written yet answers, if the machine does not stop (HdDriver,
\* AnsweredOrStopped).
Spec == Init /\ [][Next]_vars /\ WF_vars(InitFs)

----------------------------------------------------------------------------
(* Properties *)

\* A partition that has room for the layout and the root directory, all of it where
\* a command can reach.
Roomy(part) == n_1st_sect(part.size) + FILE <= part.size /\ part.base + part.size <= LBA

\* mkfs writes to its own partition only, if that is such a one.  (In a smaller one
\* it goes on behind the end, fs/main.c:135; behind the sectors a command can name it
\* goes on at the beginning of the disk, and so it does where there is no partition.)
StaysInPartition ==
  [][\A s \in DOMAIN content' :
       Roomy(geo) /\ (s \notin DOMAIN content \/ content'[s] # content[s])
       => s \in geo.base .. geo.base + geo.size - 1]_vars

\* What a reader of the disk finds in sector s of the partition.
At(s)        == Sector(geo.base + s)
Has(s, what) == At(s) \in DOMAIN content /\ content[At(s)] = what

\* The file system on the disk, read from its super block on, is consistent: the
\* maps are complete, the inodes marked are there, the sectors marked are the
\* root's, the root's entries lead to marked inodes, nothing overlaps.
Consistent(sb) ==
  LET first  == 2 + sb.nr_imap_sects
      inodes == first + sb.nr_smap_sects
      imap == content[At(2)].bits
      smap == {m \in 0 .. sb.nr_smap_sects - 1 : At(first + m) \in DOMAIN content}
      marked == {bit \in 1 .. sb.nr_smap_sects * BITS - 1 :
                   bit % BITS \in content[At(first + bit \div BITS)].bits}
      table == content[At(inodes)].inodes
      root == table[sb.root_inode]
      names == content[At(root.start)].names
  IN  /\ smap = 0 .. sb.nr_smap_sects - 1 /\ sb.nr_smap_sects * BITS > sb.nr_sects
      /\ imap \ {0} = DOMAIN table
      /\ root.mode = "directory" /\ root.entries = Cardinality(DOMAIN names)
      /\ {sb.n_1st_sect + bit - 1 : bit \in marked} = root.start .. root.start + root.sects - 1
      /\ \A e \in DOMAIN names : names[e] \in imap
      /\ root.start >= inodes + sb.nr_inode_sects

\* When mkfs is done the partition holds a consistent file system, whatever an
\* earlier attempt has left, also one that the 28 bits lead round to the beginning of
\* the disk.
Formatted ==
  fs = "spin" => \E sb \in {SuperBlock(geo.size)} : Has(1, sb) /\ Consistent(sb)
=============================================================================
