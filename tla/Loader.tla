------------------------------- MODULE Loader -------------------------------
(***************************************************************************)
(* Loading from the floppy: the boot sector (boot/boot.asm) looks for        *)
(* LOADER.BIN in the root directory and loads it, the loader                 *)
(* (boot/loader.asm) does the same for KERNEL.BIN, both with the routines of *)
(* load_util.inc.  The BIOS reads; a sector it cannot read is tried again    *)
(* for ever, so reading such a sector is no step at all; nor does the BIOS   *)
(* read across the end of 64 KB of memory.                                   *)
(*                                                                           *)
(* Memory is counted in sectors from the kernel's place.  Its places hold    *)
(* the number of the sector read there last.                                 *)
(***************************************************************************)
EXTENDS Integers, Sequences

CONSTANTS BPS,     \* BPB_BytsPerSec, as far as the FAT is concerned
          FATSZ,   \* BPB_FATSz16
          ROOT,    \* RootDirSectors
          EPS,     \* directory entries of a sector
          SPT,     \* BPB_SecPerTrk
          CYLS,    \* cylinders of the floppy
          FATBUF,  \* BaseOfLoader - 0100h
          SEG,     \* 64 KB
          Disks    \* the floppies

SectorNoOfFAT1 == 1
SectorNoOfRootDirectory == SectorNoOfFAT1 + 2 * FATSZ
DeltaSectorNo == SectorNoOfFAT1 + 2 * FATSZ - 2

\* BaseOfLoader is 64 KB behind BaseOfKernelFile.
KERNEL == 0
LOADER == SEG

\* The numbers of the entries of the FAT, what an entry may be, the places of memory.
Clusters == 0 .. 2 * ((FATSZ * BPS) \div 3) - 1
Values   == 0 .. 4095
Places   == 0 .. 2 * SEG - 1

\* files: what each file consists of, its clusters in their order; dir: the names in
\* the root directory; fat: the entries of the FAT, which should say the same.
ASSUME LoaderAssumption ==
  /\ {BPS, FATSZ, ROOT, EPS, SPT, CYLS, SEG} \subseteq Nat \ {0}
  /\ FATBUF \in 0 .. SEG - 2
  /\ \A d \in Disks :
       /\ DOMAIN d.dir = 0 .. ROOT * EPS - 1
       /\ d.fat \in [Clusters -> Values]
       /\ d.files \in [{"LOADER.BIN", "KERNEL.BIN"} -> Seq(Nat)]

VARIABLES
  floppy,  \* the disk in the drive
  stage,   \* "boot" or "loader": who runs
  at,      \* "search", "load", "fat"; "none": no such file; "lost": the loader has
           \* overwritten itself; "kernel": the kernel is there
  left,    \* wRootDirSizeForLoop
  n,       \* the entry of the FAT, on the stack
  place,   \* es:bx
  mem

vars == <<floppy, stage, at, left, n, place, mem>>

File  == IF stage = "boot" THEN "LOADER.BIN" ELSE "KERNEL.BIN"
Start == IF stage = "boot" THEN LOADER ELSE KERNEL

Init ==
  /\ floppy \in Disks
  /\ stage = "boot" /\ at = "search" /\ left = ROOT
  /\ n = 0 /\ place = LOADER
  /\ mem = [p \in Places |-> -1]

----------------------------------------------------------------------------
(* Sectors *)

\* The cylinder, head and sector ReadSector passes to the BIOS.
Chs(x) ==
  LET y == x \div SPT  z == x % SPT
  IN  [cyl |-> y \div 2, head |-> y % 2, sec |-> z + 1]

\* The sector the BIOS then reads, if the floppy has it.
Readable(chs) == chs.cyl < CYLS /\ chs.sec \in 1 .. SPT
At(chs) == (2 * chs.cyl + chs.head) * SPT + chs.sec - 1

\* ReadSector: cl sectors from x to place p.  The loader's places begin 100h behind
\* those of its segment, the last of them reaches into the next one.
ReadSector(x, cl, p) ==
  /\ Readable(Chs(x)) /\ p # LOADER + SEG - 1
  /\ mem' = [q \in Places |->
               IF q \in p .. p + cl - 1 THEN At(Chs(x)) + q - p ELSE mem[q]]

DataSector(c) == c + ROOT + DeltaSectorNo

----------------------------------------------------------------------------
(* The FAT: two entries of twelve bits in three bytes *)

FatByte(fat, k) ==
  LET c == 2 * (k \div 3)
  IN  IF k % 3 = 0 THEN fat[c] % 256
      ELSE IF k % 3 = 1 THEN fat[c] \div 256 + 16 * (fat[c + 1] % 16)
      ELSE fat[c + 1] \div 16

\* Where entry c begins.
Offset(c) == (3 * c) \div 2

\* Entry c, as GetFATEntry extracts it from the two bytes from Offset(c).
Entry(lo, hi, c) ==
  LET ax == lo + 256 * hi
  IN  (IF (3 * c) % 2 = 0 THEN ax ELSE ax \div 16) % 4096

\* Byte k of sector s, of which only the FAT matters.
ByteOf(s, k) ==
  IF s \in SectorNoOfFAT1 .. SectorNoOfFAT1 + FATSZ
  THEN FatByte(floppy.fat, (s - SectorNoOfFAT1) * BPS + k) ELSE 0

\* The byte at off of the FAT, in the buffer that starts with the sector of entry c.
Buffered(buf, c, off) ==
  ByteOf(buf[FATBUF + off \div BPS - Offset(c) \div BPS], off % BPS)

----------------------------------------------------------------------------
(* Steps *)

\* Mutant of Entries: the last entry of a sector is not looked at.
EntriesShort(k) == k * EPS .. (k + 1) * EPS - 2

\* The entries in sector k of the root directory.
Entries(k) == k * EPS .. (k + 1) * EPS - 1

\* The next sector of the root directory, read to the place of the file, and its
\* entries; LABEL_FILENAME_FOUND takes the first cluster from the entry.
Search ==
  /\ at = "search"
  /\ IF left = 0
     THEN at' = "none" /\ UNCHANGED <<left, n, place, mem>>
     ELSE LET k     == ROOT - left
              found == {e \in Entries(k) : floppy.dir[e].name = File}
          IN  /\ ReadSector(SectorNoOfRootDirectory + k, 1, Start)
              /\ left' = left - 1 /\ place' = Start
              /\ IF found = {} THEN UNCHANGED <<at, n>>
                 ELSE /\ n' = floppy.dir[CHOOSE e \in found : \A f \in found : e <= f].first
                      /\ at' = "load"
  /\ UNCHANGED <<floppy, stage>>

\* LABEL_GOON_LOADING_FILE.  The loader's stack and code are at its place.
LoadSector ==
  /\ at = "load"
  /\ ReadSector(DataSector(n), 1, place)
  /\ at' = IF stage = "loader" /\ place = LOADER THEN "lost" ELSE "fat"
  /\ UNCHANGED <<floppy, stage, left, n, place>>

\* bx past the end of its segment: the boot sector begins the segment again, the
\* loader goes on to the next one.
Following(p) == IF stage = "boot" THEN LOADER + ((p + 1 - LOADER) % SEG) ELSE p + 1

\* Mutant of FatSects: only the sector in which the entry begins.
FatSectsOne == 1

\* How much of the FAT is read to look at an entry, which may lie across two sectors.
FatSects == 2

\* The next cluster: the file ends with 0FFFh, the boot sector jumps to the loader.
GetFATEntry ==
  /\ at = "fat"
  /\ ReadSector(SectorNoOfFAT1 + Offset(n) \div BPS, FatSects, FATBUF)
  /\ LET byte(off) == Buffered(mem', n, off)
         ax == Entry(byte(Offset(n)), byte(Offset(n) + 1), n)
     IN  IF ax = 4095
         THEN /\ IF stage = "boot"
                 THEN stage' = "loader" /\ at' = "search" /\ left' = ROOT
                 ELSE at' = "kernel" /\ UNCHANGED <<stage, left>>
              /\ UNCHANGED <<n, place>>
         ELSE n' = ax /\ place' = Following(place) /\ at' = "load" /\ UNCHANGED <<stage, left>>
  /\ UNCHANGED floppy

Next == Search \/ LoadSector \/ GetFATEntry

\* A sector that can be read is read in the end: nothing else runs.
Spec == Init /\ [][Next]_vars /\ WF_vars(Next)

----------------------------------------------------------------------------

\* The file's directory entry and its chain in the FAT say what the file is.
Proper(d, f) ==
  LET s == d.files[f]
  IN  /\ s # <<>>
      /\ \E e \in DOMAIN d.dir :
           /\ d.dir[e] = [name |-> f, first |-> s[1]]
           /\ \A g \in DOMAIN d.dir : d.dir[g].name = f => g = e
      /\ \A j \in 1 .. Len(s) :
           s[j] \in Clusters /\ d.fat[s[j]] = IF j = Len(s) THEN 4095 ELSE s[j + 1]

Size(f) == Len(floppy.files[f])

\* The sectors of f are in memory from place p, in their order.
Loaded(f, p) == \A j \in 1 .. Size(f) : mem[p + j - 1] = DataSector(floppy.files[f][j])

\* What is run has been loaded in one piece: the loader as long as it runs, the
\* kernel when the loader has found its end, although every look into the FAT
\* overwrites two sectors of memory.  A kernel that reaches the FAT's buffer (60 KB)
\* does not stay in one piece.
RunsWhatWasLoaded ==
  /\ stage = "loader" /\ at # "lost" /\ Proper(floppy, "LOADER.BIN") /\ Size("LOADER.BIN") <= SEG
       => Loaded("LOADER.BIN", LOADER)
  /\ at = "kernel" /\ Proper(floppy, "KERNEL.BIN") /\ Size("KERNEL.BIN") <= FATBUF
       => Loaded("KERNEL.BIN", KERNEL)

\* A floppy with both files, wherever in the root directory and on the disk they are,
\* starts the kernel (in one piece or not, see above).
Boots ==
  /\ Proper(floppy, "LOADER.BIN") /\ Size("LOADER.BIN") < SEG
  /\ Proper(floppy, "KERNEL.BIN") /\ Size("KERNEL.BIN") <= SEG
  ~> at = "kernel"
=============================================================================
