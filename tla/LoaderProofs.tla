---------------------------- MODULE LoaderProofs ----------------------------
(***************************************************************************)
(* Proofs about module Loader, for the sizes fat12hdr.inc and load.inc give *)
(* and every floppy.                                                         *)
(***************************************************************************)
EXTENDS Loader, TLAPS

\* fat12hdr.inc, load.inc.
RealSizes ==
  /\ BPS = 512 /\ FATSZ = 9 /\ ROOT = 14 /\ EPS = 16 /\ SPT = 18 /\ CYLS = 80
  /\ FATBUF = 120 /\ SEG = 128

\* The file f can be loaded: whole, and not into the FAT's buffer.
Fits(f) == Proper(floppy, f) /\ Size(f) <= (IF f = "LOADER.BIN" THEN SEG ELSE FATBUF)

\* The first j sectors of f are in memory.
LoadedTo(f, p, j) == \A i \in 1 .. j : mem[p + i - 1] = DataSector(floppy.files[f][i])

TypeInv ==
  /\ floppy \in Disks
  /\ stage \in {"boot", "loader"}
  /\ place \in Nat /\ left \in 0 .. ROOT
  /\ at \in {"search", "load", "fat", "none", "lost", "kernel"}
  /\ at = "kernel" => stage = "loader"
  /\ stage = "boot" => place \in LOADER .. LOADER + SEG - 1
  /\ stage = "loader" /\ at = "load" => place <= LOADER
  /\ stage = "loader" /\ at = "fat" => place < LOADER

\* How far the file that is being loaded is in memory: up to cluster j, whose entry of
\* the FAT is the next one to be looked at.
Progress ==
  at \in {"load", "fat"} /\ Fits(File) =>
    \E j \in 1 .. Size(File) :
      /\ n = floppy.files[File][j] /\ place = Start + j - 1
      /\ at = "load" => LoadedTo(File, Start, j - 1)
      /\ at = "fat" => LoadedTo(File, Start, j) /\ Readable(Chs(DataSector(n)))

IInv == TypeInv /\ Progress /\ RunsWhatWasLoaded

----------------------------------------------------------------------------

\* The three bytes of an even entry a and the odd entry b after it.
Lo(a)      == a % 256
Mid(a, b)  == a \div 256 + 16 * (b % 16)
Hi(b)      == b \div 16

LEMMA Bytes ==
  ASSUME NEW fat, NEW h \in Nat
  PROVE  /\ FatByte(fat, 3 * h) = Lo(fat[2 * h])
         /\ FatByte(fat, 3 * h + 1) = Mid(fat[2 * h], fat[2 * h + 1])
         /\ FatByte(fat, 3 * h + 2) = Hi(fat[2 * h + 1])
<1>1. /\ (3 * h) \div 3 = h /\ (3 * h) % 3 = 0
      /\ (3 * h + 1) \div 3 = h /\ (3 * h + 1) % 3 = 1
      /\ (3 * h + 2) \div 3 = h /\ (3 * h + 2) % 3 = 2
  OBVIOUS
<1> QED
  BY <1>1 DEF FatByte, Lo, Mid, Hi

LEMMA EntryOfBytes ==
  ASSUME NEW h \in Nat, NEW a \in Values, NEW b \in Values
  PROVE  /\ Entry(Lo(a), Mid(a, b), 2 * h) = a
         /\ Entry(Mid(a, b), Hi(b), 2 * h + 1) = b
<1>1. (3 * (2 * h)) % 2 = 0 /\ (3 * (2 * h + 1)) % 2 = 1
  OBVIOUS
<1>2. ((a % 256) + 256 * (a \div 256 + 16 * (b % 16))) % 4096 = a
  BY DEF Values
<1>3. ((a \div 256 + 16 * (b % 16) + 256 * (b \div 16)) \div 16) % 4096 = b
  BY DEF Values
<1>4. Entry(Lo(a), Mid(a, b), 2 * h) = a
  BY <1>1, <1>2 DEF Entry, Lo, Mid
<1>5. Entry(Mid(a, b), Hi(b), 2 * h + 1) = b
  BY <1>1, <1>3 DEF Entry, Mid, Hi
<1> QED
  BY <1>4, <1>5

\* Two bytes give back the entry they were made from, whether it is even or odd.
LEMMA Unpacked ==
  ASSUME NEW fat, NEW h \in Nat, NEW c \in {2 * h, 2 * h + 1},
         fat[2 * h] \in Values, fat[2 * h + 1] \in Values
  PROVE  Entry(FatByte(fat, Offset(c)), FatByte(fat, Offset(c) + 1), c) = fat[c]
<1>1. /\ Entry(Lo(fat[2 * h]), Mid(fat[2 * h], fat[2 * h + 1]), 2 * h) = fat[2 * h]
      /\ Entry(Mid(fat[2 * h], fat[2 * h + 1]), Hi(fat[2 * h + 1]), 2 * h + 1) = fat[2 * h + 1]
  <2>1. \A a \in Values, b \in Values : /\ Entry(Lo(a), Mid(a, b), 2 * h) = a
                                         /\ Entry(Mid(a, b), Hi(b), 2 * h + 1) = b
    BY EntryOfBytes
  <2> QED
    BY <2>1, Zenon
<1>2. Offset(2 * h) = 3 * h /\ Offset(2 * h + 1) = 3 * h + 1 /\ (3 * h + 1) + 1 = 3 * h + 2
  BY DEF Offset
<1>3. CASE c = 2 * h
  BY <1>1, <1>2, <1>3, Bytes, Zenon
<1>4. CASE c = 2 * h + 1
  BY <1>1, <1>2, <1>4, Bytes, Zenon
<1> QED
  BY <1>3, <1>4

\* The BIOS reads the sector ReadSector was asked for.
LEMMA RoundTrip ==
  ASSUME SPT = 18, NEW x \in Nat
  PROVE  At(Chs(x)) = x
BY DEF At, Chs

\* What ReadSector leaves in memory.
LEMMA Written ==
  ASSUME NEW x, NEW cl \in Nat, NEW p \in Nat, ReadSector(x, cl, p), NEW q \in Places
  PROVE  /\ x \in Nat /\ SPT = 18 /\ q \in p .. p + cl - 1 => mem'[q] = x + q - p
         /\ q \notin p .. p + cl - 1 => mem'[q] = mem[q]
<1>1. x \in Nat /\ SPT = 18 => At(Chs(x)) = x
  BY RoundTrip
<1>2. mem'[q] = IF q \in p .. p + cl - 1 THEN At(Chs(x)) + q - p ELSE mem[q]
  BY DEF ReadSector
<1> QED
  BY <1>1, <1>2

----------------------------------------------------------------------------

\* What the assumptions say of the files and the FAT.
LEMMA Sizes ==
  ASSUME RealSizes
  PROVE  /\ Clusters = 0 .. 3071 /\ Places = 0 .. 255
         /\ KERNEL = 0 /\ LOADER = 128 /\ SEG = 128 /\ FATBUF = 120 /\ ROOT = 14
         /\ SectorNoOfFAT1 = 1 /\ SectorNoOfRootDirectory = 19
         /\ \A c \in Nat : DataSector(c) = c + 31
BY DEF RealSizes, Clusters, Places, KERNEL, LOADER, SectorNoOfFAT1, SectorNoOfRootDirectory,
       DataSector, DeltaSectorNo

LEMMA FatValues ==
  ASSUME floppy \in Disks, NEW c \in Clusters
  PROVE  floppy.fat[c] \in Values
<1>1. floppy.fat \in [Clusters -> Values]
  BY LoaderAssumption
<1> QED
  BY <1>1

LEMMA FileSize ==
  ASSUME floppy \in Disks, NEW f \in {"LOADER.BIN", "KERNEL.BIN"}
  PROVE  Size(f) \in Nat
<1>1. floppy.files[f] \in Seq(Nat)
  BY LoaderAssumption DEF LoaderAssumption
<1> QED
  BY <1>1 DEF Size

\* A sector that can be read is one of the 2880.
LEMMA Reach ==
  ASSUME RealSizes, NEW c \in Nat, Readable(Chs(DataSector(c)))
  PROVE  c <= 2848
<1>1. DataSector(c) = c + 31
  BY Sizes
<1>2. ((c + 31) \div 18) \div 2 < 80
  BY <1>1 DEF Readable, Chs, RealSizes
<1> QED
  BY <1>2

\* The next entry, as GetFATEntry computes it after its read.
LEMMA NextEntry ==
  ASSUME RealSizes, floppy \in Disks, NEW c \in Clusters, Readable(Chs(DataSector(c))),
         ReadSector(SectorNoOfFAT1 + Offset(c) \div BPS, FatSects, FATBUF)
  PROVE  Entry(Buffered(mem', c, Offset(c)), Buffered(mem', c, Offset(c) + 1), c) = floppy.fat[c]
<1>1. c \in 0 .. 2848
  BY Sizes, Reach
<1>2. PICK h \in 0 .. 1424 : c \in {2 * h, 2 * h + 1}
  <2>1. c \div 2 \in 0 .. 1424 /\ c \in {2 * (c \div 2), 2 * (c \div 2) + 1}
    BY <1>1
  <2> QED
    BY <2>1
<1>3. floppy.fat[2 * h] \in Values /\ floppy.fat[2 * h + 1] \in Values
  <2>1. 2 * h \in Clusters /\ 2 * h + 1 \in Clusters
    BY DEF Clusters, RealSizes
  <2> QED
    BY <2>1, FatValues
<1>4. PICK s \in Nat : s = 1 + Offset(c) \div 512
  <2>1. 1 + Offset(c) \div 512 \in Nat
    BY <1>1 DEF Offset
  <2> QED
    BY <2>1
<1>5. ReadSector(s, 2, 120)
  BY <1>4 DEF RealSizes, FatSects, SectorNoOfFAT1
<1>6. mem'[120] = s /\ mem'[121] = s + 1
  <2>1. 120 \in Places /\ 121 \in Places /\ SPT = 18
    BY Sizes DEF RealSizes
  <2>2. 120 \in 120 .. 120 + 2 - 1 /\ 121 \in 120 .. 120 + 2 - 1
    OBVIOUS
  <2>3. \A q \in Places : q \in 120 .. 120 + 2 - 1 => mem'[q] = s + q - 120
    BY <1>5, <2>1, Written
  <2> QED
    BY <2>1, <2>2, <2>3
<1>7. PICK o \in 0 .. 4273 : o = Offset(c)
  <2>1. Offset(c) \in 0 .. 4273
    BY <1>1 DEF Offset
  <2> QED
    BY <2>1
<1>8. o \in 0 .. 4273 /\ s = 1 + o \div 512
  BY <1>4, <1>7
<1>9. \A x \in Nat : x = o \/ x = o + 1 => mem'[120 + x \div 512 - o \div 512] = 1 + x \div 512
  <2> SUFFICES ASSUME NEW x \in Nat, x = o \/ x = o + 1
               PROVE  mem'[120 + x \div 512 - o \div 512] = 1 + x \div 512
    OBVIOUS
  <2>1. CASE x \div 512 = o \div 512
    <3>1. 120 + x \div 512 - o \div 512 = 120 /\ 1 + x \div 512 = s
      BY <2>1, <1>7, <1>8
    <3> QED
      BY <1>6, <3>1
  <2>2. CASE x \div 512 = o \div 512 + 1
    <3>1. 120 + x \div 512 - o \div 512 = 121
      BY <2>2, <1>8
    <3>2. 1 + x \div 512 = s + 1
      BY <2>2, <1>8
    <3>3. mem'[121] = 1 + x \div 512
      BY <1>6, <3>2
    <3>4. PICK y : y = 120 + x \div 512 - o \div 512
      OBVIOUS
    <3>5. y = 121
      BY <3>1, <3>4
    <3>6. mem'[y] = 1 + x \div 512
      BY <3>3, <3>5
    <3> QED
      BY <3>4, <3>6
  <2>3. x \div 512 = o \div 512 \/ x \div 512 = o \div 512 + 1
    BY <1>8
  <2> QED
    BY <2>1, <2>2, <2>3
<1>10. \A x \in Nat : x = o \/ x = o + 1 => Buffered(mem', c, x) = FatByte(floppy.fat, x)
  <2> SUFFICES ASSUME NEW x \in Nat, x = o \/ x = o + 1
               PROVE  Buffered(mem', c, x) = FatByte(floppy.fat, x)
    OBVIOUS
  <2>1. PICK t \in 1 .. 10 : t = 1 + x \div 512
    <3>1. 1 + x \div 512 \in 1 .. 10
      BY <1>8
    <3> QED
      BY <3>1
  <2>2. PICK k \in 0 .. 511 : k = x % 512
    <3>1. x % 512 \in 0 .. 511
      OBVIOUS
    <3> QED
      BY <3>1
  <2>3. (t - 1) * 512 + k = x
    BY <2>1, <2>2
  <2>4. mem'[120 + x \div 512 - o \div 512] = t
    BY <1>9, <2>1
  <2>5. ByteOf(t, k) = FatByte(floppy.fat, x)
    BY <2>3 DEF ByteOf, RealSizes, SectorNoOfFAT1
  <2>6. x % BPS = k /\ mem'[FATBUF + x \div BPS - Offset(c) \div BPS] = t
    BY <1>7, <2>2, <2>4 DEF RealSizes
  <2> QED
    BY <2>5, <2>6 DEF Buffered
<1>11. Entry(FatByte(floppy.fat, o), FatByte(floppy.fat, o + 1), c) = floppy.fat[c]
  <2>1. Entry(FatByte(floppy.fat, Offset(c)), FatByte(floppy.fat, Offset(c) + 1), c) = floppy.fat[c]
    <3>1. PICK fat : fat = floppy.fat
      OBVIOUS
    <3>2. h \in Nat /\ fat[2 * h] \in Values /\ fat[2 * h + 1] \in Values
      BY <1>2, <1>3, <3>1
    <3>3. Entry(FatByte(fat, Offset(c)), FatByte(fat, Offset(c) + 1), c) = fat[c]
      BY <1>2, <3>2, Unpacked
    <3> QED
      BY <3>1, <3>3
  <2> QED
    BY <1>7, <2>1
<1>12. Buffered(mem', c, o) = FatByte(floppy.fat, o)
  <2>1. o \in Nat /\ (o = o \/ o = o + 1)
    BY <1>8
  <2> QED
    BY <2>1, <1>10
<1>13. Buffered(mem', c, o + 1) = FatByte(floppy.fat, o + 1)
  BY <1>8, <1>10
<1> QED
  BY <1>7, <1>11, <1>12, <1>13
----------------------------------------------------------------------------

\* A read beside a file leaves it in memory.
LEMMA Untouched ==
  ASSUME RealSizes, NEW f, NEW p \in Nat, NEW k \in Nat, p + k <= 256,
         NEW x, NEW cl \in Nat, NEW w \in Nat, ReadSector(x, cl, w),
         p + k <= w \/ w + cl <= p, LoadedTo(f, p, k)
  PROVE  \A i \in 1 .. k : mem'[p + i - 1] = DataSector(floppy.files[f][i])
<1> SUFFICES ASSUME NEW i \in 1 .. k
             PROVE  mem'[p + i - 1] = DataSector(floppy.files[f][i])
  OBVIOUS
<1>1. mem[p + i - 1] = DataSector(floppy.files[f][i])
  BY DEF LoadedTo
<1>2. p + i - 1 \in Places /\ p + i - 1 \notin w .. w + cl - 1 /\ SPT = 18
  BY Sizes DEF RealSizes
<1>3. \A q \in Places : q \notin w .. w + cl - 1 => mem'[q] = mem[q]
  BY DEF ReadSector
<1> QED
  BY <1>1, <1>2, <1>3

LEMMA LoadedAll ==
  ASSUME NEW f, NEW p
  PROVE  /\ Loaded(f, p) <=> LoadedTo(f, p, Size(f))
         /\ Loaded(f, p)' <=> LoadedTo(f, p, Size(f))'
BY DEF Loaded, LoadedTo

\* The loader stays whole while it reads below itself.
LEMMA LoaderStays ==
  ASSUME RealSizes, TypeInv, RunsWhatWasLoaded, stage = "loader", at # "lost",
         NEW x, NEW cl \in Nat, NEW w \in Nat, ReadSector(x, cl, w),
         w + cl <= LOADER, floppy' = floppy,
         Proper(floppy, "LOADER.BIN"), Size("LOADER.BIN") <= SEG
  PROVE  Loaded("LOADER.BIN", LOADER)'
<1>1. PICK k \in Nat : k = Size("LOADER.BIN")
  BY FileSize DEF TypeInv
<1>2. LoadedTo("LOADER.BIN", LOADER, k)
  BY <1>1, LoadedAll DEF RunsWhatWasLoaded
<1>3. LOADER \in Nat /\ LOADER + k <= 256
  BY <1>1, Sizes
<1>4. \A i \in 1 .. k : mem'[LOADER + i - 1] = DataSector(floppy.files["LOADER.BIN"][i])
  BY <1>2, <1>3, Untouched
<1>5. Size("LOADER.BIN")' = k
  BY <1>1 DEF Size
<1> QED
  BY <1>4, <1>5 DEF Loaded

LEMMA InitInv ==
  ASSUME RealSizes
  PROVE  Init => IInv
BY Sizes DEF Init, IInv, TypeInv, Progress, RunsWhatWasLoaded

\* Another sector of the root directory.
LEMMA SearchInv ==
  ASSUME RealSizes, IInv, Search
  PROVE  IInv'
<1>1. floppy' = floppy /\ stage' = stage /\ File' = File /\ Start' = Start
  BY DEF Search, File, Start
<1>2. at' \in {"search", "load", "none"} /\ (left = 0 => at' = "none")
  BY DEF Search
<1>3. CASE left = 0
  <2>1. mem' = mem /\ place' = place /\ left' = left /\ at' = "none"
    BY <1>3 DEF Search
  <2>2. TypeInv'
    BY <1>1, <2>1 DEF IInv, TypeInv
  <2>3. RunsWhatWasLoaded'
    BY <1>1, <2>1 DEF IInv, RunsWhatWasLoaded, Loaded, Size, Search
  <2> QED
    BY <2>1, <2>2, <2>3 DEF IInv, Progress
<1>4. CASE left # 0
  <2> DEFINE x == SectorNoOfRootDirectory + (ROOT - left)
  <2>1. ReadSector(x, 1, Start) /\ place' = Start /\ left' = left - 1
    BY <1>4 DEF Search
  <2>2. left \in 1 .. 14 /\ x \in Nat /\ Start \in {0, 128} /\ Start \in Nat
    BY <1>4, Sizes DEF IInv, TypeInv, Start
  <2>3. TypeInv'
    BY <1>1, <1>2, <2>1, <2>2, Sizes DEF IInv, TypeInv, Start
  <2>4. RunsWhatWasLoaded'
    <3> SUFFICES ASSUME stage = "loader", Proper(floppy, "LOADER.BIN"), Size("LOADER.BIN") <= SEG
                 PROVE  Loaded("LOADER.BIN", LOADER)'
      BY <1>1, <1>2 DEF RunsWhatWasLoaded, Size
    <3>1. Start = 0 /\ Start + 1 <= LOADER /\ at # "lost"
      BY Sizes DEF Start, Search
    <3> HIDE DEF x
    <3> QED
      BY <1>1, <2>1, <2>2, <3>1, LoaderStays DEF IInv
  <2>5. Progress'
    <3> SUFFICES ASSUME at' = "load", Fits(File)
                 PROVE  \E j \in 1 .. Size(File) : /\ n' = floppy.files[File][j] /\ place' = Start + j - 1
                                                   /\ LoadedTo(File, Start, j - 1)'
      BY <1>1, <1>2 DEF Progress, Fits, Size
    <3> DEFINE k == ROOT - left
               found == {e \in Entries(k) : floppy.dir[e].name = File}
    <3>1. found # {} /\ n' = floppy.dir[CHOOSE e \in found : \A f \in found : e <= f].first
      BY <1>4 DEF Search
    <3>2. PICK e \in DOMAIN floppy.dir :
            /\ floppy.dir[e] = [name |-> File, first |-> floppy.files[File][1]]
            /\ \A g \in DOMAIN floppy.dir : floppy.dir[g].name = File => g = e
      BY DEF Fits, Proper
    <3>3. Entries(k) \subseteq DOMAIN floppy.dir /\ DOMAIN floppy.dir \subseteq Nat
      <4>1. DOMAIN floppy.dir = 0 .. 223
        BY LoaderAssumption DEF IInv, TypeInv, RealSizes
      <4>2. k \in 0 .. 13
        BY <2>2, Sizes
      <4>3. Entries(k) \subseteq 0 .. 223
        BY <4>2 DEF Entries, RealSizes
      <4> QED
        BY <4>1, <4>3
    <3>4. found = {e}
      BY <3>1, <3>2, <3>3
    <3>5. n' = floppy.files[File][1]
      <4>1. e <= e
        BY <3>2, <3>3
      <4>2. (CHOOSE d \in found : \A f \in found : d <= f) = e
        BY <3>4, <4>1
      <4>3. floppy.dir[e].first = floppy.files[File][1]
        BY <3>2
      <4> HIDE DEF found
      <4> QED
        BY <3>1, <4>2, <4>3
    <3>6. 1 \in 1 .. Size(File) /\ place' = Start + 1 - 1
      <4>1. floppy.files[File] \in Seq(Nat)
        BY LoaderAssumption DEF LoaderAssumption, IInv, TypeInv, File
      <4>2. floppy.files[File] # <<>>
        BY DEF Fits, Proper
      <4> QED
        BY <4>1, <4>2, <2>1, <2>2 DEF Size
    <3>7. LoadedTo(File, Start, 1 - 1)'
      BY DEF LoadedTo
    <3> QED
      BY <3>5, <3>6, <3>7
  <2> QED
    BY <2>3, <2>4, <2>5 DEF IInv
<1> QED
  BY <1>3, <1>4
\* Another sector of a file.
LEMMA LoadInv ==
  ASSUME RealSizes, IInv, LoadSector
  PROVE  IInv'
<1>1. /\ floppy' = floppy /\ stage' = stage /\ left' = left /\ n' = n /\ place' = place
      /\ File' = File /\ Start' = Start
  BY DEF LoadSector, File, Start
<1>2. /\ at = "load" /\ ReadSector(DataSector(n), 1, place) /\ at' \in {"lost", "fat"}
      /\ at' = "fat" => ~ (stage = "loader" /\ place = LOADER)
  BY DEF LoadSector
<1>3. TypeInv'
  BY <1>1, <1>2, Sizes DEF IInv, TypeInv
<1>4. Readable(Chs(DataSector(n)))
  BY <1>2 DEF ReadSector
<1>5. RunsWhatWasLoaded /\ Progress /\ TypeInv
  BY DEF IInv
<1>6. RunsWhatWasLoaded'
  <2> SUFFICES ASSUME stage = "loader", at' # "lost",
                      Proper(floppy, "LOADER.BIN"), Size("LOADER.BIN") <= SEG
               PROVE  Loaded("LOADER.BIN", LOADER)'
    BY <1>1, <1>2 DEF RunsWhatWasLoaded, Size
  <2>1. place + 1 <= LOADER /\ place \in Nat
    BY <1>2, <1>5, Sizes DEF TypeInv
  <2> QED
    BY <1>1, <1>2, <1>5, <2>1, LoaderStays
<1>7. ASSUME Fits(File)
      PROVE  Progress'
  <2>1. PICK j \in 1 .. Size(File) : /\ n = floppy.files[File][j] /\ place = Start + j - 1
                                     /\ LoadedTo(File, Start, j - 1)
    BY <1>2, <1>5, <1>7 DEF Progress
  <2>2. Size(File) \in Nat /\ Size(File) <= 128 /\ Start \in {0, 128}
    <3>1. File \in {"LOADER.BIN", "KERNEL.BIN"}
      BY DEF File
    <3> QED
      BY <1>5, <1>7, <3>1, FileSize, Sizes DEF TypeInv, Start, Fits
  <2>3. n \in Nat /\ DataSector(n) \in Nat
    <3>1. n \in Clusters
      BY <1>7, <2>1 DEF Fits, Proper, Size
    <3>2. n \in Nat
      BY <3>1 DEF Clusters
    <3> QED
      BY <3>2, Sizes
  <2>4. \A i \in 1 .. j - 1 : mem'[Start + i - 1] = DataSector(floppy.files[File][i])
    <3>1. /\ Start \in Nat /\ j - 1 \in Nat /\ place \in Nat /\ Start + (j - 1) <= 256
          /\ Start + (j - 1) <= place
      BY <2>1, <2>2
    <3> QED
      BY <1>2, <2>1, <3>1, Untouched
  <2>5. mem'[Start + j - 1] = DataSector(floppy.files[File][j])
    <3>1. /\ Start + j - 1 \in Places /\ place \in place .. place + 1 - 1 /\ SPT = 18
          /\ place \in Nat
      BY <2>1, <2>2, Sizes DEF RealSizes
    <3>2. mem'[place] = DataSector(n) + place - place
      BY <1>2, <2>1, <2>3, <3>1, Written
    <3> QED
      BY <2>1, <2>3, <3>1, <3>2
  <2>6. LoadedTo(File, Start, j)'
    <3> SUFFICES ASSUME NEW i \in 1 .. j
                 PROVE  mem'[Start + i - 1] = DataSector(floppy.files[File][i])
      BY <1>1 DEF LoadedTo
    <3>1. CASE i = j
      BY <3>1, <2>5
    <3>2. CASE i # j
      <4>1. i \in 1 .. j - 1
        BY <3>2
      <4> QED
        BY <4>1, <2>4
    <3> QED
      BY <3>1, <3>2
  <2> QED
    BY <1>1, <1>2, <1>4, <2>1, <2>6 DEF Progress, Size, LoadedTo
<1>8. ASSUME ~ Fits(File)
      PROVE  Progress'
  BY <1>1, <1>8 DEF Progress, Fits, Size
<1> QED
  BY <1>3, <1>6, <1>7, <1>8 DEF IInv

\* Another look into the FAT: the next sector, or the end of the file.
LEMMA LookInv ==
  ASSUME RealSizes, IInv, GetFATEntry
  PROVE  IInv'
<1> DEFINE x  == SectorNoOfFAT1 + Offset(n) \div BPS
           ax == Entry(Buffered(mem', n, Offset(n)), Buffered(mem', n, Offset(n) + 1), n)
<1>1. at = "fat" /\ ReadSector(x, FatSects, FATBUF) /\ floppy' = floppy
  BY DEF GetFATEntry
<1>2. RunsWhatWasLoaded /\ Progress /\ TypeInv
  BY DEF IInv
<1>3. 2 \in Nat /\ FATBUF \in Nat /\ FatSects = 2 /\ FATBUF = 120 /\ FATBUF + FatSects <= LOADER
  BY Sizes DEF FatSects
<1>4. ASSUME stage = "loader", Proper(floppy, "LOADER.BIN"), Size("LOADER.BIN") <= SEG
      PROVE  Loaded("LOADER.BIN", LOADER)'
  BY <1>1, <1>2, <1>3, <1>4, LoaderStays
<1> DEFINE s == floppy.files[File]
<1>5. ASSUME Fits(File)
      PROVE  \E j \in 1 .. Size(File) :
               /\ n = s[j] /\ place = Start + j - 1
               /\ \A i \in 1 .. j : mem'[Start + i - 1] = DataSector(s[i])
               /\ ax = IF j = Size(File) THEN 4095 ELSE s[j + 1]
               /\ j # Size(File) => s[j + 1] # 4095
  <2>1. PICK j \in 1 .. Size(File) : /\ n = s[j] /\ place = Start + j - 1
                                     /\ LoadedTo(File, Start, j) /\ Readable(Chs(DataSector(n)))
    BY <1>1, <1>2, <1>5 DEF Progress
  <2>2. /\ n \in Clusters
        /\ floppy.fat[n] = IF j = Size(File) THEN 4095 ELSE s[j + 1]
    BY <1>5, <2>1 DEF Fits, Proper, Size
  <2>3. ax = floppy.fat[n]
    BY <1>1, <1>2, <2>1, <2>2, NextEntry DEF TypeInv
  <2>4. j # Size(File) => s[j + 1] # 4095
    <3> SUFFICES ASSUME j # Size(File) PROVE s[j + 1] # 4095
      OBVIOUS
    <3>1. Size(File) \in Nat
      BY <1>2, FileSize DEF TypeInv, File
    <3>2. j + 1 \in 1 .. Size(File)
      BY <3>1
    <3>3. s[j + 1] \in Clusters
      BY <1>5, <3>2 DEF Fits, Proper, Size
    <3>4. \A v \in Clusters : v # 4095
      BY DEF Clusters, RealSizes
    <3> QED
      BY <3>3, <3>4
  <2>5. \A i \in 1 .. j : mem'[Start + i - 1] = DataSector(s[i])
    <3>1. Size(File) \in Nat
      BY <1>2, FileSize DEF TypeInv, File
    <3>2. Start \in Nat /\ j \in Nat /\ Start + j <= 256 /\ (Start + j <= FATBUF \/ FATBUF + 2 <= Start)
      BY <1>2, <1>5, <3>1, Sizes DEF Fits, Start, File, TypeInv
    <3> QED
      BY <1>1, <1>3, <2>1, <3>2, Untouched
  <2> QED
    BY <2>1, <2>2, <2>3, <2>4, <2>5
<1> HIDE DEF x, ax
<1>6. CASE ax = 4095 /\ stage = "boot"
  <2>1. stage' = "loader" /\ at' = "search" /\ left' = ROOT /\ n' = n /\ place' = place
    BY <1>6 DEF GetFATEntry, ax
  <2>2. RunsWhatWasLoaded'
    <3> SUFFICES ASSUME Proper(floppy, "LOADER.BIN"), Size("LOADER.BIN") <= SEG
                 PROVE  Loaded("LOADER.BIN", LOADER)'
      BY <1>1, <2>1 DEF RunsWhatWasLoaded, Size
    <3>1. Fits(File) /\ File = "LOADER.BIN" /\ Start = LOADER
      BY <1>6 DEF Fits, File, Start
    <3>2. \A i \in 1 .. Size(File) : mem'[Start + i - 1] = DataSector(s[i])
      BY <1>5, <1>6, <3>1
    <3> QED
      BY <1>1, <3>1, <3>2 DEF Loaded, Size
  <2>3. TypeInv' /\ Progress'
    BY <1>1, <1>2, <2>1, Sizes DEF TypeInv, Progress
  <2> QED
    BY <2>2, <2>3 DEF IInv
<1>7. CASE ax = 4095 /\ stage = "loader"
  <2>1. stage' = stage /\ at' = "kernel" /\ left' = left /\ n' = n /\ place' = place
    BY <1>7 DEF GetFATEntry, ax
  <2>2. ASSUME Proper(floppy, "KERNEL.BIN"), Size("KERNEL.BIN") <= FATBUF
        PROVE  Loaded("KERNEL.BIN", KERNEL)'
    <3>1. Fits(File) /\ File = "KERNEL.BIN" /\ Start = KERNEL
      BY <1>7, <2>2 DEF Fits, File, Start
    <3>2. \A i \in 1 .. Size(File) : mem'[Start + i - 1] = DataSector(s[i])
      BY <1>5, <1>7, <3>1
    <3> QED
      BY <1>1, <3>1, <3>2 DEF Loaded, Size
  <2>3. RunsWhatWasLoaded'
    BY <1>1, <1>4, <1>7, <2>1, <2>2 DEF RunsWhatWasLoaded, Size
  <2>4. TypeInv' /\ Progress'
    BY <1>1, <1>2, <1>7, <2>1, Sizes DEF TypeInv, Progress
  <2> QED
    BY <2>3, <2>4 DEF IInv
<1>8. CASE ax # 4095
  <2>1. stage' = stage /\ at' = "load" /\ left' = left /\ n' = ax /\ place' = Following(place)
    BY <1>8 DEF GetFATEntry, ax
  <2>2. File' = File /\ Start' = Start
    BY <2>1 DEF File, Start
  <2>3. TypeInv'
    BY <1>1, <1>2, <2>1, Sizes DEF TypeInv, Following
  <2>4. RunsWhatWasLoaded'
    BY <1>1, <1>4, <2>1 DEF RunsWhatWasLoaded, Size
  <2>5. Progress'
    <3> SUFFICES ASSUME Fits(File)
                 PROVE  \E j \in 1 .. Size(File) : /\ n' = s[j] /\ place' = Start + j - 1
                                                   /\ LoadedTo(File, Start, j - 1)'
      BY <1>1, <2>1, <2>2 DEF Progress, Fits, Size
    <3>1. PICK j \in 1 .. Size(File) :
               /\ n = s[j] /\ place = Start + j - 1
               /\ \A i \in 1 .. j : mem'[Start + i - 1] = DataSector(s[i])
               /\ ax = IF j = Size(File) THEN 4095 ELSE s[j + 1]
      BY <1>5
    <3>2. Size(File) \in Nat
      BY <1>2, FileSize DEF TypeInv, File
    <3>3. j + 1 \in 1 .. Size(File) /\ n' = s[j + 1]
      BY <1>8, <2>1, <3>1, <3>2
    <3>4. Following(place) = Start + (j + 1) - 1
      BY <1>2, <3>1, <3>2, <3>3, Sizes DEF Following, TypeInv, Start, File, Fits
    <3>5. LoadedTo(File, Start, (j + 1) - 1)'
      BY <1>1, <2>2, <3>1 DEF LoadedTo
    <3> QED
      BY <2>1, <3>3, <3>4, <3>5
  <2> QED
    BY <2>3, <2>4, <2>5 DEF IInv
<1> QED
  BY <1>2, <1>6, <1>7, <1>8 DEF TypeInv

\* Whatever the floppy and wherever the files are on it, what is run has been loaded in
\* one piece: the loader as long as it runs, the kernel when its end has been found.
\* boot.asm and loader.asm, with the sizes of fat12hdr.inc and load.inc.
THEOREM LoadedWhole ==
  ASSUME RealSizes
  PROVE  Spec => []RunsWhatWasLoaded
<1>1. Init => IInv
  BY InitInv
<1>2. IInv /\ [Next]_vars => IInv'
  <2> SUFFICES ASSUME IInv, [Next]_vars
               PROVE  IInv'
    OBVIOUS
  <2>1. CASE Search
    BY <2>1, SearchInv
  <2>2. CASE LoadSector
    BY <2>2, LoadInv
  <2>3. CASE GetFATEntry
    BY <2>3, LookInv
  <2>4. CASE UNCHANGED vars
    BY <2>4 DEF vars, IInv, TypeInv, Progress, RunsWhatWasLoaded, Fits, LoadedTo, Loaded,
                Size, File, Start
  <2> QED
    BY <2>1, <2>2, <2>3, <2>4 DEF Next
<1>3. IInv => RunsWhatWasLoaded
  BY DEF IInv
<1> QED
  BY <1>1, <1>2, <1>3, PTL DEF Spec
=============================================================================
