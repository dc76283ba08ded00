------------------------------- MODULE MCMkfs -------------------------------
\* Small disks for Mkfs: one extended partition, in either place, and links that
\* lead on, back, nowhere, or to numbers beyond 28 and 32 bits (LBA and WORD).
EXTENDS Mkfs

Entry(sys, start, size) == [sys_id |-> sys, start_sect |-> start, nr_sects |-> size]
NoEntry == Entry(NO_PART, 0, 0)
Small == Entry("data", 2, 4)

Two(a, b) == [n \in 0 .. 1 |-> IF n = 0 THEN a ELSE b]

Tables ==
  {Two(a, b) : a \in {Small, Entry("data", 60, 15), Entry("data", 390, 33)},
               b \in {NoEntry, Small, Entry(EXT_PART, 0, 40), Entry(EXT_PART, 6, 40),
                      Entry(EXT_PART, 300, 40)}}
  \cup {Two(NoEntry, NoEntry), Two(Entry(EXT_PART, 6, 90), NoEntry)}
=============================================================================
