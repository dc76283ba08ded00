------------------------------ MODULE MCLoader ------------------------------
\* Small floppies for Loader: 28 clusters of data, a FAT whose entries lie across
\* its sectors, files in one piece, backwards and scattered, ends that are not
\* 0FFFh, chains that run in a circle.
EXTENDS Loader, Functions

Files ==
  LET from(k, len) == [j \in 1 .. len |-> k + j - 1]
      back(k, len) == [j \in 1 .. len |-> k - j + 1]
      mix(k, len)  == [j \in 1 .. len |-> k + ((5 * j) % 11)]
      loaders == {from(2, 1), from(2, 3), back(7, 2), from(2, 8), from(2, 9), from(12, 2)}
      kernels == {from(11, len) : len \in 1 .. 9} \cup {back(29, len) : len \in {2, 5, 6, 8}}
                   \cup {mix(12, len) : len \in {3, 6, 7}}
  IN  {[f \in {"LOADER.BIN", "KERNEL.BIN"} |-> IF f = "LOADER.BIN" THEN lk[1] ELSE lk[2]] :
         lk \in {x \in loaders \X kernels : Range(x[1]) \cap Range(x[2]) = {}}}

\* Both files' chains; the kernel's ends with last.
Fat(files, last) ==
  [c \in Clusters |->
     LET in(f) == {j \in DOMAIN files[f] : files[f][j] = c}
         owner == {f \in DOMAIN files : in(f) # {}}
     IN  IF c = 0 THEN 4080 ELSE IF owner = {} THEN 0
         ELSE LET f == CHOOSE f \in owner : TRUE
                  j == CHOOSE j \in in(f) : TRUE
              IN  IF j < Len(files[f]) THEN files[f][j + 1]
                  ELSE IF f = "KERNEL.BIN" THEN last ELSE 4095]

\* Entries l and k of the root directory name the files; an entry 6 names nothing.
Dir(files, l, k) ==
  [e \in 0 .. 5 |-> IF e = l THEN [name |-> "LOADER.BIN", first |-> files["LOADER.BIN"][1]]
                    ELSE IF e = k THEN [name |-> "KERNEL.BIN", first |-> files["KERNEL.BIN"][1]]
                    ELSE [name |-> "other", first |-> 2]]

Floppies ==
  {[files |-> f, dir |-> Dir(f, lk[1], lk[2]), fat |-> Fat(f, last)] :
     f \in Files, lk \in {<<0, 1>>, <<5, 2>>, <<2, 3>>, <<1, 6>>, <<6, 0>>},
     last \in {4095, 4088, 12}}
=============================================================================
