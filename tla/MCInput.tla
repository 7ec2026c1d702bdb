------------------------------ MODULE MCInput -------------------------------
(* Sources of up to seven sectors of two bytes in every format, as their      *)
(* writers lay them out, some damaged or cut off; a cache of two sectors or   *)
(* of one block; both owners.                                                 *)
EXTENDS Input

Align(p, shift) == ((p + 2 ^ shift - 1) \div 2 ^ shift) * 2 ^ shift

(* Blocks one behind the other, the first after a header of one byte; a size   *)
(* of 0 stands for a stored block.                                             *)
Layout(blockSize, shift, sizes) ==
    LET Stored(i) == IF sizes[i] = 0 THEN blockSize ELSE sizes[i]
        At[i \in 1 .. Len(sizes) + 1] ==
            IF i = 1 THEN Align(1, shift) ELSE Align(At[i - 1] + Stored(i - 1), shift)
    IN  [i \in 1 .. Len(sizes) + 1 |->
            [pos |-> At[i], size |-> IF i <= Len(sizes) THEN Stored(i) ELSE 0,
             raw |-> i <= Len(sizes) /\ sizes[i] = 0]]

(* lz4: the blocks of a CSO v2 file whose high bit says lz4.                   *)
Source(type, version, size, blockSize, shift, sizes, lz4, cut) ==
    LET L == Layout(blockSize, shift, sizes) IN
    [type |-> type, version |-> version, size |-> size, blockSize |-> blockSize, shift |-> shift,
     index |-> [i \in DOMAIN L |->
                  [pos |-> L[i].pos \div 2 ^ shift, size |-> L[i].size,
                   flag |-> IF type = "CSO2" THEN i \in lz4 ELSE L[i].raw]],
     blocks |-> SubSeq(L, 1, Len(sizes)),
     length |-> L[Len(sizes) + 1].pos - cut]

Iso(size) == [type |-> "ISO", version |-> 0, size |-> size, blockSize |-> 2, shift |-> 0,
              index |-> <<>>, blocks |-> <<>>, length |-> size]

(* Every way to fill n blocks.  A block that is compressed is shorter than a   *)
(* block after alignment too: in version 2 its length is what tells.           *)
Sizes(n, blockSize, shift) ==
    [1 .. n -> {0} \cup {k \in 1 .. blockSize - 1 : Align(k, shift) < blockSize}]

Cso(type, version, blockSize, n, shift, rest, lz4, cuts) ==
    {Source(type, version, blockSize * n - rest, blockSize, shift, z, lz4, cut) :
        z \in Sizes(n, blockSize, shift), cut \in cuts}

MCGoodFile ==
    {Iso(2), Iso(10)}
    \cup Cso("CSO1", 1, 2, 4, 0, 0, {}, {0, 1, 3})
    \cup Cso("CSO1", 0, 4, 3, 1, 2, {}, {0})
    \cup Cso("CSO1", 1, 8, 2, 2, 2, {}, {0, 5})
    \cup Cso("CSO2", 2, 2, 5, 0, 0, {2, 5}, {0})
    \cup Cso("CSO2", 2, 4, 3, 1, 2, {1}, {0})
    \cup Cso("ZSO", 1, 4, 3, 0, 0, {}, {0, 2})
    \cup Cso("ZSO", 1, 8, 2, 1, 2, {}, {0})
    \cup Cso("ZSO", 1, 16, 1, 1, 4, {}, {0})
    \cup Cso("DAX", 1, 4, 3, 0, 2, {}, {0})

MCBadFile ==
    {Iso(5),
     Source("CSO1", 1, 0, 2, 0, <<>>, {}, 0),
     Source("CSO1", 1, 7, 2, 0, <<1, 0, 0, 0>>, {}, 0),
     Source("CSO2", 3, 4, 2, 0, <<1, 1>>, {}, 0),
     Source("ZSO", 1, 4, 64, 0, <<7>>, {}, 0),
     Source("DAX", 2, 4, 4, 0, <<3>>, {}, 0)}

MCFile == MCGoodFile \cup MCBadFile

(* A large source in blocks larger than the buffers for the default output.   *)
MCLargeFile == {Source("CSO1", 1, 20, 32, 0, <<9>>, {}, 0)}

(* Four stored blocks, the last of them cut off in its middle.                *)
MCCutFile == {Source("CSO1", 1, 8, 2, 0, <<0, 0, 0, 0>>, {}, 1)}

MCOwner ==
    {[task |-> "ChecksumTask", blockSize |-> 0, decompress |-> FALSE, pool |-> p, busy |-> b] :
        p \in {8, 16}, b \in BOOLEAN}
    \cup {[task |-> "CompressionTask", blockSize |-> k, decompress |-> d, pool |-> 16, busy |-> b] :
        k \in {0, 2, 8}, d \in BOOLEAN, b \in BOOLEAN}
=============================================================================
