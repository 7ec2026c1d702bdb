------------------------------ MODULE MCOutput ------------------------------
(* Output on small sources: sectors of 4 bytes and positions of 4 bits, so   *)
(* that three blocks already need an index shift.                            *)
EXTENDS Output, TLC

T(n, k, f, m, d, x) == [sectors |-> n, perBlock |-> k, fmt |-> f, methods |-> m,
                        decompress |-> d, measure |-> x]

(* More blocks than Sectors, with and without a shift, in every format;      *)
(* blocks of two and three sectors whose last one is padded; formats that    *)
(* cannot hold what the trials produce; measuring; decompressing, for DAX    *)
(* too, where UpdateIndex refuses the first block.                           *)
MCTask ==
    {T(5, 1, "CSO1", {"DEFLATE"}, FALSE, FALSE),
     T(4, 1, "CSO2", {"DEFLATE", "LZ4"}, FALSE, FALSE),
     T(2, 1, "ZSO", {"LZ4"}, FALSE, FALSE),
     T(3, 1, "CSO1", {"DEFLATE", "LZ4"}, FALSE, FALSE),
     T(3, 2, "DAX", {"DEFLATE"}, FALSE, FALSE),
     T(4, 2, "DAX", {"DEFLATE"}, FALSE, FALSE),
     T(2, 1, "DAX", {"DEFLATE"}, FALSE, FALSE),
     T(7, 2, "CSO1", {"DEFLATE"}, FALSE, FALSE),
     T(5, 3, "CSO2", {"LZ4"}, FALSE, TRUE),
     T(5, 1, "CSO1", {}, TRUE, FALSE),
     T(5, 2, "CSO1", {}, TRUE, FALSE),
     T(5, 2, "CSO1", {}, TRUE, TRUE),
     T(4, 2, "DAX", {}, TRUE, FALSE)}

(* A last block of more padding than data, at the limit of the index's bits. *)
LastBlockTask == {T(2, 4, "CSO1", {"DEFLATE"}, FALSE, FALSE)}

Symmetry == Permutations(Sector)
=============================================================================
