----------------------------- MODULE MCPipeline -----------------------------
(* The pipeline with three Sectors, inputs of one- and two-sector            *)
(* blocks, and outputs of one- to three-sector blocks.                       *)
EXTENDS Pipeline

T(n, k, f, m, d, x) == [sectors |-> n, perBlock |-> k, fmt |-> f, methods |-> m,
                        decompress |-> d, measure |-> x]

MCTask ==
    {T(5, 1, "CSO1", {"DEFLATE"}, FALSE, FALSE),
     T(2, 1, "CSO1", {"LZ4"}, FALSE, FALSE),
     T(1, 1, "ZSO", {"LZ4"}, FALSE, FALSE),
     T(3, 1, "DAX", {"DEFLATE"}, FALSE, FALSE),
     T(7, 2, "CSO1", {"DEFLATE"}, FALSE, FALSE),
     T(4, 3, "CSO1", {"DEFLATE"}, FALSE, TRUE),
     T(5, 1, "CSO1", {}, TRUE, FALSE),
     T(5, 2, "CSO1", {}, TRUE, FALSE),
     T(5, 2, "CSO1", {}, TRUE, TRUE)}

MCTaskLists == {<<t>> : t \in MCTask}
               \cup {<<T(2, 1, "CSO1", {"LZ4"}, FALSE, FALSE), T(1, 1, "ZSO", {"LZ4"}, FALSE, FALSE)>>}
=============================================================================
