------------------------------ MODULE MCTrials ------------------------------
(* Blocks of eight, aligned to two, compressed to anything from one to nine; *)
(* the command lines differ in the methods, or in the files.                 *)
EXTENDS Trials, TLC

Name(dir, base, ext) == [dir |-> dir, base |-> base, ext |-> ext]

Line(fmt, use, no, only, fast, orig, lz4) ==
    [fmt |-> fmt, use |-> use, no |-> no, only |-> only, fast |-> fast, defaultBlock |-> TRUE,
     decompress |-> FALSE, crc |-> FALSE, measure |-> FALSE, output_path |-> "",
     inputs |-> <<Name("d", "a", ".iso")>>, outputs |-> <<>>, origCost |-> orig, lz4Cost |-> lz4]

MethodArgs ==
    {Line("CSO1", {}, {}, {}, FALSE, orig, 0) : orig \in {0, 2}}
    \cup {Line("CSO1", {"zopfli", "libdeflate"}, {"zlib"}, {}, FALSE, 2, 0)}
    \cup {Line("CSO2", u, {"zlib"}, {}, FALSE, orig, 2) : u \in {{}, {"lz4brute"}}, orig \in {0, 2}}
    \cup {Line("ZSO", {"lz4brute"}, {}, o, FALSE, 2, 2) : o \in {{}, {"lz4"}}}
    \cup {Line("DAX", {}, n, o, f, 2, 0) :
             n \in {{}, {"7zdeflate"}, {"zlib", "7zdeflate"}},
             o \in {{}, {"lz4"}, {"7zdeflate"}}, f \in BOOLEAN}
    \cup {Line("DAX", {"lz4"}, {}, {}, FALSE, 0, 2)}

(* Every way to name up to two inputs, with up to one output.                 *)
Inputs ==
    {Name("d", b, e) : b \in {"a", "b"}, e \in {".iso", ".cso", ".zso", ".bin"}}
    \cup {Name("", "", ".iso")}

FileArgs ==
    {[Line(fmt, {}, {}, {}, TRUE, 0, 0) EXCEPT !.inputs = i, !.outputs = o, !.decompress = d,
                                               !.output_path = path] :
        fmt \in {"CSO1", "DAX"}, d \in BOOLEAN, path \in {"", "out"},
        i \in {<<>>} \cup {<<f>> : f \in Inputs} \cup {<<f, g>> : f, g \in Inputs},
        o \in {<<>>, <<Name("d", "c", ".cso")>>}}
    \cup {[Line("CSO1", {}, {}, {}, TRUE, 0, 0) EXCEPT !.outputs = o, !.crc = c, !.measure = m] :
        o \in {<<>>, <<Name("d", "c", ".cso")>>}, c \in BOOLEAN, m \in BOOLEAN}
    \cup {[Line("DAX", {}, {}, {}, FALSE, 0, 0) EXCEPT !.defaultBlock = FALSE]}

MCArgs == MethodArgs \cup FileArgs

(* One method asked for, with each format.                                    *)
MCUseArgs == {Line(fmt, {m}, {}, {}, FALSE, 0, 0) : fmt \in {"CSO1", "CSO2", "ZSO"}, m \in Method}

(* A cost for lz4 and none for storing the block.                             *)
MCCostArgs == {Line("CSO2", {}, {}, {}, FALSE, 0, 2)}

Symmetry == Permutations(Buffer)
=============================================================================
