------------------------------ MODULE Options -------------------------------
(***************************************************************************)
(* What the command line (src/cli/cli.cpp) makes of its arguments: the     *)
(* methods of compression that a task may not try, and the name of the     *)
(* output for every input.  A flag that disables a method is named for     *)
(* what it disables; a file name is a directory, a base and an extension   *)
(* in lower case.                                                          *)
(***************************************************************************)
EXTENDS Naturals, Sequences

NO_ZLIB == {"ZLIB_DEFAULT", "ZLIB_BRUTE"}
NO_LZ4  == {"LZ4_DEFAULT", "LZ4_HC", "LZ4_HC_BRUTE"}
NO_ALL  == NO_ZLIB \cup {"ZOPFLI", "7ZIP", "LIBDEFLATE"} \cup NO_LZ4

Method == {"zlib", "zopfli", "7zdeflate", "lz4", "lz4brute", "libdeflate"}

(* has_arg_method: what --use-, --no- and --only- stand for.                 *)
MethodFlags == [m \in Method |->
    CASE m = "zlib" -> NO_ZLIB             [] m = "zopfli" -> {"ZOPFLI"}
      [] m = "7zdeflate" -> {"7ZIP"}       [] m = "lz4" -> {"LZ4_DEFAULT", "LZ4_HC"}
      [] m = "lz4brute" -> {"LZ4_HC_BRUTE"} [] m = "libdeflate" -> {"LIBDEFLATE"}]

has_arg_method(M) == UNION {MethodFlags[m] : m \in M}

(* validate_args.  Defaults by format first; "just disable lz4, zopfli, and   *)
(* libdeflate" for CSO v1 and DAX.                                           *)
DefaultFlags(fmt) ==
    CASE fmt = "CSO2" -> {"ZOPFLI", "LZ4_HC_BRUTE"}
      [] fmt = "ZSO" -> NO_ALL \ {"LZ4_DEFAULT", "LZ4_HC"}
      [] OTHER -> {"ZOPFLI", "LIBDEFLATE"} \cup NO_LZ4

ByMethod(a) ==
    (DefaultFlags(a.fmt) \ has_arg_method(a.use)) \cup has_arg_method(a.no)

ByOnly(a) ==
    IF a.only = {} THEN ByMethod(a) ELSE (ByMethod(a) \cup NO_ALL) \ has_arg_method(a.only)

flags_final(a) ==
    IF a.fast THEN ByOnly(a) \cup (NO_ALL \ {"ZLIB_DEFAULT", "LZ4_DEFAULT"}) ELSE ByOnly(a)

deflateFlags == NO_ALL \ NO_LZ4

(* Mutant of DaxRefused: only the block size is looked at.                   *)
DaxRefusedForBlock(a) == a.fmt = "DAX" /\ ~a.defaultBlock

DaxRefused(a) == a.fmt = "DAX" /\ (~a.defaultBlock \/ deflateFlags \subseteq flags_final(a))

-----------------------------------------------------------------------------
(* The outputs: those given with -o first, the rest derived from the names   *)
(* of the inputs that have no output yet.  An input with an extension that   *)
(* says nothing gets none, and then there are too few.                       *)

outputExt(fmt) == CASE fmt = "DAX" -> ".dax" [] fmt = "ZSO" -> ".zso" [] OTHER -> ".cso"

Compressed == {".cso", ".zso", ".dax"}

(* A name no longer than an extension is skipped.                            *)
Derives(a, f) ==
    /\ f.dir # "" \/ f.base # ""
    /\ IF a.decompress THEN f.ext \in Compressed
       ELSE f.ext \in Compressed \cup {".iso"} /\ f.ext # outputExt(a.fmt)

(* get_basename, when there is an --output-path.                             *)
Derived(a, f) ==
    [dir |-> IF a.output_path = "" THEN f.dir ELSE a.output_path, base |-> f.base,
     ext |-> IF a.decompress THEN ".iso" ELSE outputExt(a.fmt)]

(* Mutant of Unnamed: every input gets a name, if it needs one or not.        *)
UnnamedAll(a) == SelectSeq(a.inputs, LAMBDA f : Derives(a, f))

Unnamed(a) ==
    LET U[i \in 0 .. Len(a.inputs)] ==
          IF i <= Len(a.outputs) THEN <<>>
          ELSE IF Derives(a, a.inputs[i]) THEN Append(U[i - 1], a.inputs[i]) ELSE U[i - 1]
    IN  U[Len(a.inputs)]

Outputs(a) ==
    LET rest == Unnamed(a)
    IN  IF a.crc \/ a.measure THEN a.outputs
        ELSE a.outputs \o [i \in DOMAIN rest |-> Derived(a, rest[i])]

FilesRefused(a) ==
    \/ Len(a.inputs) < Len(a.outputs)
    \/ (a.crc \/ a.measure) /\ a.outputs # <<>>
    \/ ~a.crc /\ ~a.measure /\ Len(a.inputs) # Len(Outputs(a))
    \/ a.inputs = <<>>

Refused(a) == FilesRefused(a) \/ DaxRefused(a)
=============================================================================
