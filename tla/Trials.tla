------------------------------- MODULE Trials -------------------------------
(***************************************************************************)
(* What Sector does on a worker thread (src/src/sector.cpp): it tries the  *)
(* methods the command line left enabled one after the other, each in a    *)
(* buffer of its own, and keeps the best result by the rules of the cost   *)
(* options; other threads take buffers from the pool and give them back    *)
(* meanwhile, and the task that is starting sets the pool's size.  Output  *)
(* has all of this in one step with a free choice of the result.           *)
(*                                                                         *)
(* A trial's result is a size and a format.  content says what has been    *)
(* written to a buffer last.                                               *)
(***************************************************************************)
EXTENDS BufferPool, Options

CONSTANTS
    Args,           \* the command lines to consider, with the cost options
    blockSize,      \* blockSize_
    align,          \* align_
    TrialSizes,     \* what a block may be compressed to
    MaxBlocks       \* bound: blocks this sector is used for

None == "none"

ASSUME TrialsAssumption ==
    /\ blockSize \in Nat \ {0} /\ align \in Nat \ {0} /\ MaxBlocks \in Nat
    /\ TrialSizes \subseteq Nat \ {0} /\ None \notin Buffer
    /\ MIN_SIZE >= 2 * blockSize
ASSUME CostAssumption == \A a \in Args : a.origCost \in Nat /\ a.lz4Cost \in Nat
ASSUME NamesAssumption ==
    \A a \in Args : {a.inputs, a.outputs} \subseteq Seq([dir : STRING, base : STRING, ext : STRING])

VARIABLES
    args,
    trials,         \* the trials that flags_ leaves, in the order of Compress
    pc,             \* where the sector stands
    next,           \* the trial to be run
    buffer, best,   \* buffer_ and best_
    result,         \* the buffer of the trial that is running
    bestSize, bestFmt,
    smallest,       \* the smallest size a trial has come to, 0 if none succeeded
    content,
    other,          \* buffers other threads hold
    blocks

fixed == <<args, trials>>
pool == <<bufferSize, allocations, free, held, size>>
sector == <<buffer, best, bestSize, bestFmt>>
tvars == <<pool, fixed, pc, next, sector, result, smallest, content, other, blocks>>

Data(fmt, n) == [fmt |-> fmt, size |-> n]
Dax == args.fmt = "DAX"

(* The trials in the order of Compress.  The streams for zlib are set up by  *)
(* the constructor; LZ4HCTrial is called with allowBrute only.               *)
Compress(flags) ==
    LET If(c, s) == IF c THEN s ELSE <<>>
    IN  If("ZLIB_DEFAULT" \notin flags, <<"zlib">>)
        \o If("ZLIB_BRUTE" \notin flags, <<"filtered", "huffman", "rle">>)
        \o If("ZOPFLI" \notin flags, <<"zopfli">>)
        \o If("7ZIP" \notin flags, <<"7zip">>)
        \o If("LIBDEFLATE" \notin flags, <<"libdeflate">>)
        \o If(flags \cap {"LZ4_HC", "LZ4_HC_BRUTE"} = {}, <<"hc4", "hc7", "hc10", "hc13", "hc16">>)
        \o If("LZ4_DEFAULT" \notin flags, <<"lz4">>)

LZ4HC == {"hc4", "hc7", "hc10", "hc13", "hc16"}
FmtOf(t) == IF t \in LZ4HC \cup {"lz4"} THEN "LZ4" ELSE "DEFLATE"
Tries(T) == \E i \in DOMAIN trials : trials[i] \in T

TInit ==
    /\ Init
    /\ args \in Args /\ trials = <<>>
    /\ pc = "validate_args" /\ next = 1
    /\ buffer = None /\ best = None /\ result = None
    /\ bestSize = 0 /\ bestFmt = "ORIG" /\ smallest = 0
    /\ content = [p \in Buffer |-> Data("OTHER", 0)]
    /\ other = {} /\ blocks = 0

validate_args ==
    /\ pc = "validate_args"
    /\ pc' = IF Refused(args) THEN "refused" ELSE "free"
    /\ trials' = Compress(flags_final(args))
    /\ UNCHANGED <<pool, args, next, sector, result, smallest, content, other, blocks>>

-----------------------------------------------------------------------------
(* The buffer that Alloc returns.                                            *)
AllocIs(p) ==
    \/ free # <<>> /\ p = free[Len(free)] /\ Reuse
    \/ Malloc(p)

(* The task that is starting sets the size, before there is a block, in      *)
(* Enqueue and again when it knows the source's size; some thread may hold a *)
(* buffer still, and then the size stays.                                    *)
StartTask(n) ==
    /\ pc = "free" /\ blocks = 0
    /\ SetBufferSize(n)
    /\ UNCHANGED <<fixed, pc, next, sector, result, smallest, content, other, blocks>>

(* Process, once the block is complete, in a buffer it has got from Input or *)
(* from the pool; how the parts of a block come together is in Output.  With *)
(* DisableCompress the block is ready at once.                               *)
Process(p, compress) ==
    /\ pc = "free" /\ blocks < MaxBlocks
    /\ AllocIs(p) /\ buffer' = p
    /\ content' = [content EXCEPT ![p] = Data("ORIG", blockSize)]
    /\ bestSize' = blockSize /\ bestFmt' = "ORIG"
    /\ next' = 1 /\ smallest' = 0 /\ blocks' = blocks + 1
    /\ pc' = IF compress THEN "Compress" ELSE "ready"
    /\ UNCHANGED <<fixed, best, result, other>>

Running == pc = "Compress" /\ next <= Len(trials)
Trial == trials[next]

(* Zopfli compresses first and takes a buffer for what it has got; the       *)
(* others take one to compress into.                                         *)
TrialAllocs(p) ==
    /\ Running /\ result = None
    /\ AllocIs(p) /\ result' = p
    /\ UNCHANGED <<fixed, pc, next, sector, smallest, content, other, blocks>>

(* deflateReset failed, or zopfli has no result that fits.                   *)
TrialSkipped ==
    /\ Running /\ result = None
    /\ Trial \in {"zlib", "filtered", "huffman", "rle", "zopfli"}
    /\ next' = next + 1
    /\ UNCHANGED <<pool, fixed, pc, sector, result, smallest, content, other, blocks>>

TrialFails ==
    /\ Running /\ result # None /\ Trial # "zopfli"
    /\ Release(result) /\ result' = None /\ next' = next + 1
    /\ UNCHANGED <<fixed, pc, sector, smallest, content, other, blocks>>

(* Mutant of Better: lz4 may cost something whatever it replaces.            *)
BetterAnyLZ4(n, fmt) ==
    IF fmt = "LZ4" THEN n <= bestSize + args.lz4Cost
    ELSE n + args.origCost < bestSize \/ (Dax /\ bestFmt = "ORIG")

(* SubmitTrial: which of the two is better depends on both formats.          *)
Better(n, fmt) ==
    CASE fmt = "LZ4" /\ bestFmt = "DEFLATE" -> n <= bestSize + args.lz4Cost
      [] fmt = "DEFLATE" /\ bestFmt = "LZ4" -> n + args.lz4Cost < bestSize
      [] OTHER -> n + args.origCost < bestSize \/ (Dax /\ bestFmt = "ORIG")

(* Mutants of Keep: the result that is replaced is not released; its size    *)
(* stays the one that is reported.                                           *)
KeepLeaks(n, fmt) ==
    /\ best' = result /\ bestSize' = n /\ bestFmt' = fmt
    /\ UNCHANGED pool

KeepOldSize(n, fmt) ==
    /\ best' = result /\ bestFmt' = fmt
    /\ IF best # None THEN Release(best) /\ UNCHANGED bestSize ELSE bestSize' = n /\ UNCHANGED pool

Keep(n, fmt) ==
    /\ best' = result /\ bestSize' = n /\ bestFmt' = fmt
    /\ IF best # None THEN Release(best) ELSE UNCHANGED pool

SubmitTrial(n) ==
    /\ Running /\ result # None
    /\ content' = [content EXCEPT ![result] = Data(FmtOf(Trial), n)]
    /\ smallest' = IF smallest = 0 \/ n < smallest THEN n ELSE smallest
    /\ \/ Better(n, FmtOf(Trial)) /\ Keep(n, FmtOf(Trial))
       \/ ~Better(n, FmtOf(Trial)) /\ Release(result) /\ UNCHANGED <<best, bestSize, bestFmt>>
    /\ result' = None /\ next' = next + 1
    /\ UNCHANGED <<fixed, pc, buffer, other, blocks>>

Aligned(n) == ((n + align - 1) \div align) * align

(* Mutant of FinalizeBest: the format stays.                                 *)
FinalizeKeepsFormat ==
    /\ pc = "Compress" /\ next > Len(trials)
    /\ pc' = "ready"
    /\ IF Aligned(bestSize) >= blockSize /\ best # None /\ ~Dax
       THEN /\ Release(best) /\ best' = None
            /\ bestSize' = blockSize /\ UNCHANGED bestFmt
       ELSE UNCHANGED <<pool, best, bestSize, bestFmt>>
    /\ UNCHANGED <<fixed, next, buffer, result, smallest, content, other, blocks>>

(* FinalizeBest, which ends the work.                                        *)
FinalizeBest ==
    /\ pc = "Compress" /\ next > Len(trials)
    /\ pc' = "ready"
    /\ IF Aligned(bestSize) >= blockSize /\ best # None /\ ~Dax
       THEN /\ Release(best) /\ best' = None
            /\ bestSize' = blockSize /\ bestFmt' = "ORIG"
       ELSE UNCHANGED <<pool, best, bestSize, bestFmt>>
    /\ UNCHANGED <<fixed, next, buffer, result, smallest, content, other, blocks>>

(* Sector::Release, on the loop's thread after the block has been written:   *)
(* the pool is asked twice.                                                  *)
ReleaseBest ==
    /\ pc = "ready" /\ best # None
    /\ Release(best) /\ best' = None
    /\ pc' = "Release"
    /\ UNCHANGED <<fixed, next, buffer, bestSize, bestFmt, result, smallest, content, other, blocks>>

ReleaseBuffer ==
    /\ pc = "Release" \/ (pc = "ready" /\ best = None)
    /\ Release(buffer) /\ buffer' = None
    /\ pc' = "free"
    /\ UNCHANGED <<fixed, next, best, bestSize, bestFmt, result, smallest, content, other, blocks>>

-----------------------------------------------------------------------------
(* Another thread takes a buffer, writes to it, and gives it back.           *)
OtherAllocs(p) ==
    /\ other = {} /\ pc # "validate_args"
    /\ AllocIs(p) /\ other' = {p}
    /\ content' = [content EXCEPT ![p] = Data("OTHER", 0)]
    /\ UNCHANGED <<fixed, pc, next, sector, result, smallest, blocks>>

OtherReleases(p) ==
    /\ p \in other
    /\ Release(p) /\ other' = {}
    /\ UNCHANGED <<fixed, pc, next, sector, result, smallest, content, blocks>>

TNext ==
    \/ validate_args
    \/ \E n \in Sizes : StartTask(n)
    \/ \E p \in Buffer, c \in BOOLEAN : Process(p, c)
    \/ \E p \in Buffer : TrialAllocs(p)
    \/ TrialSkipped \/ TrialFails
    \/ \E n \in TrialSizes : SubmitTrial(n)
    \/ FinalizeBest \/ ReleaseBest \/ ReleaseBuffer
    \/ \E p \in Buffer : OtherAllocs(p) \/ OtherReleases(p)

TSpec == TInit /\ [][TNext]_tvars

-----------------------------------------------------------------------------
(* Properties *)

(* The fields have their types, and the format says whether there is a         *)
(* compressed result, on which BestBuffer, Compressed and Format of the sector *)
(* have to agree.                                                              *)
TTypeOK ==
    /\ pc \in {"validate_args", "refused", "free", "Compress", "ready", "Release"}
    /\ next \in 1 .. Len(trials) + 1
    /\ {buffer, best, result} \subseteq Buffer \cup {None} /\ other \subseteq Buffer
    /\ bestSize \in Nat /\ bestFmt \in {"ORIG", "DEFLATE", "LZ4"}
    /\ pc \in {"Compress", "ready"} => (bestFmt = "ORIG") = (best = None)

(* The block's data, the best result and the one in the making are in three    *)
(* buffers, all of them the sector's, none of them known to another thread;    *)
(* no trial, kept, beaten or failed, loses one, and a sector that is free has  *)
(* none.                                                                       *)
Owned == {buffer, best, result} \ {None}

OwnBuffers ==
    /\ held = Owned \cup other /\ Owned \cap other = {}
    /\ buffer # None => buffer \notin {best, result}
    /\ best # None => best # result
    /\ pc = "free" => Owned = {}

(* What Output writes, BestSize bytes of BestBuffer as Format, is what one of  *)
(* the trials has made of this block, or the block itself: a buffer that was   *)
(* released has been overwritten by then.                                      *)
BestBuffer == IF best = None THEN buffer ELSE best

BestIsIntact == pc = "ready" => content[BestBuffer] = Data(bestFmt, bestSize)

(* SubmitTrial compares each result with the best so far only, with a margin   *)
(* that either cost may be, so that a block could grow by a cost with every    *)
(* trial.  It does not: over any number of trials each cost counts once at     *)
(* most, and lz4's only if the block is no deflate and lz4 was tried at all.   *)
(* This is less than the options' help says of either cost, see                *)
(* EachCostIsABound.  And what is compressed is shorter than a block even with *)
(* its padding, on which CSO v2 relies, except in DAX.                         *)
CostsCountOnce ==
    pc = "ready" =>
        /\ smallest # 0 => Aligned(bestSize) <= Aligned(smallest + args.origCost + args.lz4Cost)
        /\ smallest # 0 /\ (bestFmt = "DEFLATE" \/ ~Tries(LZ4HC \cup {"lz4"})) =>
               Aligned(bestSize) <= Aligned(smallest + args.origCost)
        /\ best # None /\ ~Dax => Aligned(bestSize) < blockSize

(* "--lz4-cost=N Allow lz4 to increase block size by N% at most" and           *)
(* "--orig-cost=N Allow uncompressed to increase block size by N% at most":    *)
(* against the smallest result there was, a block that is stored as lz4 is     *)
(* larger by lz4's cost at most, and one that is stored uncompressed by the    *)
(* original's.  Violated, see README.md: lz4 replaces a smaller result at its  *)
(* own cost, and FinalizeBest then drops lz4 for the block itself.             *)
EachCostIsABound ==
    pc = "ready" /\ smallest # 0 =>
        /\ bestFmt = "LZ4" => Aligned(bestSize) <= Aligned(smallest + args.lz4Cost)
        /\ bestFmt = "ORIG" => Aligned(bestSize) <= Aligned(smallest + args.origCost)

(* "Currently, compression will fail if no DEFLATE format is enabled for DAX": *)
(* with any arguments that are accepted some method makes deflate, and unless  *)
(* lz4 was asked for, one success is enough for the block to be deflated,      *)
(* however large it has become.                                                *)
DaxKeepsDeflate ==
    Dax /\ pc \notin {"validate_args", "refused"} =>
        /\ \E i \in DOMAIN trials : FmtOf(trials[i]) = "DEFLATE"
        /\ pc = "ready" /\ smallest # 0 /\ ~Tries(LZ4HC \cup {"lz4"}) => bestFmt = "DEFLATE"

(* If the command line is accepted, every input has its own output: the one    *)
(* given at its place, or a name made from its own, and never the input.       *)
OutputsPaired ==
    pc \notin {"validate_args", "refused"} /\ ~args.crc /\ ~args.measure =>
        /\ Len(Outputs(args)) = Len(args.inputs)
        /\ \A i \in DOMAIN args.inputs :
              IF i <= Len(args.outputs) THEN Outputs(args)[i] = args.outputs[i]
              ELSE /\ Outputs(args)[i] = Derived(args, args.inputs[i])
                   /\ Outputs(args)[i].ext # args.inputs[i].ext

(* "--use-lz4 Enable trials with lz4hc for lz4 compression" and "--use-lz4brute *)
(* Enable bruteforce trials with lz4hc for lz4 compression": a method that was  *)
(* asked for, and not excluded by another option, has been tried when the block *)
(* is ready.  Violated, see README.md.                                          *)
TrialsOf(m) ==
    CASE m = "zlib" -> {"zlib", "filtered", "huffman", "rle"} [] m = "7zdeflate" -> {"7zip"}
      [] m = "lz4" \/ m = "lz4brute" -> LZ4HC [] OTHER -> {m}

UseMeansTried ==
    pc = "Compress" /\ ~args.fast /\ args.only = {} =>
        \A m \in args.use \ args.no : Tries(TrialsOf(m))
=============================================================================
