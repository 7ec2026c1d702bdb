----------------------------- MODULE BlockFile ------------------------------
(***************************************************************************)
(* What Output promises to the CompressionTask that owns it, without its   *)
(* queue, its threads or its index: the blocks of the source reach the     *)
(* file in order and none twice, the index reaches it after it is          *)
(* complete, and the one verdict "success" is given only when all of it is *)
(* there.  Errors may be reported more than once, never beside a success.  *)
(***************************************************************************)
EXTENDS Integers, Sequences

VARIABLES
    total,      \* blocks of the source, each a set of sectors
    stored,     \* blocks in the file, in order
    indexed,    \* the index is in the file
    verdicts    \* what has been reported

bvars == <<total, stored, indexed, verdicts>>

Verdict(v) == \E i \in 1 .. Len(verdicts) : verdicts[i] = v
Complete == indexed /\ stored = total

Init == stored = <<>> /\ indexed = FALSE /\ verdicts = <<>>

(* One write stores the next blocks of the source.                         *)
Store ==
    /\ \E n \in Len(stored) + 1 .. Len(total) : stored' = SubSeq(total, 1, n)
    /\ UNCHANGED <<total, indexed, verdicts>>

(* The index is stored once; if all blocks were there, that completes it.  *)
StoreIndex ==
    /\ ~indexed /\ indexed' = TRUE
    /\ \/ UNCHANGED verdicts
       \/ stored = total /\ verdicts = <<>> /\ verdicts' = <<"success">>
    /\ UNCHANGED <<total, stored>>

Succeed ==
    /\ Complete /\ verdicts = <<>>
    /\ verdicts' = <<"success">>
    /\ UNCHANGED <<total, stored, indexed>>

Fail ==
    /\ ~Verdict("success")
    /\ \E e \in {"dax", "format", "data", "header"} : verdicts' = Append(verdicts, e)
    /\ UNCHANGED <<total, stored, indexed>>

Next == Store \/ StoreIndex \/ Succeed \/ Fail

Spec == Init /\ [][Next]_bvars
=============================================================================
