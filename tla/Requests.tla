------------------------------ MODULE Requests ------------------------------
(***************************************************************************)
(* What Input, Output and Sector take libuv and UVHelper to do for them: a *)
(* request that is submitted is executed once, in any order and at the     *)
(* same time as others, then its callback is called once, on the loop's    *)
(* thread, one callback at a time.                                         *)
(***************************************************************************)
CONSTANTS Req, none

VARIABLES
    stage,      \* of each request: free, submitted or executed
    inside      \* the request whose callback the loop's thread is in

rvars == <<stage, inside>>

Init == stage = [r \in Req |-> "free"] /\ inside = none

Move(r, from, to) == stage[r] = from /\ stage' = [stage EXCEPT ![r] = to]

Submit(r) == Move(r, "free", "submitted") /\ UNCHANGED inside
Execute(r) == Move(r, "submitted", "executed") /\ UNCHANGED inside
Call(r) == inside = none /\ Move(r, "executed", "free") /\ inside' = r
Return == inside # none /\ inside' = none /\ UNCHANGED stage

Next == Return \/ \E r \in Req : Submit(r) \/ Execute(r) \/ Call(r)

Spec ==
    /\ Init /\ [][Next]_rvars
    /\ WF_rvars(Return)
    /\ \A r \in Req : WF_rvars(Execute(r)) /\ WF_rvars(Call(r))
=============================================================================
