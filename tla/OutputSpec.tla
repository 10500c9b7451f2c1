----------------------------- MODULE OutputSpec -----------------------------
(***************************************************************************)
(* What the pipeline promises about its output: records admitted from each *)
(* partition are written (or dropped) once, in partition order when order  *)
(* is kept; nothing is written after a failure, nor a record whose         *)
(* transform is fatal; and a run completes only when every record it       *)
(* admitted has been written.                                              *)
(***************************************************************************)
EXTENDS Integers, Sequences, Functions

CONSTANT Log

VARIABLES
    keepsOrder,  \* whether a partition's records keep their order
    taken,   \* per partition, how many records were admitted
    output,  \* per partition, the sequences written, in the order of writing
    status   \* "running", "failed" or "complete"

specVars == <<keepsOrder, taken, output, status>>

Init ==
    /\ keepsOrder \in BOOLEAN
    /\ taken = [p \in DOMAIN Log |-> 0]
    /\ output = [p \in DOMAIN Log |-> <<>>]
    /\ status = "running"

Take(p) ==
    /\ status # "complete"
    /\ taken[p] < Len(Log[p])
    /\ taken' = [taken EXCEPT ![p] = @ + 1]
    /\ UNCHANGED <<keepsOrder, output, status>>

Put(p, s) ==
    /\ status = "running"
    /\ s \notin Range(output[p])
    /\ keepsOrder => s = Len(output[p])
    /\ Log[p][s + 1] # "fatal"
    /\ output' = [output EXCEPT ![p] = Append(@, s)]
    /\ UNCHANGED <<keepsOrder, taken, status>>

Fail ==
    /\ status = "running"
    /\ status' = "failed"
    /\ UNCHANGED <<keepsOrder, taken, output>>

Complete ==
    /\ status = "running"
    /\ \A p \in DOMAIN Log : Len(output[p]) = taken[p]
    /\ status' = "complete"
    /\ UNCHANGED <<keepsOrder, taken, output>>

Next ==
    \/ \E p \in DOMAIN Log : Take(p) \/ \E s \in 0..(taken[p] - 1) : Put(p, s)
    \/ Fail \/ Complete

Spec == Init /\ [][Next]_specVars
=============================================================================
