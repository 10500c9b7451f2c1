----------------------------- MODULE MCSharding -----------------------------
(***************************************************************************)
(* Sharding for all calls with up to three ranges, among them empty,       *)
(* reversed and uneven ones, up to seven consumers and limits up to four;  *)
(* and the consumers of those with two short ranges and up to three        *)
(* consumers.                                                              *)
(***************************************************************************)
EXTENDS Consumers

SomeRanges == {[start |-> s, end |-> e] : s \in {0, 2}, e \in {1, 4, 7}}
ShortRanges == {[start |-> 0, end |-> 4], [start |-> 2, end |-> 1], [start |-> 0, end |-> 7]}

MCInputs ==
    [consumers : 1..7, sharding : BOOLEAN, limit : 1..4,
     ranges : UNION {[1..n -> SomeRanges] : n \in 1..3}]

MCBuilt ==
    [consumers : 1..3, sharding : BOOLEAN, limit : {4}, ranges : [1..2 -> ShortRanges]]

MCOffsets == 0..8
=============================================================================
