------------------------------ MODULE Sharding ------------------------------
(***************************************************************************)
(* consumer_assignments (src/src/kafka.rs): how the offset ranges of the   *)
(* partitions are divided among the consumers. Without range sharding, or  *)
(* when there are not more consumers than partitions, each range goes to   *)
(* one consumer, in turn. Otherwise each range is cut into shards with a   *)
(* consumer each. Each turn of a loop is a step.                           *)
(***************************************************************************)
EXTENDS Integers, Sequences, FiniteSets

CONSTANTS
    Inputs,  \* the calls: consumers, range sharding, ranges and the limit
    Offsets  \* the offsets the properties look at

ASSUME OffsetsAssumption == Offsets \subseteq Nat

ASSUME InputsAssumption ==
    \A call \in Inputs :
        \* The command line demands both to be positive; Kafka has no negative
        \* offset, and a topic without partitions is an error.
        /\ call.consumers \in Nat \ {0} /\ call.limit \in Nat \ {0}
        /\ call.sharding \in BOOLEAN
        /\ call.ranges \in Seq([start : Nat, end : Nat]) /\ call.ranges # <<>>

VARIABLES
    input,   \* the arguments
    index,   \* the range that is assigned next
    shard,   \* shards of it assigned so far
    next,    \* where the next shard of it starts
    pieces   \* what has been assigned: a part of a partition to a consumer

vars == <<input, index, shard, next, pieces>>

Ranges == input.ranges
Partitions == DOMAIN Ranges

Init ==
    /\ input \in Inputs
    /\ index = 1
    /\ shard = 0
    /\ next = Ranges[1].start
    /\ pieces = <<>>

AtMost(a, b) == IF a <= b THEN a ELSE b

Width(p) == IF Ranges[p].end >= Ranges[p].start THEN Ranges[p].end - Ranges[p].start ELSE 0

Divided == input.sharding /\ input.consumers > Len(Ranges)

\* The consumers that fall to a range: the first ranges take the remainder.
Requested(p) ==
    input.consumers \div Len(Ranges)
      + IF p - 1 < input.consumers % Len(Ranges) THEN 1 ELSE 0

\* Mutants: the limit does not bound the shards; the width does not.
CountUnlimited(p) == AtMost(Requested(p), IF Width(p) = 0 THEN 1 ELSE Width(p))
CountUnbounded(p) == AtMost(Requested(p), input.limit)

\* No shard of a range with records is empty, and each may hold a record.
Count(p) == AtMost(AtMost(Requested(p), IF Width(p) = 0 THEN 1 ELSE Width(p)), input.limit)

\* Mutant: the remainder goes to no shard.
ShardEndTruncated == next + Width(index) \div Count(index)

ShardEnd ==
    IF Width(index) = 0 THEN Ranges[index].end
    ELSE next + Width(index) \div Count(index)
           + IF shard < Width(index) % Count(index) THEN 1 ELSE 0

Piece(consumer, p, from, to, allowance) ==
    [consumer |-> consumer, partition |-> p, start |-> from, end |-> to,
     allowance |-> allowance]

NextRange ==
    /\ index' = index + 1
    /\ shard' = 0
    /\ next' = IF index < Len(Ranges) THEN Ranges[index + 1].start ELSE next

\* The consumers are numbered from zero; a piece has the whole allowance of its
\* partition.
AssignRange ==
    /\ ~Divided /\ index \in Partitions
    /\ LET consumer == (index - 1) % AtMost(input.consumers, Len(Ranges)) IN
       pieces' = Append(pieces, Piece(consumer, index, Ranges[index].start,
                                      Ranges[index].end, input.limit))
    /\ NextRange
    /\ UNCHANGED input

AssignShard ==
    /\ Divided /\ index \in Partitions
    /\ pieces' = Append(pieces, Piece(Len(pieces), index, next, ShardEnd,
                                      input.limit \div Count(index)))
    /\ IF shard + 1 = Count(index)
       THEN NextRange
       ELSE next' = ShardEnd /\ shard' = shard + 1 /\ UNCHANGED index
    /\ UNCHANGED input

Returned == index > Len(Ranges)

Return == Returned /\ UNCHANGED vars

Next == AssignRange \/ AssignShard \/ Return

Spec == Init /\ [][Next]_vars

-----------------------------------------------------------------------------

PieceType ==
    [consumer : Nat, partition : Partitions, start : Nat, end : Nat, allowance : Nat]

TypeOK ==
    /\ input \in Inputs
    /\ index \in 1..(Len(Ranges) + 1)
    /\ shard \in Nat /\ next \in Nat
    /\ Divided /\ index \in Partitions => shard < Count(index)
    /\ pieces \in Seq(PieceType)

PiecesOf(p) == {i \in DOMAIN pieces : pieces[i].partition = p}
Holders(p, o) == {i \in PiecesOf(p) : pieces[i].start <= o /\ o < pieces[i].end}
Assigned(p, o) == Ranges[p].start <= o /\ o < Ranges[p].end

\* The consumers together poll each offset of the ranges once, and no other: the
\* shards are half open, follow each other, and the last one ends at the end.
EachOffsetOnce ==
    Returned => \A p \in Partitions, o \in Offsets :
        /\ Assigned(p, o) <=> Holders(p, o) # {}
        /\ \A i, j \in Holders(p, o) : i = j

\* The shards of a partition have an allowance each, and together at most that
\* of the partition (max_inflight_per_partition), however unevenly it divides.
AllowancesFit ==
    Divided => \A i \in DOMAIN pieces :
        /\ pieces[i].allowance >= 1
        /\ pieces[i].allowance * Cardinality(PiecesOf(pieces[i].partition)) <= input.limit

\* There are never more consumers than asked for, each of them polls something,
\* a shard is empty only if its range is, and the shards of a partition differ by
\* one offset at most.
ConsumersWork ==
    /\ \A i \in DOMAIN pieces :
          /\ pieces[i].consumer < input.consumers
          /\ pieces[i].consumer > 0 =>
                \E j \in 1..(i - 1) : pieces[j].consumer = pieces[i].consumer - 1
          /\ pieces[i].start >= pieces[i].end => Width(pieces[i].partition) = 0
    /\ \A i, j \in DOMAIN pieces :
          pieces[i].partition = pieces[j].partition =>
              pieces[i].end - pieces[i].start <= pieces[j].end - pieces[j].start + 1
    /\ Returned => \A p \in Partitions : PiecesOf(p) # {}
=============================================================================
