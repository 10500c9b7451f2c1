--------------------------- MODULE ShardingProofs ---------------------------
(***************************************************************************)
(* Proofs about Sharding, for any number of partitions and consumers, any  *)
(* ranges and any limit; and about Consumers, for any way in which prepare *)
(* may fail and any use of the clients.                                    *)
(***************************************************************************)
EXTENDS Consumers, FiniteSetTheorems, SequenceTheorems, TLAPS

\* Where shard k of a partition starts, counting from zero: k quotients after the
\* start, and the units of the remainder that the shards before it took.
StartOf(p, k) ==
    IF Divided /\ Width(p) > 0
    THEN Ranges[p].start + k * (Width(p) \div Count(p)) + AtMost(k, Width(p) % Count(p))
    ELSE Ranges[p].start

Aligned ==
    index \in Partitions =>
        /\ next = StartOf(index, shard)
        /\ ~Divided \/ Width(index) = 0 => shard = 0

\* The offsets that the pieces so far hold.
Covered(p, o) ==
    \/ p < index /\ Assigned(p, o)
    \/ p = index /\ Ranges[p].start <= o /\ o < next

Tiled ==
    \A p \in Partitions, o \in Nat :
        /\ Covered(p, o) <=> Holders(p, o) # {}
        /\ \A i, j \in Holders(p, o) : i = j

\* How many pieces a partition has so far, and their allowance.
Shared ==
    Divided =>
        /\ \A p \in Partitions :
              /\ IsFiniteSet(PiecesOf(p))
              /\ p < index => Cardinality(PiecesOf(p)) = Count(p)
              /\ p = index => Cardinality(PiecesOf(p)) = shard
              /\ p > index => Cardinality(PiecesOf(p)) = 0
        /\ \A i \in DOMAIN pieces :
              /\ pieces[i].partition <= index
              /\ pieces[i].allowance = input.limit \div Count(pieces[i].partition)

IInv == TypeOK /\ Aligned /\ Tiled /\ Shared

-----------------------------------------------------------------------------
\* Arithmetic.

LEMMA Division ==
    ASSUME NEW a \in Nat, NEW b \in Nat \ {0}
    PROVE  /\ a \div b \in Nat
           /\ a % b \in 0..(b - 1)
           /\ a = (b * (a \div b)) + (a % b)
           /\ a >= b => a \div b >= 1
BY SMT

\* A call as the assumptions describe it.
LEMMA CallFacts ==
    ASSUME input \in Inputs
    PROVE  /\ input.consumers \in Nat \ {0} /\ input.limit \in Nat \ {0}
           /\ Len(Ranges) \in Nat \ {0} /\ Partitions = 1..Len(Ranges)
           /\ \A p \in Partitions : /\ Ranges[p].start \in Nat /\ Ranges[p].end \in Nat
                                    /\ Width(p) \in Nat
<1>1. /\ input.consumers \in Nat \ {0} /\ input.limit \in Nat \ {0}
      /\ Ranges \in Seq([start : Nat, end : Nat]) /\ Ranges # <<>>
  BY InputsAssumption DEF Ranges
<1>2. Len(Ranges) \in Nat \ {0} /\ Partitions = 1..Len(Ranges)
  BY <1>1 DEF Partitions
<1>3. ASSUME NEW p \in Partitions
      PROVE  Ranges[p].start \in Nat /\ Ranges[p].end \in Nat /\ Width(p) \in Nat
  <2>1. Ranges[p] \in [start : Nat, end : Nat]
    BY <1>1, <1>2, ElementOfSeq
  <2> QED
    BY <2>1 DEF Width
<1> QED
  BY <1>1, <1>2, <1>3

\* Every partition has a shard, no shard is empty unless its range is, and each
\* has an allowance.
LEMMA CountFacts ==
    ASSUME input \in Inputs, Divided, NEW p \in Partitions
    PROVE  /\ Count(p) \in Nat \ {0} /\ Count(p) <= input.limit
           /\ Width(p) = 0 => Count(p) = 1
           /\ Width(p) > 0 => Count(p) <= Width(p)
<1>1. Requested(p) \in Nat \ {0}
  <2>1. /\ input.consumers \in Nat /\ Len(Ranges) \in Nat \ {0}
        /\ input.consumers >= Len(Ranges)
    BY CallFacts DEF Divided
  <2>2. input.consumers \div Len(Ranges) \in Nat \ {0}
    <3> DEFINE a == input.consumers
               b == Len(Ranges)
    <3>1. a \in Nat /\ b \in Nat \ {0} /\ a >= b
      BY <2>1
    <3> HIDE DEF a, b
    <3>2. a \div b \in Nat /\ a \div b >= 1
      BY <3>1, Division
    <3> QED
      BY <3>2 DEF a, b
  <2> QED
    BY <2>2 DEF Requested
<1> QED
  BY <1>1, CallFacts DEF Count, AtMost

LEMMA FirstShard ==
    ASSUME input \in Inputs, NEW p \in Partitions
    PROVE  StartOf(p, 0) = Ranges[p].start
<1>1. CASE Divided /\ Width(p) > 0
  <2> DEFINE a == Width(p)
             b == Count(p)
  <2>1. a \in Nat /\ b \in Nat \ {0} /\ Ranges[p].start \in Nat
    BY <1>1, CallFacts, CountFacts
  <2>2. Ranges[p].start = Ranges[p].start + 0 * (a \div b) + AtMost(0, a % b)
    <3> HIDE DEF a, b
    <3> QED
      BY <2>1, Division DEF AtMost
  <2> QED
    BY <1>1, <2>2 DEF StartOf
<1> QED
  BY <1>1 DEF StartOf

\* A shard is the quotient wide, and one more if it is one of the first.
LEMMA ShardFacts ==
    ASSUME TypeOK, Aligned, Divided, index \in Partitions
    PROVE  /\ ShardEnd \in Nat
           /\ Ranges[index].start <= next
           /\ Width(index) > 0 => next < ShardEnd
           /\ Width(index) = 0 => ShardEnd <= next /\ Count(index) = 1
           /\ shard + 1 = Count(index) => ShardEnd = Ranges[index].end
           /\ shard + 1 < Count(index) => ShardEnd = StartOf(index, shard + 1)
<1> DEFINE c == Count(index)
           w == Width(index)
           q == w \div c
           r == w % c
<1>1. /\ input \in Inputs /\ shard \in Nat /\ shard < c /\ next \in Nat
  BY DEF TypeOK
<1>2. /\ c \in Nat \ {0} /\ w \in Nat /\ (w = 0 => c = 1) /\ (w > 0 => c <= w)
      /\ Ranges[index].start \in Nat /\ Ranges[index].end \in Nat
  BY <1>1, CallFacts, CountFacts
<1>3. CASE w = 0
  BY <1>1, <1>2, <1>3 DEF Aligned, StartOf, ShardEnd, Width
<1>4. CASE w > 0
  <2>1. /\ q \in Nat \ {0} /\ r \in Nat /\ r < c /\ w = (c * q) + r
    <3> HIDE DEF c, w
    <3>1. w \in Nat /\ c \in Nat \ {0} /\ w >= c
      BY <1>2, <1>4
    <3> QED
      BY <3>1, Division
  <2>2. /\ next = Ranges[index].start + shard * q + AtMost(shard, r)
        /\ ShardEnd = next + q + IF shard < r THEN 1 ELSE 0
    BY <1>4 DEF Aligned, StartOf, ShardEnd
  <2>3. (shard + 1) * q = (shard * q) + q /\ shard * q \in Nat /\ (shard + 1) * q \in Nat
    BY <1>1, <2>1
  <2>4. ShardEnd = Ranges[index].start + (shard + 1) * q + AtMost(shard + 1, r)
    <3> HIDE DEF q, r, c, w
    <3> QED
      BY <1>1, <1>2, <2>1, <2>2, <2>3 DEF AtMost
  <2>5. shard + 1 = c => ShardEnd = Ranges[index].end
    <3>1. Ranges[index].end = Ranges[index].start + w
      BY <1>2, <1>4 DEF Width
    <3> HIDE DEF q, r, c, w
    <3> QED
      BY <1>1, <1>2, <2>1, <2>3, <2>4, <3>1 DEF AtMost
  <2>6. ShardEnd \in Nat /\ Ranges[index].start <= next /\ next < ShardEnd
    <3> HIDE DEF q, r, c, w
    <3> QED
      BY <1>1, <1>2, <2>1, <2>2, <2>3 DEF AtMost
  <2> QED
    BY <1>4, <2>4, <2>5, <2>6 DEF StartOf
<1> QED
  BY <1>2, <1>3, <1>4

-----------------------------------------------------------------------------
\* What one more piece changes.

LEMMA Appended ==
    ASSUME TypeOK, NEW x \in PieceType, pieces' = Append(pieces, x), input' = input
    PROVE  /\ pieces' \in Seq(PieceType)'
           /\ DOMAIN pieces' = DOMAIN pieces \union {Len(pieces) + 1}
           /\ Len(pieces) + 1 \notin DOMAIN pieces
           /\ pieces'[Len(pieces) + 1] = x
           /\ \A i \in DOMAIN pieces : pieces'[i] = pieces[i]
           /\ \A p : PiecesOf(p)' = PiecesOf(p) \union
                        (IF p = x.partition THEN {Len(pieces) + 1} ELSE {})
<1>1. PieceType' = PieceType
  BY DEF PieceType, Partitions, Ranges
<1>2. pieces \in Seq(PieceType) /\ Len(pieces) \in Nat /\ DOMAIN pieces = 1..Len(pieces)
  BY DEF TypeOK
<1>3. /\ pieces' \in Seq(PieceType)
      /\ Len(pieces') = Len(pieces) + 1
      /\ pieces'[Len(pieces) + 1] = x
      /\ \A i \in 1..Len(pieces) : pieces'[i] = pieces[i]
  BY <1>2, AppendProperties
<1>4. DOMAIN pieces' = 1..(Len(pieces) + 1)
  BY <1>3
<1>5. /\ DOMAIN pieces' = DOMAIN pieces \union {Len(pieces) + 1}
      /\ Len(pieces) + 1 \notin DOMAIN pieces
  BY <1>2, <1>4
<1> QED
  BY <1>1, <1>2, <1>3, <1>5 DEF PiecesOf

\* A piece that starts where the pieces so far end keeps them apart, and adds
\* the offsets up to its own end.
LEMMA Tiles ==
    ASSUME TypeOK, Tiled, NEW x \in PieceType, pieces' = Append(pieces, x), input' = input,
           index \in Partitions, x.partition = index, x.start = next
    PROVE  \A p \in Partitions, o \in Nat :
              /\ Holders(p, o)' # {} <=>
                    Covered(p, o) \/ (p = index /\ next <= o /\ o < x.end)
              /\ \A i, j \in Holders(p, o)' : i = j
<1> SUFFICES ASSUME NEW p \in Partitions, NEW o \in Nat
             PROVE  /\ Holders(p, o)' # {} <=>
                          Covered(p, o) \/ (p = index /\ next <= o /\ o < x.end)
                    /\ \A i, j \in Holders(p, o)' : i = j
  OBVIOUS
<1> DEFINE new == IF p = index /\ next <= o /\ o < x.end THEN {Len(pieces) + 1} ELSE {}
<1>1. Holders(p, o)' = Holders(p, o) \union new
  BY Appended DEF Holders, PiecesOf
<1>2. Holders(p, o) # {} /\ p = index => o < next
  BY DEF Tiled, Covered, TypeOK
<1>3. new # {} => Holders(p, o) = {}
  BY <1>2 DEF TypeOK
<1> QED
  BY <1>1, <1>3 DEF Tiled

LEMMA Counts ==
    ASSUME TypeOK, Shared, Divided, NEW x \in PieceType, pieces' = Append(pieces, x),
           input' = input, index \in Partitions, x.partition = index
    PROVE  \A p \in Partitions :
              /\ IsFiniteSet(PiecesOf(p)')
              /\ p < index => Cardinality(PiecesOf(p)') = Count(p)
              /\ p = index => Cardinality(PiecesOf(p)') = shard + 1
              /\ p > index => Cardinality(PiecesOf(p)') = 0
<1> SUFFICES ASSUME NEW p \in Partitions
             PROVE  /\ IsFiniteSet(PiecesOf(p)')
                    /\ p < index => Cardinality(PiecesOf(p)') = Count(p)
                    /\ p = index => Cardinality(PiecesOf(p)') = shard + 1
                    /\ p > index => Cardinality(PiecesOf(p)') = 0
  OBVIOUS
<1>1. p \in Nat /\ index \in Nat
  BY CallFacts DEF TypeOK
<1>2. PiecesOf(p)' = PiecesOf(p) \union (IF p = index THEN {Len(pieces) + 1} ELSE {})
  BY Appended
<1>3. CASE p = index
  <2>1. PiecesOf(p)' = PiecesOf(p) \union {Len(pieces) + 1}
    BY <1>2, <1>3
  <2>2. Len(pieces) + 1 \notin PiecesOf(p)
    BY Appended DEF PiecesOf
  <2>3. IsFiniteSet(PiecesOf(p)) /\ Cardinality(PiecesOf(p)) = shard
    BY <1>3 DEF Shared
  <2>4. /\ IsFiniteSet(PiecesOf(p)')
        /\ Cardinality(PiecesOf(p)') = shard + 1
    BY <2>1, <2>2, <2>3, FS_AddElement
  <2> QED
    BY <1>1, <1>3, <2>4
<1>4. CASE p # index
  <2>1. PiecesOf(p)' = PiecesOf(p)
    BY <1>2, <1>4
  <2> QED
    BY <1>1, <1>4, <2>1 DEF Shared
<1> QED
  BY <1>3, <1>4

-----------------------------------------------------------------------------
\* The invariant.

LEMMA InitIInv == Init => IInv
<1> SUFFICES ASSUME Init PROVE IInv
  OBVIOUS
<1> USE DEF Init
<1>1. /\ input \in Inputs /\ 1 \in Partitions /\ Len(Ranges) \in Nat
      /\ \A p \in Partitions : p \in Nat /\ p >= 1
      /\ \A p \in Partitions : Ranges[p].start \in Nat
  BY CallFacts
<1>2. TypeOK
  <2>1. Divided => 0 < Count(1)
    BY <1>1, CountFacts
  <2> QED
    BY <1>1, <2>1 DEF TypeOK
<1>3. Aligned
  BY <1>1, FirstShard DEF Aligned
<1>4. \A p : PiecesOf(p) = {}
  BY DEF PiecesOf
<1>5. Tiled
  BY <1>1, <1>4 DEF Tiled, Covered, Holders
<1>6. Shared
  <2>1. IsFiniteSet({}) /\ Cardinality({}) = 0
    BY FS_EmptySet
  <2>2. \A p \in Partitions : ~(p < index) /\ IsFiniteSet(PiecesOf(p)) /\ Cardinality(PiecesOf(p)) = 0
    <3>1. \A p \in Partitions : ~(p < index)
      BY <1>1
    <3> QED
      BY <1>4, <2>1, <3>1
  <2>3. DOMAIN pieces = {}
    BY <1>1
  <2> QED
    BY <1>1, <2>2, <2>3 DEF Shared
<1> QED
  BY <1>2, <1>3, <1>5, <1>6 DEF IInv

\* When a range is assigned to its end, the loop goes on with the next one.
LEMMA NextRangeIInv ==
    ASSUME IInv, index \in Partitions, NextRange, input' = input,
           NEW x \in PieceType, pieces' = Append(pieces, x),
           x.partition = index, x.start = next, x.end = Ranges[index].end,
           Ranges[index].start <= next,
           next <= Ranges[index].end \/ next = Ranges[index].start,
           Divided => shard + 1 = Count(index) /\ x.allowance = input.limit \div Count(index)
    PROVE  IInv'
<1> USE DEF IInv
<1>1. /\ input \in Inputs /\ index \in Nat /\ Len(Ranges) \in Nat /\ shard \in Nat
      /\ next \in Nat /\ Partitions = 1..Len(Ranges)
      /\ \A p \in Partitions : Ranges[p].start \in Nat /\ Ranges[p].end \in Nat
  BY CallFacts DEF TypeOK
<1>0. x.start \in Nat /\ x.end \in Nat
  BY DEF PieceType
<1>2. /\ index' = index + 1 /\ shard' = 0
      /\ index + 1 \in Partitions => next' = Ranges[index + 1].start
      /\ next' \in Nat
  BY <1>1 DEF NextRange
<1>3. /\ Ranges' = Ranges /\ Partitions' = Partitions /\ Divided' = Divided
      /\ \A p : Width(p)' = Width(p) /\ Count(p)' = Count(p)
      /\ \A p, o : Assigned(p, o)' = Assigned(p, o)
      /\ \A p, k : StartOf(p, k)' = StartOf(p, k)
  BY DEF Ranges, Partitions, Divided, Width, Count, Requested, Assigned, StartOf
<1>4. TypeOK'
  <2>1. Divided /\ index + 1 \in Partitions => 0 < Count(index + 1)
    BY <1>1, CountFacts
  <2>2. index + 1 \in 1..(Len(Ranges) + 1)
    BY <1>1
  <2> QED
    BY <1>1, <1>2, <1>3, <2>1, <2>2, Appended DEF TypeOK
<1>5. Aligned'
  <2>1. index + 1 \in Partitions => next' = StartOf(index + 1, 0)
    BY <1>1, <1>2, FirstShard
  <2> QED
    BY <1>2, <1>3, <2>1 DEF Aligned
<1>6. Tiled'
  <2>1. ASSUME NEW p \in Partitions, NEW o \in Nat
        PROVE  Covered(p, o)' <=>
                  Covered(p, o) \/ (p = index /\ next <= o /\ o < x.end)
    <3>1. CASE p = index + 1
      BY <1>1, <1>2, <1>3, <3>1 DEF Covered
    <3>2. CASE p = index
      <4>1. Covered(p, o)' <=> Assigned(p, o)
        BY <1>1, <1>2, <1>3, <3>2 DEF Covered
      <4>2. /\ Assigned(p, o) <=> Ranges[index].start <= o /\ o < x.end
            /\ Covered(p, o) <=> Ranges[index].start <= o /\ o < next
        BY <1>1, <3>2 DEF Covered, Assigned
      <4> QED
        BY <1>0, <1>1, <3>2, <4>1, <4>2
    <3>3. CASE p # index + 1 /\ p # index
      BY <1>1, <1>2, <1>3, <3>3 DEF Covered
    <3> QED
      BY <3>1, <3>2, <3>3
  <2> QED
    BY <1>3, <2>1, Tiles DEF Tiled
<1>7. Shared'
  <2> SUFFICES ASSUME Divided
               PROVE  Shared'
    BY <1>3 DEF Shared
  <2>1. \A p \in Partitions :
            /\ IsFiniteSet(PiecesOf(p)')
            /\ p < index + 1 => Cardinality(PiecesOf(p)') = Count(p)
            /\ p >= index + 1 => Cardinality(PiecesOf(p)') = 0
    BY <1>1, Counts
  <2>2. \A i \in DOMAIN pieces' :
            /\ pieces'[i].partition <= index + 1
            /\ pieces'[i].allowance = input.limit \div Count(pieces'[i].partition)
    <3>1. ASSUME NEW i \in DOMAIN pieces PROVE pieces[i].partition \in Nat
      <4>1. pieces \in Seq(PieceType) /\ i \in 1..Len(pieces)
        BY DEF TypeOK
      <4>2. pieces[i] \in PieceType
        BY <4>1, ElementOfSeq
      <4> QED
        BY <1>1, <4>2 DEF PieceType
    <3>2. ASSUME NEW i \in DOMAIN pieces
          PROVE  /\ pieces'[i].partition <= index + 1
                 /\ pieces'[i].allowance = input.limit \div Count(pieces'[i].partition)
      <4>1. pieces'[i] = pieces[i]
        BY Appended
      <4>2. /\ pieces[i].partition <= index
            /\ pieces[i].allowance = input.limit \div Count(pieces[i].partition)
        BY DEF Shared
      <4>3. pieces[i].partition <= index + 1
        BY <1>1, <3>1, <4>2
      <4> QED
        BY <4>1, <4>2, <4>3
    <3>3. /\ pieces'[Len(pieces) + 1] = x
          /\ DOMAIN pieces' = DOMAIN pieces \union {Len(pieces) + 1}
      BY Appended
    <3>4. /\ x.partition <= index + 1
          /\ x.allowance = input.limit \div Count(x.partition)
      BY <1>1
    <3> HIDE DEF IInv
    <3> QED
      BY <3>2, <3>3, <3>4
  <2>3. \A p \in Partitions' :
            /\ IsFiniteSet(PiecesOf(p)')
            /\ p < index' => Cardinality(PiecesOf(p)') = Count(p)'
            /\ p = index' => Cardinality(PiecesOf(p)') = shard'
            /\ p > index' => Cardinality(PiecesOf(p)') = 0
    BY <1>1, <1>2, <1>3, <2>1
  <2>4. \A i \in DOMAIN pieces' :
            /\ pieces'[i].partition <= index'
            /\ pieces'[i].allowance = input'.limit \div Count(pieces[i].partition)'
    <3> HIDE DEF IInv
    <3> QED
      BY <1>2, <1>3, <2>2
  <2> QED
    BY <2>3, <2>4 DEF Shared
<1> QED
  BY <1>4, <1>5, <1>6, <1>7

\* A whole range is a piece that starts where the pieces so far end.
WholeRange == Piece((index - 1) % AtMost(input.consumers, Len(Ranges)), index,
                    Ranges[index].start, Ranges[index].end, input.limit)

LEMMA RangeIsAPiece ==
    ASSUME IInv, AssignRange
    PROVE  /\ input \in Inputs /\ index \in Partitions /\ ~Divided /\ input' = input
           /\ pieces' = Append(pieces, WholeRange) /\ NextRange
           /\ WholeRange \in PieceType /\ WholeRange.partition = index
           /\ WholeRange.start = next /\ next = Ranges[index].start
           /\ WholeRange.end = Ranges[index].end
           /\ WholeRange.consumer = (index - 1) % AtMost(input.consumers, Len(Ranges))
<1> DEFINE consumer == (index - 1) % AtMost(input.consumers, Len(Ranges))
<1>1. /\ input \in Inputs /\ index \in Partitions /\ ~Divided /\ input' = input
      /\ pieces' = Append(pieces, WholeRange) /\ NextRange
  BY DEF IInv, TypeOK, AssignRange, WholeRange
<1>2. next = Ranges[index].start /\ next \in Nat
  BY <1>1 DEF IInv, Aligned, StartOf, TypeOK
<1>3. consumer \in Nat
  <2> DEFINE a == index - 1
             b == AtMost(input.consumers, Len(Ranges))
  <2>1. a \in Nat /\ b \in Nat \ {0}
    BY <1>1, CallFacts DEF AtMost
  <2>2. a % b \in Nat
    <3> HIDE DEF a, b
    <3> QED
      BY <2>1, Division
  <2> QED
    BY <2>2
<1>4. WholeRange = Piece(consumer, index, Ranges[index].start, Ranges[index].end, input.limit)
  BY DEF WholeRange
<1> HIDE DEF consumer
<1>5. /\ WholeRange \in PieceType /\ WholeRange.partition = index
      /\ WholeRange.start = next /\ WholeRange.end = Ranges[index].end
      /\ WholeRange.consumer = consumer
  BY <1>1, <1>2, <1>3, <1>4, CallFacts DEF Piece, PieceType
<1> QED
  BY <1>1, <1>2, <1>5 DEF consumer

LEMMA AssignRangeIInv == IInv /\ AssignRange => IInv'
<1> SUFFICES ASSUME IInv, AssignRange PROVE IInv'
  OBVIOUS
<1>1. Ranges[index].start <= next
  BY RangeIsAPiece DEF IInv, TypeOK
<1> QED
  BY <1>1, RangeIsAPiece, NextRangeIInv

\* So is a shard.
NextShard == Piece(Len(pieces), index, next, ShardEnd, input.limit \div Count(index))

LEMMA ShardIsAPiece ==
    ASSUME IInv, AssignShard
    PROVE  /\ input \in Inputs /\ index \in Partitions /\ Divided /\ input' = input
           /\ pieces' = Append(pieces, NextShard)
           /\ NextShard \in PieceType /\ NextShard.partition = index
           /\ NextShard.start = next /\ NextShard.end = ShardEnd
           /\ NextShard.consumer = Len(pieces)
           /\ NextShard.allowance = input.limit \div Count(index)
<1>1. /\ TypeOK /\ Aligned
      /\ input \in Inputs /\ index \in Partitions /\ Divided /\ input' = input
      /\ pieces' = Append(pieces, NextShard)
  BY DEF IInv, TypeOK, AssignShard, NextShard
<1>2. ShardEnd \in Nat
  BY <1>1, ShardFacts
<1>3. input.limit \div Count(index) \in Nat
  <2> DEFINE a == input.limit
             b == Count(index)
  <2>1. a \in Nat /\ b \in Nat \ {0}
    BY <1>1, CountFacts, CallFacts
  <2> HIDE DEF a, b
  <2>2. a \div b \in Nat
    BY <2>1, Division
  <2> QED
    BY <2>2 DEF a, b
<1>4. Len(pieces) \in Nat /\ next \in Nat
  BY <1>1 DEF TypeOK
<1> QED
  BY <1>1, <1>2, <1>3, <1>4 DEF NextShard, Piece, PieceType

LEMMA AssignShardIInv == IInv /\ AssignShard => IInv'
<1> SUFFICES ASSUME IInv, AssignShard PROVE IInv'
  OBVIOUS
<1> DEFINE x == NextShard
<1>1. /\ TypeOK /\ Aligned /\ Tiled /\ Shared
      /\ input \in Inputs /\ index \in Partitions /\ Divided /\ input' = input
      /\ pieces' = Append(pieces, x)
  BY ShardIsAPiece DEF IInv
<1>2. /\ index \in Nat /\ shard \in Nat /\ next \in Nat /\ shard < Count(index)
      /\ Partitions = 1..Len(Ranges)
  BY <1>1, CallFacts DEF TypeOK
<1>3. /\ ShardEnd \in Nat /\ Ranges[index].start <= next
      /\ Width(index) > 0 => next < ShardEnd
      /\ Width(index) = 0 => ShardEnd <= next /\ Count(index) = 1
  BY <1>1, ShardFacts
<1>4. Count(index) \in Nat \ {0} /\ Width(index) \in Nat
  BY <1>1, CountFacts, CallFacts
<1>6. /\ x \in PieceType /\ x.partition = index /\ x.start = next /\ x.end = ShardEnd
      /\ x.allowance = input.limit \div Count(index)
  BY ShardIsAPiece
<1> HIDE DEF x
<1>7. CASE shard + 1 = Count(index)
  <2>1. NextRange
    BY <1>7 DEF AssignShard
  <2>2. x.end = Ranges[index].end
    BY <1>1, <1>6, <1>7, ShardFacts
  <2>3. next <= Ranges[index].end \/ next = Ranges[index].start
    <3>1. Width(index) = 0 => next = Ranges[index].start
      BY <1>1 DEF Aligned, StartOf
    <3>2. ShardEnd = Ranges[index].end
      BY <1>1, <1>7, ShardFacts
    <3> QED
      BY <1>2, <1>3, <1>4, <3>1, <3>2
  <2> QED
    BY <1>1, <1>3, <1>6, <1>7, <2>1, <2>2, <2>3, NextRangeIInv
<1>8. CASE shard + 1 # Count(index)
  <2>1. next' = ShardEnd /\ shard' = shard + 1 /\ index' = index
    BY <1>8 DEF AssignShard
  <2>2. shard + 1 < Count(index) /\ Width(index) > 0
    BY <1>2, <1>3, <1>4, <1>8
  <2>3. /\ Ranges' = Ranges /\ Partitions' = Partitions /\ Divided' = Divided
        /\ \A p : Width(p)' = Width(p) /\ Count(p)' = Count(p)
        /\ \A p, o : Assigned(p, o)' = Assigned(p, o)
        /\ \A p, k : StartOf(p, k)' = StartOf(p, k)
    BY <1>1 DEF Ranges, Partitions, Divided, Width, Count, Requested, Assigned, StartOf
  <2>4. TypeOK'
    BY <1>1, <1>2, <1>3, <1>6, <2>1, <2>2, <2>3, Appended DEF TypeOK
  <2>5. Aligned'
    <3>1. ShardEnd = StartOf(index, shard + 1)
      BY <1>1, <2>2, ShardFacts
    <3> QED
      BY <1>1, <2>1, <2>2, <2>3, <3>1 DEF Aligned
  <2>6. Tiled'
    <3>1. ASSUME NEW p \in Partitions, NEW o \in Nat
          PROVE  Covered(p, o)' <=>
                    Covered(p, o) \/ (p = index /\ next <= o /\ o < x.end)
      <4>1. CASE p = index
        <5>1. Covered(p, o)' <=> Ranges[index].start <= o /\ o < ShardEnd
          BY <1>2, <2>1, <2>3, <4>1 DEF Covered
        <5>2. Covered(p, o) <=> Ranges[index].start <= o /\ o < next
          BY <1>2, <4>1 DEF Covered
        <5>3. Ranges[index].start \in Nat
          BY <1>1, CallFacts
        <5> QED
          BY <1>2, <1>3, <1>6, <2>2, <4>1, <5>1, <5>2, <5>3
      <4>2. CASE p # index
        BY <2>1, <2>3, <4>2 DEF Covered
      <4> QED
        BY <4>1, <4>2
    <3> QED
      BY <1>1, <1>6, <2>3, <3>1, Tiles DEF Tiled
  <2>7. Shared'
    <3>1. \A p \in Partitions :
              /\ IsFiniteSet(PiecesOf(p)')
              /\ p < index => Cardinality(PiecesOf(p)') = Count(p)
              /\ p = index => Cardinality(PiecesOf(p)') = shard + 1
              /\ p > index => Cardinality(PiecesOf(p)') = 0
      BY <1>1, <1>6, Counts
    <3>2. ASSUME NEW i \in DOMAIN pieces'
          PROVE  /\ pieces'[i].partition <= index
                 /\ pieces'[i].allowance = input.limit \div Count(pieces'[i].partition)
      <4>1. CASE i \in DOMAIN pieces
        <5>1. pieces'[i] = pieces[i]
          BY <1>1, <1>6, <4>1, Appended
        <5> QED
          BY <1>1, <4>1, <5>1 DEF Shared
      <4>2. CASE i = Len(pieces) + 1
        <5>1. pieces'[i] = x
          BY <1>1, <1>6, <4>2, Appended
        <5> QED
          BY <1>2, <1>6, <5>1
      <4> QED
        BY <1>1, <1>6, <4>1, <4>2, Appended
    <3> QED
      BY <1>1, <2>1, <2>3, <3>1, <3>2 DEF Shared
  <2> QED
    BY <2>4, <2>5, <2>6, <2>7 DEF IInv
<1> QED
  BY <1>7, <1>8

LEMMA NextIInv == IInv /\ [Next]_vars => IInv'
<1> SUFFICES ASSUME IInv, [Next]_vars PROVE IInv'
  OBVIOUS
<1>1. CASE UNCHANGED vars
  <2>1. /\ UNCHANGED <<input, index, shard, next, pieces>>
        /\ Ranges' = Ranges /\ Partitions' = Partitions /\ Divided' = Divided
        /\ PieceType' = PieceType
        /\ \A p : Width(p)' = Width(p) /\ Count(p)' = Count(p) /\ PiecesOf(p)' = PiecesOf(p)
        /\ \A p, k : StartOf(p, k)' = StartOf(p, k)
    BY <1>1 DEF vars, Ranges, Partitions, Divided, PieceType, Width, Count, Requested,
                PiecesOf, StartOf
  <2>2. \A p, o : Covered(p, o)' = Covered(p, o) /\ Holders(p, o)' = Holders(p, o)
    BY <2>1 DEF Covered, Holders, Assigned
  <2>3. TypeOK' /\ Aligned'
    BY <2>1 DEF IInv, TypeOK, Aligned
  <2>4. Tiled'
    BY <2>1, <2>2 DEF IInv, Tiled
  <2>5. Shared'
    BY <2>1 DEF IInv, Shared
  <2> QED
    BY <2>3, <2>4, <2>5 DEF IInv
<1> QED
  BY <1>1, AssignRangeIInv, AssignShardIInv DEF Next, Return

LEMMA Invariant == Spec => []IInv
BY InitIInv, NextIInv, PTL DEF Spec

-----------------------------------------------------------------------------
\* The theorems.

\* Whatever is asked for, the loop keeps its types, and a range is never left
\* with all its shards assigned.
THEOREM TypeCorrect == Spec => []TypeOK
<1>1. IInv => TypeOK
  BY DEF IInv
<1> QED
  BY <1>1, Invariant, PTL

\* The consumers together poll each offset of each range exactly once: no offset
\* of consumer_assignments's ranges is in two shards, in none, or outside.
THEOREM OffsetsPartitioned == Spec => []EachOffsetOnce
<1>1. IInv => EachOffsetOnce
  <2> SUFFICES ASSUME IInv, Returned, NEW p \in Partitions, NEW o \in Offsets
               PROVE  /\ Assigned(p, o) <=> Holders(p, o) # {}
                      /\ \A i, j \in Holders(p, o) : i = j
    BY DEF EachOffsetOnce
  <2>1. o \in Nat
    BY OffsetsAssumption
  <2>2. p < index
    BY CallFacts DEF IInv, TypeOK, Returned
  <2>3. Covered(p, o) <=> Assigned(p, o)
    BY <2>1, <2>2, CallFacts DEF IInv, TypeOK, Covered
  <2> QED
    BY <2>1, <2>3 DEF IInv, Tiled
<1> QED
  BY <1>1, Invariant, PTL

\* The shards of a partition can admit a record each, and together no more than
\* the partition's limit on records in flight.
THEOREM AllowancesShared == Spec => []AllowancesFit
<1>1. IInv => AllowancesFit
  <2> SUFFICES ASSUME IInv, Divided, NEW i \in DOMAIN pieces
               PROVE  /\ pieces[i].allowance >= 1
                      /\ pieces[i].allowance * Cardinality(PiecesOf(pieces[i].partition))
                            <= input.limit
    BY DEF AllowancesFit
  <2> DEFINE p == pieces[i].partition
             a == input.limit
             c == Count(p)
             n == Cardinality(PiecesOf(p))
  <2>1. input \in Inputs /\ p \in Partitions
    <3>1. pieces \in Seq(PieceType) /\ i \in 1..Len(pieces) /\ input \in Inputs
      BY DEF IInv, TypeOK
    <3>2. pieces[i] \in PieceType
      BY <3>1, ElementOfSeq
    <3> QED
      BY <3>1, <3>2 DEF PieceType
  <2>2. a \in Nat /\ c \in Nat \ {0} /\ c <= a
    BY <2>1, CallFacts, CountFacts
  <2>3. n \in Nat /\ n <= c
    <3>1. p \in Nat /\ index \in Nat /\ p <= index
      BY <2>1, CallFacts DEF IInv, TypeOK, Shared
    <3>2. /\ p < index => n = c
          /\ p = index => n = shard
      BY <2>1 DEF IInv, Shared
    <3>3. p = index => shard \in Nat /\ shard < c
      BY <2>1 DEF IInv, TypeOK
    <3> HIDE DEF n, c, p
    <3> QED
      BY <2>2, <3>1, <3>2, <3>3
  <2>4. pieces[i].allowance = a \div c
    BY DEF IInv, Shared
  <2>5. a \div c >= 1 /\ (a \div c) * n <= a
    <3> HIDE DEF a, c, n
    <3>1. a \div c \in Nat /\ a \div c >= 1 /\ a % c \in Nat
          /\ a = (c * (a \div c)) + (a % c)
      BY <2>2, Division
    <3>2. (a \div c) * n <= (a \div c) * c
      BY <2>2, <2>3, <3>1
    <3> QED
      BY <2>2, <2>3, <3>1, <3>2
  <2> QED
    BY <2>4, <2>5
<1> QED
  BY <1>1, Invariant, PTL

-----------------------------------------------------------------------------
\* The work of a consumer.

\* The consumers that fall to the ranges before p: a quotient each, and the units
\* of the remainder that they took.
FallTo(p) ==
    (p - 1) * (input.consumers \div Len(Ranges)) + AtMost(p - 1, input.consumers % Len(Ranges))

\* A shard is a quotient of its range wide, or one more.
Even(x) ==
    LET p == x.partition IN
    IF Divided /\ Width(p) > 0
    THEN x.end - x.start \in {Width(p) \div Count(p), (Width(p) \div Count(p)) + 1}
    ELSE x.start = Ranges[p].start /\ x.end = Ranges[p].end

\* A consumer has one shard; undivided ranges go to the consumers in turn.
Dealt ==
    /\ \A i \in DOMAIN pieces : Even(pieces[i])
    /\ Divided =>
        /\ \A i \in DOMAIN pieces : pieces[i].consumer = i - 1
        /\ index \in Partitions => Len(pieces) <= FallTo(index) + shard
        /\ Len(pieces) <= input.consumers
    /\ ~Divided =>
        /\ Len(pieces) = index - 1
        /\ \A i \in DOMAIN pieces :
              /\ pieces[i].partition = i
              /\ pieces[i].consumer = (i - 1) % AtMost(input.consumers, Len(Ranges))

LEMMA SameCall ==
    ASSUME input' = input
    PROVE  /\ Ranges' = Ranges /\ Partitions' = Partitions /\ Divided' = Divided
           /\ \A p : /\ Width(p)' = Width(p) /\ Count(p)' = Count(p) /\ FallTo(p)' = FallTo(p)
BY DEF Ranges, Partitions, Divided, Width, Count, Requested, FallTo

\* In turn: the consumer before one of a higher number than zero was the last one.
LEMMA PreviousInTurn ==
    ASSUME NEW a \in Nat, NEW b \in Nat \ {0}, (a + 1) % b > 0
    PROVE  a % b = ((a + 1) % b) - 1
<1> DEFINE q == a \div b
           r == a % b
           u == (a + 1) \div b
           s == (a + 1) % b
<1>1. /\ q \in Nat /\ r \in Nat /\ r < b /\ a = (b * q) + r
      /\ u \in Nat /\ s \in Nat /\ s < b /\ a + 1 = (b * u) + s /\ s > 0
  BY Division
<1> HIDE DEF q, r, u, s
<1>2. q = u
  <2>1. ASSUME q < u PROVE FALSE
    <3>1. b * (q + 1) <= b * u /\ b * (q + 1) = (b * q) + b
      BY <1>1, <2>1
    <3> QED
      BY <1>1, <3>1
  <2>2. ASSUME u < q PROVE FALSE
    <3>1. b * (u + 1) <= b * q /\ b * (u + 1) = (b * u) + b
      BY <1>1, <2>2
    <3> QED
      BY <1>1, <3>1
  <2> QED
    BY <1>1, <2>1, <2>2
<1>3. r = s - 1
  BY <1>1, <1>2
<1> QED
  BY <1>3 DEF r, s

\* The consumers that fall to the ranges are never more than there are.
LEMMA FallsTo ==
    ASSUME input \in Inputs, Divided, NEW p \in Partitions
    PROVE  /\ FallTo(p) \in Nat
           /\ FallTo(p) + Count(p) <= FallTo(p + 1)
           /\ FallTo(p + 1) <= input.consumers
<1> DEFINE n == Len(Ranges)
           a == input.consumers
           q == a \div n
           r == a % n
<1>1. /\ a \in Nat /\ n \in Nat \ {0} /\ p \in Nat /\ 1 <= p /\ p <= n
  BY CallFacts
<1>2. /\ q \in Nat /\ r \in Nat /\ a = (n * q) + r
  <2>1. a \in Nat /\ n \in Nat \ {0}
    BY <1>1
  <2> HIDE DEF a, n
  <2>2. a \div n \in Nat /\ a % n \in Nat /\ a = (n * (a \div n)) + (a % n)
    BY <2>1, Division
  <2> QED
    BY <2>2 DEF q, r
<1>3. Count(p) \in Nat /\ Count(p) <= q + (IF p - 1 < r THEN 1 ELSE 0)
  <2>1. Count(p) \in Nat
    BY CountFacts
  <2>2. Requested(p) = q + (IF p - 1 < r THEN 1 ELSE 0)
    BY DEF Requested
  <2>3. Requested(p) \in Nat
    <3> HIDE DEF q, r
    <3> QED
      BY <1>2, <2>2
  <2>4. Width(p) \in Nat /\ input.limit \in Nat
    BY CallFacts
  <2>5. Count(p) <= Requested(p)
    BY <2>3, <2>4 DEF Count, AtMost
  <2> HIDE DEF q, r
  <2> QED
    BY <2>1, <2>2, <2>5
<1>4. /\ FallTo(p) = (p - 1) * q + AtMost(p - 1, r)
      /\ FallTo(p + 1) = p * q + AtMost(p, r)
  <2>1. (p + 1) - 1 = p
    BY <1>1
  <2> QED
    BY <2>1 DEF FallTo
<1> HIDE DEF n, a, q, r
<1>5. p * q = ((p - 1) * q) + q /\ p * q <= n * q /\ (p - 1) * q \in Nat /\ p * q \in Nat
  <2> DEFINE k == p - 1
  <2>1. k \in Nat /\ p = k + 1
    BY <1>1
  <2> HIDE DEF k
  <2>2. (k + 1) * q = (k * q) + q /\ k * q \in Nat
    BY <1>2, <2>1
  <2>3. p * q <= n * q /\ p * q \in Nat
    BY <1>1, <1>2
  <2> QED
    BY <2>1, <2>2, <2>3 DEF k
<1>6. /\ AtMost(p - 1, r) \in Nat /\ AtMost(p, r) <= r
      /\ AtMost(p - 1, r) + (IF p - 1 < r THEN 1 ELSE 0) = AtMost(p, r)
  BY <1>1, <1>2 DEF AtMost
<1>7. FallTo(p) \in Nat
  BY <1>4, <1>5, <1>6
<1>8. FallTo(p) + Count(p) <= FallTo(p + 1)
  BY <1>2, <1>3, <1>4, <1>5, <1>6
<1>9. FallTo(p + 1) <= a
  <2>1. n * q = q * n /\ n * q \in Nat
    BY <1>1, <1>2
  <2>2. AtMost(p, r) \in Nat
    BY <1>1, <1>2 DEF AtMost
  <2> QED
    BY <1>1, <1>2, <1>4, <1>5, <1>6, <2>1, <2>2
<1> QED
  BY <1>7, <1>8, <1>9 DEF a

LEMMA EvenStays ==
    ASSUME TypeOK, input' = input, NEW x \in PieceType, pieces' = Append(pieces, x),
           \A i \in DOMAIN pieces : Even(pieces[i]), Even(x)
    PROVE  \A i \in DOMAIN pieces' : Even(pieces[i])'
<1> SUFFICES ASSUME NEW i \in DOMAIN pieces' PROVE Even(pieces[i])'
  OBVIOUS
<1> DEFINE y == pieces'[i]
<1>1. Even(y)
  <2>1. CASE i \in DOMAIN pieces
    BY <2>1, Appended
  <2>2. CASE i = Len(pieces) + 1
    BY <2>2, Appended
  <2> QED
    BY <2>1, <2>2, Appended
<1>2. LET p == y.partition IN
      IF Divided /\ Width(p) > 0
      THEN y.end - y.start \in {Width(p) \div Count(p), (Width(p) \div Count(p)) + 1}
      ELSE y.start = Ranges[p].start /\ y.end = Ranges[p].end
  BY <1>1 DEF Even
<1> QED
  BY <1>2, SameCall DEF Even

LEMMA InitDealt == Init => Dealt
<1> SUFFICES ASSUME Init PROVE Dealt
  OBVIOUS
<1>1. input \in Inputs /\ DOMAIN pieces = {} /\ Len(pieces) = 0 /\ index = 1 /\ shard = 0
  BY DEF Init
<1>2. 1 \in Partitions /\ input.consumers \in Nat
  BY <1>1, CallFacts
<1>3. Divided => FallTo(1) \in Nat
  BY <1>1, <1>2, FallsTo
<1> QED
  BY <1>1, <1>2, <1>3 DEF Dealt

LEMMA RangeIsDealt ==
    ASSUME IInv, Dealt, AssignRange
    PROVE  Dealt'
<1>1. /\ input \in Inputs /\ index \in Partitions /\ ~Divided /\ input' = input /\ TypeOK
      /\ pieces' = Append(pieces, WholeRange) /\ NextRange
      /\ WholeRange \in PieceType
  BY RangeIsAPiece DEF IInv
<1>2. Even(WholeRange)
  BY RangeIsAPiece DEF Even
<1>3. \A i \in DOMAIN pieces' : Even(pieces[i])'
  BY <1>1, <1>2, EvenStays DEF Dealt
<1>4. Len(pieces') = Len(pieces) + 1 /\ Len(pieces) = index - 1 /\ index \in Nat
  BY <1>1, CallFacts DEF Dealt, TypeOK
<1>5. index' = index + 1
  BY <1>1 DEF NextRange
<1>6. ASSUME NEW i \in DOMAIN pieces'
      PROVE  /\ pieces'[i].partition = i
             /\ pieces'[i].consumer = (i - 1) % AtMost(input'.consumers, Len(Ranges'))
  <2>0. Ranges' = Ranges /\ input' = input
    BY <1>1, SameCall
  <2>1. CASE i \in DOMAIN pieces
    BY <1>1, <2>0, <2>1, Appended DEF Dealt
  <2>2. CASE i = Len(pieces) + 1
    <3>1. i = index /\ pieces'[i] = WholeRange
      BY <1>1, <1>4, <2>2, Appended
    <3> QED
      BY <2>0, <3>1, RangeIsAPiece
  <2> QED
    BY <1>1, <2>1, <2>2, Appended
<1>7. ~Divided'
  BY <1>1, SameCall
<1> QED
  BY <1>3, <1>4, <1>5, <1>6, <1>7 DEF Dealt

LEMMA ShardIsDealt ==
    ASSUME IInv, Dealt, AssignShard
    PROVE  Dealt'
<1>1. /\ input \in Inputs /\ index \in Partitions /\ Divided /\ input' = input /\ TypeOK /\ Aligned
      /\ pieces' = Append(pieces, NextShard)
      /\ NextShard \in PieceType
  BY ShardIsAPiece DEF IInv
<1>2. Even(NextShard)
  <2>1. CASE Width(index) > 0
    <3> DEFINE q == Width(index) \div Count(index)
               r == Width(index) % Count(index)
    <3>1. ShardEnd = next + q + (IF shard < r THEN 1 ELSE 0)
      BY <2>1, CallFacts, <1>1 DEF ShardEnd
    <3>2. q \in Nat /\ next \in Nat
      <4> DEFINE a == Width(index)
                 b == Count(index)
      <4>1. a \in Nat /\ b \in Nat \ {0}
        BY <1>1, CallFacts, CountFacts
      <4> HIDE DEF a, b
      <4>2. a \div b \in Nat
        BY <4>1, Division
      <4> QED
        BY <1>1, <4>2 DEF a, b, TypeOK
    <3> HIDE DEF q, r
    <3>3. ShardEnd - next \in {q, q + 1}
      BY <3>1, <3>2
    <3> QED
      BY <1>1, <2>1, <3>3, ShardIsAPiece DEF Even, q
  <2>2. CASE Width(index) = 0
    <3>1. next = Ranges[index].start /\ ShardEnd = Ranges[index].end
      BY <1>1, <2>2 DEF Aligned, StartOf, ShardEnd
    <3> QED
      BY <2>2, <3>1, ShardIsAPiece DEF Even
  <2>3. Width(index) \in Nat
    BY <1>1, CallFacts
  <2> QED
    BY <2>1, <2>2, <2>3
<1>3. \A i \in DOMAIN pieces' : Even(pieces[i])'
  BY <1>1, <1>2, EvenStays DEF Dealt
<1>4. /\ Len(pieces') = Len(pieces) + 1 /\ Len(pieces) \in Nat /\ index \in Nat /\ shard \in Nat
      /\ shard < Count(index) /\ Len(pieces) <= FallTo(index) + shard
      /\ DOMAIN pieces = 1..Len(pieces)
  BY <1>1, CallFacts DEF Dealt, TypeOK
<1>5. ASSUME NEW i \in DOMAIN pieces'
      PROVE  pieces'[i].consumer = i - 1
  <2>1. CASE i \in DOMAIN pieces
    BY <1>1, <2>1, Appended DEF Dealt
  <2>2. CASE i = Len(pieces) + 1
    <3>1. pieces'[i] = NextShard /\ NextShard.consumer = Len(pieces)
      BY <1>1, <2>2, Appended, ShardIsAPiece
    <3> QED
      BY <1>4, <2>2, <3>1
  <2> QED
    BY <1>1, <2>1, <2>2, Appended
<1>6. /\ FallTo(index) \in Nat /\ Count(index) \in Nat /\ input.consumers \in Nat
      /\ FallTo(index) + Count(index) <= FallTo(index + 1)
      /\ FallTo(index + 1) <= input.consumers
  BY <1>1, FallsTo, CountFacts, CallFacts
<1>7. FallTo(index + 1) \in Int
  <2>1. CASE index + 1 \in Partitions
    BY <1>1, <2>1, FallsTo
  <2>2. CASE index + 1 \notin Partitions
    <3> DEFINE n == Len(Ranges)
               a == input.consumers
    <3>1. a \in Nat /\ n \in Nat \ {0} /\ index = n
      BY <1>1, <2>2, CallFacts
    <3>2. FallTo(index + 1) = ((n + 1) - 1) * (a \div n) + AtMost((n + 1) - 1, a % n)
      BY <3>1 DEF FallTo
    <3> HIDE DEF n, a
    <3>3. a \div n \in Nat /\ a % n \in Nat /\ (n + 1) - 1 = n
      BY <3>1, Division
    <3>4. n * (a \div n) \in Int /\ AtMost(n, a % n) \in Int
      BY <3>1, <3>3 DEF AtMost
    <3> QED
      BY <3>2, <3>3, <3>4
  <2> QED
    BY <2>1, <2>2
<1>8. /\ Len(pieces') <= FallTo(index) + (shard + 1)
      /\ shard + 1 = Count(index) => Len(pieces') <= FallTo(index + 1)
      /\ Len(pieces') <= input.consumers
  BY <1>4, <1>6, <1>7
<1>9. index' \in Partitions => Len(pieces') <= FallTo(index') + shard'
  <2>1. CASE shard + 1 = Count(index)
    <3>1. index' = index + 1 /\ shard' = 0
      BY <2>1 DEF AssignShard, NextRange
    <3> QED
      BY <1>7, <1>8, <2>1, <3>1
  <2>2. CASE shard + 1 # Count(index)
    <3>1. index' = index /\ shard' = shard + 1
      BY <2>2 DEF AssignShard
    <3> QED
      BY <1>8, <3>1
  <2> QED
    BY <2>1, <2>2
<1>10. /\ Divided' /\ Partitions' = Partitions /\ input' = input
       /\ FallTo(index)' = FallTo(index')
  BY <1>1, SameCall DEF FallTo
<1> QED
  BY <1>3, <1>5, <1>8, <1>9, <1>10 DEF Dealt

LEMMA NextDealt == IInv /\ Dealt /\ [Next]_vars => Dealt'
<1> SUFFICES ASSUME IInv, Dealt, [Next]_vars PROVE Dealt'
  OBVIOUS
<1>1. CASE UNCHANGED vars
  <2>1. UNCHANGED <<input, index, shard, pieces>>
    BY <1>1 DEF vars
  <2> QED
    BY <2>1, SMTT(30) DEF Dealt, Even, Divided, Width, Count, Requested, Ranges, Partitions, FallTo
<1> QED
  BY <1>1, RangeIsDealt, ShardIsDealt DEF Next, Return

\* No consumer beyond those asked for has a piece, none before it is without
\* one, no shard of a range with records is empty, and shards are even.
LEMMA DealtWorks ==
    ASSUME IInv, Dealt
    PROVE  ConsumersWork
<1>1. /\ input \in Inputs /\ pieces \in Seq(PieceType) /\ Len(pieces) \in Nat
      /\ DOMAIN pieces = 1..Len(pieces)
      /\ input.consumers \in Nat \ {0} /\ Len(Ranges) \in Nat \ {0}
      /\ Partitions = 1..Len(Ranges) /\ index \in 1..(Len(Ranges) + 1)
  BY CallFacts DEF IInv, TypeOK
<1>2. ASSUME NEW i \in DOMAIN pieces
      PROVE  /\ pieces[i].partition \in Partitions
             /\ pieces[i].consumer \in Nat
             /\ pieces[i].start \in Nat /\ pieces[i].end \in Nat
             /\ pieces[i].end - pieces[i].start \in Int
             /\ i \in Nat /\ i - 1 \in Nat
  <2>1. pieces[i] \in PieceType
    BY <1>1, ElementOfSeq
  <2>2. i \in Nat /\ i - 1 \in Nat
    BY <1>1
  <2>3. /\ pieces[i].partition \in Partitions /\ pieces[i].consumer \in Nat
        /\ pieces[i].start \in Nat /\ pieces[i].end \in Nat
    BY <2>1 DEF PieceType
  <2> QED
    BY <2>2, <2>3
<1> DEFINE m == AtMost(input.consumers, Len(Ranges))
<1>3. m \in Nat \ {0} /\ m <= input.consumers /\ m <= Len(Ranges)
  BY <1>1 DEF AtMost
<1>4. ASSUME NEW i \in DOMAIN pieces
      PROVE  pieces[i].consumer < input.consumers
  <2>1. CASE Divided
    BY <1>1, <1>2, <2>1 DEF Dealt
  <2>2. CASE ~Divided
    <3>1. pieces[i].consumer = (i - 1) % m
      BY <2>2 DEF Dealt
    <3> HIDE DEF m
    <3>2. (i - 1) % m < m /\ (i - 1) % m \in Nat
      <4> DEFINE a == i - 1
      <4>1. a \in Nat
        BY <1>2
      <4> HIDE DEF a
      <4>2. a % m \in 0..(m - 1)
        BY <1>3, <4>1, Division
      <4>3. a % m \in Nat /\ a % m < m
        BY <1>3, <4>2
      <4> QED
        BY <4>3 DEF a
    <3> QED
      BY <1>1, <1>3, <3>1, <3>2
  <2> QED
    BY <2>1, <2>2
<1>5. ASSUME NEW i \in DOMAIN pieces, pieces[i].consumer > 0
      PROVE  \E j \in 1..(i - 1) : pieces[j].consumer = pieces[i].consumer - 1
  <2>1. CASE Divided
    <3>1. i - 1 \in 1..(i - 1) /\ i - 1 \in DOMAIN pieces /\ pieces[i].consumer = i - 1
      BY <1>1, <1>2, <1>5, <2>1 DEF Dealt
    <3>2. pieces[i - 1].consumer = (i - 1) - 1
      BY <2>1, <3>1 DEF Dealt
    <3> QED
      BY <3>1, <3>2
  <2>2. CASE ~Divided
    <3>1. pieces[i].consumer = (i - 1) % m
      BY <2>2 DEF Dealt
    <3>2. i # 1
      <4>1. m > 0 => 0 % m = 0
        <5> HIDE DEF m
        <5> QED
          BY <1>3, SMT
      <4> QED
        BY <1>3, <1>5, <3>1, <4>1
    <3>3. i - 1 \in 1..(i - 1) /\ i - 1 \in DOMAIN pieces /\ i - 2 \in Nat /\ (i - 1) - 1 = i - 2
          /\ (i - 2) + 1 = i - 1
      <4>1. i \in Nat /\ 2 <= i /\ i <= Len(pieces)
        BY <1>1, <3>2
      <4>2. i - 1 \in 1..(i - 1) /\ i - 1 \in 1..Len(pieces)
        BY <1>1, <4>1
      <4>3. i - 2 \in Nat /\ (i - 1) - 1 = i - 2 /\ (i - 2) + 1 = i - 1
        BY <4>1
      <4> QED
        BY <1>1, <4>2, <4>3
    <3>4. pieces[i - 1].consumer = (i - 2) % m
      BY <2>2, <3>3 DEF Dealt
    <3> HIDE DEF m
    <3>5. (i - 2) % m = ((i - 1) % m) - 1
      <4> DEFINE a == i - 2
      <4>1. a \in Nat /\ a + 1 = i - 1 /\ (a + 1) % m > 0
        BY <1>5, <3>1, <3>3
      <4> HIDE DEF a
      <4>2. a % m = ((a + 1) % m) - 1
        BY <1>3, <4>1, PreviousInTurn
      <4> QED
        BY <4>1, <4>2 DEF a
    <3> QED
      BY <3>1, <3>3, <3>4, <3>5
  <2> QED
    BY <2>1, <2>2
<1>6. ASSUME NEW p \in Partitions, Divided, Width(p) > 0
      PROVE  Width(p) \div Count(p) \in Nat /\ Width(p) \div Count(p) >= 1
  <2> DEFINE a == Width(p)
             b == Count(p)
  <2>1. a \in Nat /\ b \in Nat \ {0} /\ a >= b
    BY <1>1, <1>6, CallFacts, CountFacts
  <2> HIDE DEF a, b
  <2>2. a \div b \in Nat /\ a \div b >= 1
    BY <2>1, Division
  <2> QED
    BY <2>2 DEF a, b
<1>7. ASSUME NEW i \in DOMAIN pieces, pieces[i].start >= pieces[i].end
      PROVE  Width(pieces[i].partition) = 0
  <2> DEFINE p == pieces[i].partition
  <2>1. Even(pieces[i]) /\ p \in Partitions /\ Width(p) \in Nat
    BY <1>1, <1>2, CallFacts DEF Dealt
  <2>2. CASE Divided /\ Width(p) > 0
    <3>1. pieces[i].end - pieces[i].start \in {Width(p) \div Count(p), (Width(p) \div Count(p)) + 1}
      BY <2>1, <2>2 DEF Even
    <3> DEFINE q == Width(p) \div Count(p)
    <3>2. q \in Nat /\ q >= 1 /\ pieces[i].end - pieces[i].start \in {q, q + 1}
      BY <1>6, <2>1, <2>2, <3>1
    <3> HIDE DEF q
    <3> QED
      BY <1>2, <1>7, <3>2
  <2>3. CASE ~(Divided /\ Width(p) > 0)
    <3>1. pieces[i].start = Ranges[p].start /\ pieces[i].end = Ranges[p].end
      BY <2>1, <2>3 DEF Even
    <3> QED
      BY <1>2, <1>7, <3>1 DEF Width
  <2> QED
    BY <2>2, <2>3
<1>8. ASSUME NEW i \in DOMAIN pieces, NEW j \in DOMAIN pieces,
             pieces[i].partition = pieces[j].partition
      PROVE  pieces[i].end - pieces[i].start <= pieces[j].end - pieces[j].start + 1
  <2> DEFINE p == pieces[i].partition
  <2>1. Even(pieces[i]) /\ Even(pieces[j]) /\ p \in Partitions /\ pieces[j].partition = p
    BY <1>2, <1>8 DEF Dealt
  <2>2. CASE Divided /\ Width(p) > 0
    <3> DEFINE q == Width(p) \div Count(p)
    <3>1. /\ pieces[i].end - pieces[i].start \in {q, q + 1}
          /\ pieces[j].end - pieces[j].start \in {q, q + 1}
          /\ q \in Nat
      BY <1>6, <2>1, <2>2 DEF Even
    <3> HIDE DEF q
    <3> QED
      BY <3>1
  <2>3. CASE ~(Divided /\ Width(p) > 0)
    <3>1. /\ pieces[i].start = pieces[j].start /\ pieces[i].end = pieces[j].end
      BY <2>1, <2>3 DEF Even
    <3> QED
      BY <1>2, <3>1
  <2> QED
    BY <2>2, <2>3
<1>9. ASSUME Returned, NEW p \in Partitions
      PROVE  PiecesOf(p) # {}
  <2>1. p < index /\ index = Len(Ranges) + 1
    BY <1>1, <1>9 DEF Returned
  <2>2. CASE Divided
    <3>1. Cardinality(PiecesOf(p)) = Count(p) /\ Count(p) # 0
      BY <1>1, <2>1, <2>2, CountFacts DEF IInv, Shared
    <3> QED
      BY <3>1, FS_EmptySet
  <2>3. CASE ~Divided
    <3>1. p \in DOMAIN pieces /\ pieces[p].partition = p
      BY <1>1, <2>1, <2>3 DEF Dealt
    <3> QED
      BY <3>1 DEF PiecesOf
  <2> QED
    BY <2>2, <2>3
<1> QED
  BY <1>4, <1>5, <1>7, <1>8, <1>9 DEF ConsumersWork

\* There are never more consumers than asked for and none without a piece, no
\* shard of a range with records is empty, the shards of one differ by one
\* offset at most, and every partition has one.
THEOREM EveryConsumerWorks == Spec => []ConsumersWork
<1>1. IInv /\ Dealt => ConsumersWork
  BY DealtWorks
<1> QED
  BY <1>1, InitDealt, NextDealt, Invariant, PTL DEF Spec

-----------------------------------------------------------------------------
\* The consumers that prepare builds, and their clients.

States == {"none", "open", "dropping", "closed"}
ClientType ==
    [state : States, queue : BOOLEAN, partitions : SUBSET Partitions,
     forwarded : SUBSET Partitions, assigned : BOOLEAN, paused : SUBSET Partitions,
     fetched : BOOLEAN, pending : Nat, handed : BOOLEAN, combined : BOOLEAN, dropped : 0..5]

\* What refers to a client's memory is built from the queue up, and dropped from
\* the messages down; messages are only extracted while the consumers are polled.
Nested(client, c) ==
    /\ client.partitions \subseteq Assignment(c) /\ client.forwarded \subseteq client.partitions
    /\ client.partitions # {} => client.queue
    /\ client.dropped >= 1 => client.pending = 0
    /\ client.dropped >= 2 => client.forwarded = {}
    /\ client.dropped >= 3 => client.partitions = {}
    /\ client.dropped >= 4 => ~client.queue

Used(client, c) ==
    /\ client.state = "none" => client = NoClient
    /\ client.state = "open" =>
          /\ client.dropped = 0 /\ ~client.combined
          /\ client.assigned => client.forwarded = Assignment(c)
    /\ client.state = "closed" => client.dropped = 5
    /\ client.handed => client.state = "open"
    /\ client.handed \/ client.pending > 0 => phase = "polling"

ClientsWell ==
    /\ clients \in [0..(input.consumers - 1) -> ClientType]
    /\ \A c \in DOMAIN clients : Nested(clients[c], c) /\ Used(clients[c], c)

\* How far prepare is: nothing is built before every consumer has a client.
OpenClient == [NoClient EXCEPT !.state = "open"]
Phases == {"open", "check", "assign", "create", "build", "polling", "dropping"}
PhaseWell ==
    /\ phase \in Phases /\ building \in Nat
    /\ phase = "open" => building = 1
    /\ phase \in {"open", "check", "assign", "create"} =>
          \A c \in DOMAIN clients : clients[c] \in {NoClient, OpenClient}
    /\ phase \in {"check", "assign", "create"} =>
          \A c \in DOMAIN clients : c < building => clients[c].state = "open"
    /\ phase \in {"create", "build", "polling"} => Returned
    /\ phase = "build" => \A c \in Consumers : clients[c].state = "open"

PInv == ClientsWell /\ PhaseWell

\* prepare divides the ranges as Sharding does, and changes nothing of it else.
LEMMA StepsDivide == [PrepareNext]_allVars => [Next]_vars
<1> SUFFICES ASSUME PrepareNext, ~Divide PROVE UNCHANGED vars
  BY DEF allVars, Divide, Next
<1> QED
  BY DEF PrepareNext, Open, Check, CreateConsumers, CreateConsumer, AssignConsumers, Construct,
         NewQueue, GetPartition, Forward, Assign, Pause, BuildNext, Use, Fetch, Extract, Hand,
         DropMessage, BeginDrop, DropPart, PrepareOver, allVars

\* A consumer is an offset of its piece, or the numbers come in turn.
LEMMA ConsumersFit ==
    ASSUME IInv, Dealt
    PROVE  Consumers \subseteq 0..(input.consumers - 1)
<1> SUFFICES ASSUME NEW i \in DOMAIN pieces
             PROVE  pieces[i].consumer \in 0..(input.consumers - 1)
  BY DEF Consumers
<1>1. pieces[i].consumer < input.consumers
  BY DealtWorks DEF ConsumersWork
<1>2. pieces \in Seq(PieceType) /\ i \in 1..Len(pieces) /\ input.consumers \in Nat
  BY CallFacts DEF IInv, TypeOK
<1>3. pieces[i] \in PieceType
  BY <1>2, ElementOfSeq
<1>4. pieces[i].consumer \in Nat
  BY <1>3 DEF PieceType
<1> QED
  BY <1>1, <1>2, <1>4

\* Once the ranges are assigned, those before the first number without a
\* piece are all the consumers.
LEMMA ConsumersAreNumbered ==
    ASSUME IInv, Dealt, Returned, NEW n \in Nat, n \notin Consumers
    PROVE  \A c \in Consumers : c < n
<1>1. /\ input \in Inputs /\ pieces \in Seq(PieceType) /\ Len(pieces) \in Nat
      /\ DOMAIN pieces = 1..Len(pieces)
      /\ input.consumers \in Nat \ {0} /\ Len(Ranges) \in Nat \ {0}
      /\ index = Len(Ranges) + 1
  BY CallFacts DEF IInv, TypeOK, Returned
<1>2. CASE Divided
  <2>1. \A i \in DOMAIN pieces : pieces[i].consumer = i - 1
    BY <1>2 DEF Dealt
  <2>2. n + 1 \notin DOMAIN pieces
    BY <2>1 DEF Consumers
  <2>3. n >= Len(pieces)
    BY <1>1, <2>2
  <2> QED
    BY <1>1, <2>1, <2>3 DEF Consumers
<1>3. CASE ~Divided
  <2> DEFINE m == AtMost(input.consumers, Len(Ranges))
  <2>1. m \in Nat \ {0} /\ m <= Len(Ranges)
    BY <1>1 DEF AtMost
  <2>2. Len(pieces) = Len(Ranges) /\ \A i \in DOMAIN pieces : pieces[i].consumer = (i - 1) % m
    BY <1>1, <1>3 DEF Dealt
  <2> HIDE DEF m
  <2>3. n >= m
    <3> SUFFICES ASSUME n < m PROVE FALSE
      BY <2>1
    <3>1. n + 1 \in DOMAIN pieces /\ (n + 1) - 1 = n
      BY <1>1, <2>1, <2>2
    <3>2. pieces[n + 1].consumer = n % m
      BY <2>2, <3>1
    <3>3. n % m = n
      BY <2>1, SMT
    <3> QED
      BY <3>1, <3>2, <3>3 DEF Consumers
  <2>4. ASSUME NEW i \in DOMAIN pieces PROVE pieces[i].consumer < m
    <3> DEFINE a == i - 1
    <3>1. a \in Nat
      BY <1>1
    <3>2. pieces[i].consumer = a % m
      BY <2>2
    <3> HIDE DEF a
    <3>3. a % m \in 0..(m - 1)
      BY <2>1, <3>1, Division
    <3> QED
      BY <2>1, <3>2, <3>3
  <2>5. \A i \in DOMAIN pieces : pieces[i].consumer \in Nat
    <3> SUFFICES ASSUME NEW i \in DOMAIN pieces PROVE pieces[i].consumer \in Nat
      OBVIOUS
    <3>1. pieces[i] \in PieceType
      BY <1>1, ElementOfSeq
    <3> QED
      BY <3>1 DEF PieceType
  <2> QED
    BY <2>1, <2>3, <2>4, <2>5 DEF Consumers
<1> QED
  BY <1>2, <1>3

LEMMA InitPInv == PrepareInit => PInv
<1> SUFFICES ASSUME PrepareInit PROVE PInv
  OBVIOUS
<1>1. /\ phase = "open" /\ building = 1
      /\ clients = [c \in 0..(input.consumers - 1) |-> NoClient]
  BY DEF PrepareInit
<1>2. NoClient \in ClientType
  BY DEF NoClient, ClientType, States
<1>3. \A c : Nested(NoClient, c) /\ Used(NoClient, c)
  BY DEF NoClient, Nested, Used
<1>4. ClientsWell
  BY <1>1, <1>2, <1>3 DEF ClientsWell
<1> QED
  BY <1>1, <1>4 DEF PInv, PhaseWell, Phases

\* What the conjuncts about a client speak of stays as long as the division does.
LEMMA SameDivision ==
    ASSUME UNCHANGED vars
    PROVE  /\ ClientType' = ClientType /\ Consumers' = Consumers /\ Returned' = Returned
           /\ \A c : Assignment(c)' = Assignment(c)
           /\ \A k, c : Nested(k, c)' = Nested(k, c)
BY DEF vars, ClientType, Partitions, Ranges, Consumers, Returned, Assignment, Pieces, Nested

\* One client changes, once all of them exist.
LEMMA OneChanges ==
    ASSUME IInv, Dealt, PInv, UNCHANGED <<vars, prepareVars>>, phase \in {"build", "polling", "dropping"},
           NEW c \in DOMAIN clients, NEW k \in ClientType,
           clients' = [clients EXCEPT ![c] = k],
           Nested(k, c), Used(k, c),
           phase = "build" /\ clients[c].state = "open" => k.state = "open"
    PROVE  PInv'
<1>1. /\ UNCHANGED vars /\ phase' = phase /\ building' = building /\ input' = input
      /\ clients \in [0..(input.consumers - 1) -> ClientType]
  BY DEF PInv, ClientsWell, prepareVars, vars
<1>2. /\ clients' \in [0..(input.consumers - 1) -> ClientType]
      /\ DOMAIN clients' = DOMAIN clients
      /\ clients'[c] = k /\ \A d \in DOMAIN clients : d # c => clients'[d] = clients[d]
  BY <1>1
<1>3. ASSUME NEW d \in DOMAIN clients'
      PROVE  Nested(clients[d], d)' /\ Used(clients[d], d)'
  <2>1. Nested(clients'[d], d) /\ Used(clients'[d], d)
    BY <1>2 DEF PInv, ClientsWell
  <2>2. Assignment(d)' = Assignment(d)
    BY <1>1, SameDivision
  <2>3. Nested(clients[d], d)'
    BY <2>1, <2>2 DEF Nested
  <2>4. Used(clients[d], d)'
    BY <1>1, <2>1, <2>2 DEF Used, NoClient
  <2> QED
    BY <2>3, <2>4
<1>4. ClientsWell'
  <2>1. ClientType' = ClientType
    BY <1>1, SameDivision
  <2> QED
    BY <1>1, <1>2, <1>3, <2>1 DEF ClientsWell
<1>5. PhaseWell'
  <2>1. Consumers' = Consumers /\ Returned' = Returned
    BY <1>1, SameDivision
  <2>2. phase = "build" => \A d \in Consumers : clients[d].state = "open" => clients'[d].state = "open"
    <3>1. Consumers \subseteq DOMAIN clients
      BY <1>1, ConsumersFit
    <3> QED
      BY <1>2, <3>1
  <2> QED
    BY <1>1, <2>1, <2>2 DEF PInv, PhaseWell
<1> QED
  BY <1>4, <1>5 DEF PInv

\* A consumer whose queues are built has a client with nothing in use.
LEMMA BuildingFacts ==
    ASSUME IInv, Dealt, PInv, Building
    PROVE  /\ phase = "build" /\ building \in DOMAIN clients /\ Client = clients[building]
           /\ Client \in ClientType /\ Client.state = "open"
           /\ Client.partitions \subseteq Assignment(building)
           /\ Client.forwarded \subseteq Client.partitions
           /\ Client.partitions # {} => Client.queue
           /\ Client.assigned => Client.forwarded = Assignment(building)
           /\ Client.dropped = 0 /\ ~Client.combined /\ ~Client.handed /\ Client.pending = 0
<1>1. phase = "build" /\ building \in Consumers /\ building \in DOMAIN clients
  BY ConsumersFit DEF Building, PInv, ClientsWell
<1>2. Client = clients[building] /\ Client \in ClientType
  BY <1>1 DEF Client, PInv, ClientsWell
<1>3. Nested(Client, building) /\ Used(Client, building) /\ Client.state = "open"
  BY <1>1, <1>2 DEF PInv, ClientsWell, PhaseWell
<1>4. Client.pending \in Nat
  BY <1>2 DEF ClientType
<1> QED
  BY <1>1, <1>2, <1>3, <1>4 DEF Used, Nested

\* A step of FetchConsumer::new.
LEMMA Builds ==
    ASSUME IInv, Dealt, PInv, Building, UNCHANGED <<vars, prepareVars>>, NEW k \in ClientType,
           clients' = [clients EXCEPT ![building] = k],
           k.partitions \subseteq Assignment(building), k.forwarded \subseteq k.partitions,
           k.partitions # {} => k.queue, k.assigned => k.forwarded = Assignment(building),
           k.state = "open", k.dropped = 0, ~k.combined, ~k.handed, k.pending = 0
    PROVE  PInv'
<1>1. Nested(k, building) /\ Used(k, building)
  BY DEF Nested, Used
<1> QED
  BY <1>1, BuildingFacts, OneChanges

LEMMA AbortPInv ==
    ASSUME PInv, Abort, UNCHANGED <<vars, clients>>, phase # "polling"
    PROVE  PInv'
<1>1. phase' = "dropping" /\ building' = building /\ input' = input
  BY DEF Abort, vars
<1>2. ASSUME NEW c \in DOMAIN clients PROVE Used(clients[c], c)'
  <2>1. Used(clients[c], c) /\ clients' = clients
    BY DEF PInv, ClientsWell
  <2>2. Assignment(c)' = Assignment(c)
    BY SameDivision
  <2>3. ~(clients[c].handed \/ clients[c].pending > 0)
    BY <2>1 DEF Used
  <2> QED
    BY <2>1, <2>2, <2>3 DEF Used, NoClient
<1>3. ASSUME NEW c \in DOMAIN clients PROVE Nested(clients[c], c)'
  <2>1. Nested(clients[c], c) /\ clients' = clients
    BY DEF PInv, ClientsWell
  <2>2. Assignment(c)' = Assignment(c)
    BY SameDivision
  <2> QED
    BY <2>1, <2>2 DEF Nested
<1>4. ClientsWell'
  BY <1>1, <1>2, <1>3, SameDivision DEF PInv, ClientsWell
<1> QED
  BY <1>1, <1>4 DEF PInv, PhaseWell, Phases

\* The actions that build a consumer's queues.

\* The actions that build a consumer's queues.
LEMMA NewQueuePInv ==
    ASSUME IInv, Dealt, PInv, NewQueue
    PROVE  PInv'
<1> DEFINE k == [Client EXCEPT !.queue = TRUE]
<1>1. CASE clients' = [clients EXCEPT ![building].queue = TRUE] /\ UNCHANGED prepareVars
  <2>1. Building /\ UNCHANGED <<vars, prepareVars>>
    BY <1>1 DEF NewQueue, prepareVars
  <2>2. clients' = [clients EXCEPT ![building] = k]
    BY <1>1, <2>1, BuildingFacts
  <2>3. k \in ClientType
    BY <2>1, BuildingFacts DEF ClientType, NewQueue
  <2>4. /\ k.queue = TRUE /\ k.partitions = Client.partitions
        /\ k.forwarded = Client.forwarded /\ k.assigned = Client.assigned
        /\ k.state = Client.state /\ k.dropped = Client.dropped /\ k.combined = Client.combined
        /\ k.handed = Client.handed /\ k.pending = Client.pending
    BY <2>1, BuildingFacts DEF ClientType
  <2>5. /\ k.partitions \subseteq Assignment(building) /\ k.forwarded \subseteq k.partitions
        /\ k.partitions # {} => k.queue
        /\ k.assigned => k.forwarded = Assignment(building)
    <3> HIDE DEF k
    <3> QED
      BY <2>1, <2>4, BuildingFacts DEF NewQueue
  <2> HIDE DEF k
  <2> QED
    BY <2>1, <2>2, <2>3, <2>4, <2>5, BuildingFacts, Builds
<1>2. CASE Abort /\ UNCHANGED clients
  <2>1. Building /\ UNCHANGED vars
    BY DEF NewQueue
  <2> QED
    BY <1>2, <2>1, BuildingFacts, AbortPInv
<1> QED
  BY <1>1, <1>2 DEF NewQueue

LEMMA GetPartitionPInv ==
    ASSUME IInv, Dealt, PInv, NEW p \in Partitions, GetPartition(p)
    PROVE  PInv'
<1> DEFINE k == [Client EXCEPT !.partitions = @ \cup {p}]
<1>1. CASE clients' = [clients EXCEPT ![building].partitions = @ \cup {p}] /\ UNCHANGED prepareVars
  <2>1. Building /\ UNCHANGED <<vars, prepareVars>>
    BY <1>1 DEF GetPartition, prepareVars
  <2>2. clients' = [clients EXCEPT ![building] = k]
    BY <1>1, <2>1, BuildingFacts
  <2>3. k \in ClientType
    BY <2>1, BuildingFacts DEF ClientType, GetPartition
  <2>4. /\ k.queue = Client.queue /\ k.partitions = Client.partitions \cup {p}
        /\ k.forwarded = Client.forwarded /\ k.assigned = Client.assigned
        /\ k.state = Client.state /\ k.dropped = Client.dropped /\ k.combined = Client.combined
        /\ k.handed = Client.handed /\ k.pending = Client.pending
    BY <2>1, BuildingFacts DEF ClientType
  <2>5. /\ k.partitions \subseteq Assignment(building) /\ k.forwarded \subseteq k.partitions
        /\ k.partitions # {} => k.queue
        /\ k.assigned => k.forwarded = Assignment(building)
    <3> HIDE DEF k
    <3> QED
      BY <2>1, <2>4, BuildingFacts DEF GetPartition
  <2> HIDE DEF k
  <2> QED
    BY <2>1, <2>2, <2>3, <2>4, <2>5, BuildingFacts, Builds
<1>2. CASE Abort /\ UNCHANGED clients
  <2>1. Building /\ UNCHANGED vars
    BY DEF GetPartition
  <2> QED
    BY <1>2, <2>1, BuildingFacts, AbortPInv
<1> QED
  BY <1>1, <1>2 DEF GetPartition

LEMMA ForwardPInv ==
    ASSUME IInv, Dealt, PInv, NEW p \in Partitions, Forward(p)
    PROVE  PInv'
<1> DEFINE k == [Client EXCEPT !.forwarded = @ \cup {p}]
<1>1. CASE clients' = [clients EXCEPT ![building].forwarded = @ \cup {p}] /\ UNCHANGED prepareVars
  <2>1. Building /\ UNCHANGED <<vars, prepareVars>>
    BY <1>1 DEF Forward, prepareVars
  <2>2. clients' = [clients EXCEPT ![building] = k]
    BY <1>1, <2>1, BuildingFacts
  <2>3. k \in ClientType
    BY <2>1, BuildingFacts DEF ClientType, Forward
  <2>4. /\ k.queue = Client.queue /\ k.partitions = Client.partitions
        /\ k.forwarded = Client.forwarded \cup {p} /\ k.assigned = Client.assigned
        /\ k.state = Client.state /\ k.dropped = Client.dropped /\ k.combined = Client.combined
        /\ k.handed = Client.handed /\ k.pending = Client.pending
    BY <2>1, BuildingFacts DEF ClientType
  <2>5. /\ k.partitions \subseteq Assignment(building) /\ k.forwarded \subseteq k.partitions
        /\ k.partitions # {} => k.queue
        /\ k.assigned => k.forwarded = Assignment(building)
    <3> HIDE DEF k
    <3> QED
      BY <2>1, <2>4, BuildingFacts DEF Forward
  <2> HIDE DEF k
  <2> QED
    BY <2>1, <2>2, <2>3, <2>4, <2>5, BuildingFacts, Builds
<1> QED
  BY <1>1 DEF Forward

LEMMA AssignPInv ==
    ASSUME IInv, Dealt, PInv, Assign
    PROVE  PInv'
<1> DEFINE k == [Client EXCEPT !.assigned = TRUE]
<1>1. CASE clients' = [clients EXCEPT ![building].assigned = TRUE] /\ UNCHANGED prepareVars
  <2>1. Building /\ UNCHANGED <<vars, prepareVars>>
    BY <1>1 DEF Assign, prepareVars
  <2>2. clients' = [clients EXCEPT ![building] = k]
    BY <1>1, <2>1, BuildingFacts
  <2>3. k \in ClientType
    BY <2>1, BuildingFacts DEF ClientType, Assign
  <2>4. /\ k.queue = Client.queue /\ k.partitions = Client.partitions
        /\ k.forwarded = Client.forwarded /\ k.assigned = TRUE
        /\ k.state = Client.state /\ k.dropped = Client.dropped /\ k.combined = Client.combined
        /\ k.handed = Client.handed /\ k.pending = Client.pending
    BY <2>1, BuildingFacts DEF ClientType
  <2>5. /\ k.partitions \subseteq Assignment(building) /\ k.forwarded \subseteq k.partitions
        /\ k.partitions # {} => k.queue
        /\ k.assigned => k.forwarded = Assignment(building)
    <3> HIDE DEF k
    <3> QED
      BY <2>1, <2>4, BuildingFacts DEF Assign
  <2> HIDE DEF k
  <2> QED
    BY <2>1, <2>2, <2>3, <2>4, <2>5, BuildingFacts, Builds
<1>2. CASE Abort /\ UNCHANGED clients
  <2>1. Building /\ UNCHANGED vars
    BY DEF Assign
  <2> QED
    BY <1>2, <2>1, BuildingFacts, AbortPInv
<1> QED
  BY <1>1, <1>2 DEF Assign

LEMMA PausePInv ==
    ASSUME IInv, Dealt, PInv, NEW p \in Partitions, Pause(p)
    PROVE  PInv'
<1> DEFINE k == [Client EXCEPT !.paused = @ \cup {p}]
<1>1. CASE clients' = [clients EXCEPT ![building].paused = @ \cup {p}] /\ UNCHANGED prepareVars
  <2>1. Building /\ UNCHANGED <<vars, prepareVars>>
    BY <1>1 DEF Pause, prepareVars
  <2>2. clients' = [clients EXCEPT ![building] = k]
    BY <1>1, <2>1, BuildingFacts
  <2>3. k \in ClientType
    BY <2>1, BuildingFacts DEF ClientType, Pause
  <2>4. /\ k.queue = Client.queue /\ k.partitions = Client.partitions
        /\ k.forwarded = Client.forwarded /\ k.assigned = Client.assigned
        /\ k.state = Client.state /\ k.dropped = Client.dropped /\ k.combined = Client.combined
        /\ k.handed = Client.handed /\ k.pending = Client.pending
    BY <2>1, BuildingFacts DEF ClientType
  <2>5. /\ k.partitions \subseteq Assignment(building) /\ k.forwarded \subseteq k.partitions
        /\ k.partitions # {} => k.queue
        /\ k.assigned => k.forwarded = Assignment(building)
    <3> HIDE DEF k
    <3> QED
      BY <2>1, <2>4, BuildingFacts DEF Pause
  <2> HIDE DEF k
  <2> QED
    BY <2>1, <2>2, <2>3, <2>4, <2>5, BuildingFacts, Builds
<1>2. CASE Abort /\ UNCHANGED clients
  <2>1. Building /\ UNCHANGED vars
    BY DEF Pause
  <2> QED
    BY <1>2, <2>1, BuildingFacts, AbortPInv
<1> QED
  BY <1>1, <1>2 DEF Pause

-----------------------------------------------------------------------------
\* The client library, and the end of a consumer.

LEMMA ClientFacts ==
    ASSUME PInv, NEW c \in DOMAIN clients
    PROVE  /\ clients[c] \in ClientType /\ clients[c].pending \in Nat /\ clients[c].dropped \in 0..5
           /\ clients[c].handed \in BOOLEAN /\ clients[c].state \in States
           /\ Nested(clients[c], c) /\ Used(clients[c], c)
           /\ clients[c].assigned \/ clients[c].handed \/ clients[c].state \in {"dropping", "closed"}
                 => phase \in {"build", "polling", "dropping"}
<1>1. clients[c] \in ClientType /\ Nested(clients[c], c) /\ Used(clients[c], c)
  BY DEF PInv, ClientsWell
<1>2. /\ clients[c].pending \in Nat /\ clients[c].dropped \in 0..5
      /\ clients[c].handed \in BOOLEAN /\ clients[c].state \in States
  BY <1>1 DEF ClientType
<1>3. phase \notin {"build", "polling", "dropping"} => clients[c] \in {NoClient, OpenClient}
  BY DEF PInv, PhaseWell, Phases
<1>4. \A k \in {NoClient, OpenClient} :
          ~k.assigned /\ ~k.handed /\ k.state \notin {"dropping", "closed"}
  BY DEF NoClient, OpenClient
<1> QED
  BY <1>1, <1>2, <1>3, <1>4

LEMMA FetchPInv ==
    ASSUME IInv, Dealt, PInv, NEW c \in DOMAIN clients, Fetch(c)
    PROVE  PInv'
<1>1. /\ UNCHANGED <<vars, prepareVars>> /\ clients[c].state \in {"open", "dropping"}
      /\ phase \in {"build", "polling", "dropping"}
  BY ClientFacts DEF Fetch
<1> DEFINE f == [clients[c] EXCEPT !.fetched = TRUE]
           g == [clients[c] EXCEPT !.combined = TRUE]
<1>2. f \in ClientType /\ g \in ClientType
  BY ClientFacts DEF ClientType
<1>3. \A k \in {f, g} :
         /\ k.state = clients[c].state /\ k.queue = clients[c].queue
         /\ k.partitions = clients[c].partitions /\ k.forwarded = clients[c].forwarded
         /\ k.assigned = clients[c].assigned /\ k.dropped = clients[c].dropped
         /\ k.handed = clients[c].handed /\ k.pending = clients[c].pending
  BY ClientFacts DEF ClientType
<1>4. f.combined = clients[c].combined
  BY ClientFacts DEF ClientType
<1>5. clients' = [clients EXCEPT ![c] = f] \/ clients' = [clients EXCEPT ![c] = g]
  BY DEF Fetch
<1>6. clients' = [clients EXCEPT ![c] = g] => clients[c].state = "dropping" \/ clients' = [clients EXCEPT ![c] = f]
  <2>1. clients[c].state = "open" => \A p \in Assignment(c) : p \in clients[c].forwarded
    BY <1>1, ClientFacts DEF Used, Fetch
  <2> QED
    BY <1>1, <2>1 DEF Fetch
<1> HIDE DEF f, g
<1>7. Nested(f, c) /\ Nested(g, c) /\ Used(f, c)
  BY <1>1, <1>3, <1>4, ClientFacts DEF Nested, Used
<1>8. clients[c].state = "dropping" => Used(g, c)
  BY <1>3, ClientFacts DEF Used
<1> QED
  BY <1>1, <1>2, <1>3, <1>5, <1>6, <1>7, <1>8, OneChanges

LEMMA ExtractPInv ==
    ASSUME IInv, Dealt, PInv, NEW c \in DOMAIN clients, Extract(c)
    PROVE  PInv'
<1>1. /\ UNCHANGED <<vars, prepareVars>> /\ phase = "polling"
      /\ clients[c].state = "open" /\ ~clients[c].handed
  BY DEF Extract, Polls
<1>2. PICK n \in 1..BatchSize :
         clients' = [clients EXCEPT ![c].pending = n, ![c].fetched = FALSE]
  BY DEF Extract
<1>3. n \in Nat
  BY ConsumersAssumption
<1> DEFINE k == [clients[c] EXCEPT !.pending = n, !.fetched = FALSE]
<1>4. k \in ClientType
  BY <1>3, ClientFacts DEF ClientType
<1>5. /\ k.state = "open" /\ k.queue = clients[c].queue
      /\ k.partitions = clients[c].partitions /\ k.forwarded = clients[c].forwarded
      /\ k.assigned = clients[c].assigned /\ k.dropped = clients[c].dropped
      /\ k.handed = clients[c].handed /\ k.combined = clients[c].combined
  BY <1>1, ClientFacts DEF ClientType
<1>6. clients' = [clients EXCEPT ![c] = k]
  BY <1>2, ClientFacts DEF PInv, ClientsWell, ClientType
<1> HIDE DEF k
<1>7. Used(k, c) /\ clients[c].dropped = 0
  BY <1>1, <1>5, ClientFacts DEF Used
<1>8. Nested(k, c)
  BY <1>5, <1>7, ClientFacts DEF Nested
<1> QED
  BY <1>1, <1>4, <1>5, <1>6, <1>7, <1>8, OneChanges

LEMMA HandPInv ==
    ASSUME IInv, Dealt, PInv, NEW c \in DOMAIN clients, Hand(c)
    PROVE  PInv'
<1>1. /\ UNCHANGED <<vars, prepareVars>> /\ phase = "polling"
      /\ clients[c].state = "open" /\ clients[c].pending > 0
      /\ clients' = [clients EXCEPT ![c].pending = @ - 1, ![c].handed = TRUE]
  BY DEF Hand, Polls
<1> DEFINE k == [clients[c] EXCEPT !.pending = @ - 1, !.handed = TRUE]
<1>2. clients[c].pending - 1 \in Nat
  BY <1>1, ClientFacts
<1>3. k \in ClientType
  BY <1>2, ClientFacts DEF ClientType
<1>4. /\ k.state = "open" /\ k.queue = clients[c].queue
      /\ k.partitions = clients[c].partitions /\ k.forwarded = clients[c].forwarded
      /\ k.assigned = clients[c].assigned /\ k.dropped = clients[c].dropped
      /\ k.combined = clients[c].combined
  BY <1>1, ClientFacts DEF ClientType
<1>5. clients' = [clients EXCEPT ![c] = k]
  BY <1>1, ClientFacts DEF PInv, ClientsWell, ClientType
<1> HIDE DEF k
<1>6. Used(k, c) /\ clients[c].dropped = 0
  BY <1>1, <1>4, ClientFacts DEF Used
<1>7. Nested(k, c)
  BY <1>4, <1>6, ClientFacts DEF Nested
<1> QED
  BY <1>1, <1>3, <1>4, <1>5, <1>6, <1>7, OneChanges

LEMMA DropMessagePInv ==
    ASSUME IInv, Dealt, PInv, NEW c \in DOMAIN clients, DropMessage(c)
    PROVE  PInv'
<1>1. /\ UNCHANGED <<vars, prepareVars>> /\ clients[c].handed
      /\ clients' = [clients EXCEPT ![c].handed = FALSE]
  BY DEF DropMessage
<1>2. phase = "polling" /\ clients[c].state = "open"
  BY <1>1, ClientFacts DEF Used
<1> DEFINE k == [clients[c] EXCEPT !.handed = FALSE]
<1>3. k \in ClientType
  BY ClientFacts DEF ClientType
<1>4. /\ k.state = clients[c].state /\ k.queue = clients[c].queue
      /\ k.partitions = clients[c].partitions /\ k.forwarded = clients[c].forwarded
      /\ k.assigned = clients[c].assigned /\ k.dropped = clients[c].dropped
      /\ k.combined = clients[c].combined /\ k.pending = clients[c].pending /\ k.handed = FALSE
  BY ClientFacts DEF ClientType
<1>5. clients' = [clients EXCEPT ![c] = k]
  BY <1>1
<1> HIDE DEF k
<1>6. Used(k, c) /\ Nested(k, c)
  BY <1>2, <1>4, ClientFacts DEF Used, Nested
<1> QED
  BY <1>1, <1>2, <1>3, <1>4, <1>5, <1>6, OneChanges

LEMMA BeginDropPInv ==
    ASSUME IInv, Dealt, PInv, NEW c \in DOMAIN clients, BeginDrop(c)
    PROVE  PInv'
<1>1. /\ UNCHANGED <<vars, prepareVars>> /\ phase \in {"polling", "dropping"}
      /\ clients[c].state = "open" /\ (phase = "polling" => ~clients[c].handed)
      /\ clients' = [clients EXCEPT ![c].state = "dropping"]
  BY DEF BeginDrop, Polls
<1> DEFINE k == [clients[c] EXCEPT !.state = "dropping"]
<1>2. k \in ClientType
  BY ClientFacts DEF ClientType, States
<1>3. /\ k.state = "dropping" /\ k.queue = clients[c].queue
      /\ k.partitions = clients[c].partitions /\ k.forwarded = clients[c].forwarded
      /\ k.dropped = clients[c].dropped
      /\ k.pending = clients[c].pending /\ k.handed = clients[c].handed
  BY ClientFacts DEF ClientType
<1>4. clients' = [clients EXCEPT ![c] = k]
  BY <1>1
<1> HIDE DEF k
<1>5. Used(k, c) /\ Nested(k, c)
  BY <1>1, <1>3, ClientFacts DEF Used, Nested
<1> QED
  BY <1>1, <1>2, <1>4, <1>5, OneChanges

LEMMA DropPartPInv ==
    ASSUME IInv, Dealt, PInv, NEW c \in DOMAIN clients, DropPart(c)
    PROVE  PInv'
<1> DEFINE n == clients[c].dropped + 1
           part == DropOrder[n]
           k == [Without(clients[c], part) EXCEPT !.dropped = n]
           old == clients[c]
<1>1. /\ UNCHANGED <<vars, prepareVars>> /\ old.state \in {"dropping", "closed"} /\ old.dropped < 5
      /\ clients' = [clients EXCEPT ![c] = k]
  BY DEF DropPart, DropOrder
<1>2. old.state = "dropping" /\ n \in 1..5 /\ phase \in {"build", "polling", "dropping"}
  BY <1>1, ClientFacts DEF Used
<1>3. \/ n = 1 /\ part = "pending"
      \/ n = 2 /\ part = "forwarding"
      \/ n = 3 /\ part = "partitions"
      \/ n = 4 /\ part = "queue"
      \/ n = 5 /\ part = "client"
  <2> HIDE DEF n
  <2>1. n = 1 \/ n = 2 \/ n = 3 \/ n = 4 \/ n = 5
    BY <1>2
  <2>2. /\ DropOrder[1] = "pending" /\ DropOrder[2] = "forwarding" /\ DropOrder[3] = "partitions"
        /\ DropOrder[4] = "queue" /\ DropOrder[5] = "client"
    BY DEF DropOrder
  <2>3. part = DropOrder[n]
    OBVIOUS
  <2> HIDE DEF part
  <2> QED
    BY <2>1, <2>2, <2>3
<1> HIDE DEF part, n
<1>4. k \in ClientType
  <2>1. old \in ClientType
    BY ClientFacts
  <2> HIDE DEF old
  <2>2. Without(old, part) \in ClientType
    BY <1>3, <2>1 DEF ClientType, Without, States
  <2> DEFINE rest == Without(old, part)
  <2> HIDE DEF rest
  <2>3. [rest EXCEPT !.dropped = n] \in ClientType
    BY <1>2, <2>2 DEF ClientType, rest
  <2> QED
    BY <2>3 DEF rest, old
<1>5. /\ k.dropped = n /\ k.handed = old.handed
      /\ k.state = IF n = 5 THEN "closed" ELSE "dropping"
      /\ k.pending = IF n = 1 THEN 0 ELSE old.pending
      /\ k.forwarded = IF n = 2 THEN {} ELSE old.forwarded
      /\ k.partitions = IF n = 3 THEN {} ELSE old.partitions
      /\ k.queue = IF n = 4 THEN FALSE ELSE old.queue
  <2>1. old \in ClientType /\ n \in 1..5 /\ old.state = "dropping"
    BY <1>2, ClientFacts
  <2> DEFINE rest == Without(old, part)
  <2>2. k = [rest EXCEPT !.dropped = n]
    OBVIOUS
  <2> HIDE DEF old, k
  <2>3. rest \in ClientType
    BY <1>3, <2>1 DEF ClientType, Without, States
  <2>4. /\ rest.handed = old.handed
        /\ rest.state = IF n = 5 THEN "closed" ELSE "dropping"
        /\ rest.pending = IF n = 1 THEN 0 ELSE old.pending
        /\ rest.forwarded = IF n = 2 THEN {} ELSE old.forwarded
        /\ rest.partitions = IF n = 3 THEN {} ELSE old.partitions
        /\ rest.queue = IF n = 4 THEN FALSE ELSE old.queue
    <3>1. CASE n = 1
      BY <1>3, <2>1, <3>1 DEF ClientType, Without
    <3>2. CASE n = 2
      BY <1>3, <2>1, <3>2 DEF ClientType, Without
    <3>3. CASE n = 3
      BY <1>3, <2>1, <3>3 DEF ClientType, Without
    <3>4. CASE n = 4
      BY <1>3, <2>1, <3>4 DEF ClientType, Without
    <3>5. CASE n = 5
      BY <1>3, <2>1, <3>5 DEF ClientType, Without
    <3> QED
      BY <1>3, <3>1, <3>2, <3>3, <3>4, <3>5
  <2> HIDE DEF rest
  <2> QED
    BY <2>1, <2>2, <2>3, <2>4 DEF ClientType
<1>6. n = old.dropped + 1 /\ old.dropped \in Nat
  BY ClientFacts DEF n
<1> HIDE DEF k
<1>7. Nested(k, c)
  BY <1>2, <1>5, <1>6, ClientFacts DEF Nested
<1>8. Used(k, c)
  BY <1>2, <1>5, ClientFacts DEF Used
<1> QED
  BY <1>1, <1>2, <1>4, <1>7, <1>8, OneChanges

-----------------------------------------------------------------------------
\* The steps of prepare itself.

\* Until the queues are built every client is unused, whatever is assigned.
LEMMA Unused ==
    ASSUME input' = input, clients' \in [0..(input.consumers - 1) -> {NoClient, OpenClient}]
    PROVE  ClientsWell'
<1>1. ClientType' = ClientType
  BY DEF ClientType, Partitions, Ranges
<1>2. NoClient \in ClientType /\ OpenClient \in ClientType
  <2>1. NoClient \in ClientType
    BY DEF NoClient, ClientType, States
  <2>2. OpenClient \in ClientType
    BY <2>1 DEF OpenClient, ClientType, States
  <2> QED
    BY <2>1, <2>2
<1>3. \A c : /\ Nested(NoClient, c)' /\ Nested(OpenClient, c)'
             /\ Used(NoClient, c)' /\ Used(OpenClient, c)'
  BY DEF NoClient, OpenClient, Nested, Used
<1>4. clients' \in [0..(input.consumers - 1) -> ClientType]
  BY <1>2
<1>5. ASSUME NEW c \in DOMAIN clients' PROVE Nested(clients[c], c)' /\ Used(clients[c], c)'
  <2>1. clients'[c] = NoClient \/ clients'[c] = OpenClient
    OBVIOUS
  <2>2. \A k : Nested(k, c)' /\ k = clients'[c] => Nested(clients[c], c)'
    BY DEF Nested
  <2>3. \A k : Used(k, c)' /\ k = clients'[c] => Used(clients[c], c)'
    BY DEF Used, NoClient
  <2> QED
    BY <1>3, <2>1, <2>2, <2>3
<1> QED
  BY <1>1, <1>4, <1>5 DEF ClientsWell

LEMMA UnusedSoFar ==
    ASSUME PInv, phase \in {"open", "check", "assign", "create"}
    PROVE  clients \in [0..(input.consumers - 1) -> {NoClient, OpenClient}]
BY DEF PInv, ClientsWell, PhaseWell

LEMMA OpenPInv == IInv /\ Dealt /\ PInv /\ Open => PInv'
<1> SUFFICES ASSUME IInv, Dealt, PInv, Open PROVE PInv'
  OBVIOUS
<1>1. phase = "open" /\ UNCHANGED vars /\ input' = input
  BY DEF Open, vars
<1>2. CASE clients' = [clients EXCEPT ![0].state = "open"] /\ phase' = "check" /\ UNCHANGED building
  <2>1. 0 \in DOMAIN clients
    BY CallFacts DEF IInv, TypeOK, PInv, ClientsWell
  <2>2. [clients[0] EXCEPT !.state = "open"] = OpenClient
    BY <1>1, <2>1, UnusedSoFar DEF NoClient, OpenClient
  <2>3. clients' = [clients EXCEPT ![0] = OpenClient]
    BY <1>2, <2>2
  <2>4. clients' \in [0..(input.consumers - 1) -> {NoClient, OpenClient}]
    BY <1>1, <2>3, UnusedSoFar
  <2>5. ClientsWell'
    BY <1>1, <2>4, Unused
  <2>6. building = 1 /\ clients'[0].state = "open"
    BY <1>1, <2>1, <2>3 DEF PInv, PhaseWell, OpenClient, NoClient
  <2>7. \A c \in DOMAIN clients' : c < 1 => c = 0
    BY <2>4
  <2>8. PhaseWell'
    BY <1>2, <2>4, <2>6, <2>7 DEF PhaseWell, Phases, NoClient, OpenClient
  <2> QED
    BY <2>5, <2>8 DEF PInv
<1>3. CASE Abort /\ UNCHANGED clients
  BY <1>1, <1>3, AbortPInv
<1> QED
  BY <1>2, <1>3 DEF Open

LEMMA CheckPInv == IInv /\ Dealt /\ PInv /\ Check => PInv'
<1> SUFFICES ASSUME IInv, Dealt, PInv, Check PROVE PInv'
  OBVIOUS
<1>1. phase = "check" /\ UNCHANGED <<vars, clients>> /\ input' = input
  BY DEF Check, vars
<1>2. CASE Abort
  BY <1>1, <1>2, AbortPInv
<1>3. CASE phase' = "assign" /\ UNCHANGED building
  <2>1. ClientsWell'
    BY <1>1, UnusedSoFar, Unused
  <2>2. PhaseWell'
    BY <1>1, <1>3 DEF PInv, PhaseWell, Phases, NoClient, OpenClient
  <2> QED
    BY <2>1, <2>2 DEF PInv
<1> QED
  BY <1>2, <1>3 DEF Check

LEMMA DividePInv == IInv /\ Dealt /\ PInv /\ Divide => PInv'
<1> SUFFICES ASSUME IInv, Dealt, PInv, Divide PROVE PInv'
  OBVIOUS
<1>1. /\ phase \in {"open", "assign"} /\ phase' = phase /\ building' = building
      /\ clients' = clients /\ input' = input
  BY DEF Divide, AssignRange, AssignShard, prepareVars
<1>2. ClientsWell'
  BY <1>1, UnusedSoFar, Unused
<1>3. PhaseWell'
  BY <1>1 DEF PInv, PhaseWell, Phases, NoClient, OpenClient
<1> QED
  BY <1>2, <1>3 DEF PInv

LEMMA CreateConsumersPInv == IInv /\ Dealt /\ PInv /\ CreateConsumers => PInv'
<1> SUFFICES ASSUME IInv, Dealt, PInv, CreateConsumers PROVE PInv'
  OBVIOUS
<1>1. /\ phase = "assign" /\ phase' = "create" /\ building' = building
      /\ UNCHANGED vars /\ clients' = clients /\ input' = input /\ Returned
  BY DEF CreateConsumers, vars
<1>2. ClientsWell'
  BY <1>1, UnusedSoFar, Unused
<1>3. PhaseWell'
  BY <1>1, SameDivision DEF PInv, PhaseWell, Phases, NoClient, OpenClient
<1> QED
  BY <1>2, <1>3 DEF PInv

LEMMA CreateConsumerPInv == IInv /\ Dealt /\ PInv /\ CreateConsumer => PInv'
<1> SUFFICES ASSUME IInv, Dealt, PInv, CreateConsumer PROVE PInv'
  OBVIOUS
<1>1. phase = "create" /\ UNCHANGED vars /\ input' = input /\ building \in Consumers
  BY DEF CreateConsumer, vars
<1>2. CASE /\ clients' = [clients EXCEPT ![building].state = "open"]
           /\ building' = building + 1 /\ UNCHANGED phase
  <2>1. building \in DOMAIN clients /\ building \in Nat
    BY <1>1, ConsumersFit DEF PInv, ClientsWell, PhaseWell
  <2>2. [clients[building] EXCEPT !.state = "open"] = OpenClient
    BY <1>1, <2>1, UnusedSoFar DEF NoClient, OpenClient
  <2>3. clients' = [clients EXCEPT ![building] = OpenClient]
    BY <1>2, <2>2
  <2>4. clients' \in [0..(input.consumers - 1) -> {NoClient, OpenClient}]
    BY <1>1, <2>3, UnusedSoFar
  <2>5. ClientsWell'
    BY <1>1, <2>4, Unused
  <2>6. ASSUME NEW c \in DOMAIN clients', c < building + 1 PROVE clients'[c].state = "open"
    <3>1. c \in DOMAIN clients /\ c \in Nat
      BY <2>4, UnusedSoFar, <1>1
    <3>2. c = building \/ c < building
      BY <2>1, <2>6, <3>1
    <3>3. OpenClient.state = "open"
      BY DEF OpenClient, NoClient
    <3>4. c < building => clients[c].state = "open"
      BY <1>1, <3>1 DEF PInv, PhaseWell
    <3> QED
      BY <2>1, <2>3, <3>1, <3>2, <3>3, <3>4
  <2>7. Returned' /\ building' \in Nat /\ phase' = "create"
    BY <1>1, <1>2, <2>1, SameDivision DEF PInv, PhaseWell
  <2>8. PhaseWell'
    BY <1>2, <2>4, <2>6, <2>7 DEF PhaseWell, Phases, NoClient, OpenClient
  <2> QED
    BY <2>5, <2>8 DEF PInv
<1>3. CASE Abort /\ UNCHANGED clients
  BY <1>1, <1>3, AbortPInv
<1> QED
  BY <1>2, <1>3 DEF CreateConsumer

LEMMA AssignConsumersPInv == IInv /\ Dealt /\ PInv /\ AssignConsumers => PInv'
<1> SUFFICES ASSUME IInv, Dealt, PInv, AssignConsumers PROVE PInv'
  OBVIOUS
<1>1. /\ phase = "create" /\ phase' = "build" /\ building' = 0 /\ building \notin Consumers
      /\ UNCHANGED vars /\ clients' = clients /\ input' = input
  BY DEF AssignConsumers, vars
<1>2. ClientsWell'
  BY <1>1, UnusedSoFar, Unused
<1>3. \A c \in Consumers : clients[c].state = "open"
  <2>1. building \in Nat /\ Returned
    BY <1>1 DEF PInv, PhaseWell
  <2>2. \A c \in Consumers : c < building
    BY <1>1, <2>1, ConsumersAreNumbered
  <2>3. Consumers \subseteq DOMAIN clients
    BY ConsumersFit DEF PInv, ClientsWell
  <2> QED
    BY <1>1, <2>2, <2>3 DEF PInv, PhaseWell
<1>4. PhaseWell'
  BY <1>1, <1>3, SameDivision DEF PInv, PhaseWell, Phases
<1> QED
  BY <1>2, <1>4 DEF PInv

LEMMA BuildNextPInv == IInv /\ Dealt /\ PInv /\ BuildNext => PInv'
<1> SUFFICES ASSUME IInv, Dealt, PInv, BuildNext PROVE PInv'
  OBVIOUS
<1>1. /\ phase = "build" /\ phase' \in {"build", "polling"} /\ building' = building + 1
      /\ UNCHANGED vars /\ clients' = clients /\ input' = input
  BY DEF BuildNext, Building, vars
<1>2. ASSUME NEW c \in DOMAIN clients PROVE Used(clients[c], c)' /\ Nested(clients[c], c)'
  <2>1. Used(clients[c], c) /\ Nested(clients[c], c) /\ Assignment(c)' = Assignment(c)
    BY <1>1, SameDivision DEF PInv, ClientsWell
  <2>2. ~(clients[c].handed \/ clients[c].pending > 0)
    BY <1>1, <2>1 DEF Used
  <2>3. Used(clients[c], c)'
    BY <1>1, <2>1, <2>2 DEF Used, NoClient
  <2>4. Nested(clients[c], c)'
    BY <1>1, <2>1 DEF Nested
  <2> QED
    BY <2>3, <2>4
<1>3. ClientsWell'
  BY <1>1, <1>2, SameDivision DEF PInv, ClientsWell
<1>4. PhaseWell'
  BY <1>1, SameDivision DEF PInv, PhaseWell, Phases
<1> QED
  BY <1>3, <1>4 DEF PInv

LEMMA NextPInv == IInv /\ Dealt /\ PInv /\ [PrepareNext]_allVars => PInv'
<1> SUFFICES ASSUME IInv, Dealt, PInv, [PrepareNext]_allVars PROVE PInv'
  OBVIOUS
<1>1. CASE UNCHANGED allVars
  <2>1. UNCHANGED vars /\ phase' = phase /\ building' = building /\ clients' = clients /\ input' = input
    BY <1>1 DEF allVars, prepareVars, vars
  <2>2. ASSUME NEW c \in DOMAIN clients PROVE Used(clients[c], c)' /\ Nested(clients[c], c)'
    BY <2>1, SameDivision DEF PInv, ClientsWell, Used, Nested, NoClient
  <2>3. ClientsWell'
    BY <2>1, <2>2, SameDivision DEF PInv, ClientsWell
  <2>4. PhaseWell'
    BY <2>1, SameDivision DEF PInv, PhaseWell
  <2> QED
    BY <2>3, <2>4 DEF PInv
<1>2. CASE Construct
  BY <1>2, NewQueuePInv, AssignPInv, BuildNextPInv, GetPartitionPInv, ForwardPInv, PausePInv
     DEF Construct
<1>3. CASE \E c \in DOMAIN clients : Use(c) \/ BeginDrop(c) \/ DropPart(c)
  BY <1>3, FetchPInv, ExtractPInv, HandPInv, DropMessagePInv, BeginDropPInv, DropPartPInv DEF Use
<1> QED
  BY <1>1, <1>2, <1>3, OpenPInv, CheckPInv, DividePInv, CreateConsumersPInv, CreateConsumerPInv,
     AssignConsumersPInv DEF PrepareNext, PrepareOver

\* prepare divides the ranges, whatever it does besides: what holds of the
\* division holds of the consumers it is for.
THEOREM PrepareDivides == PrepareSpec => Spec
<1>1. PrepareInit => Init
  BY DEF PrepareInit
<1> QED
  BY <1>1, StepsDivide, PTL DEF PrepareSpec, Spec

\* Nothing that refers into a client's memory is left when the client goes,
\* wherever prepare failed and whatever a poller had extracted; and until then no
\* record reaches the queue of events.
THEOREM ClientsGoLast == PrepareSpec => []NothingOutlivesItsClient
<1>1. PInv => NothingOutlivesItsClient
  <2> SUFFICES ASSUME PInv, NEW c \in DOMAIN clients
               PROVE  /\ clients[c].state \in {"none", "closed"} => ~Referred(c)
                      /\ clients[c].forwarded # {} => clients[c].queue
                      /\ clients[c].combined => clients[c].state \in {"dropping", "closed"}
    BY DEF NothingOutlivesItsClient
  <2>1. CASE clients[c].state = "none"
    <3>1. clients[c] = NoClient
      BY <2>1, ClientFacts DEF Used
    <3> QED
      BY <3>1 DEF NoClient, Referred
  <2>2. CASE clients[c].state = "closed"
    <3>1. /\ clients[c].dropped = 5 /\ ~clients[c].handed
      BY <2>2, ClientFacts DEF Used
    <3>2. clients[c].pending = 0 /\ clients[c].forwarded = {} /\ clients[c].partitions = {}
          /\ ~clients[c].queue
      BY <3>1, ClientFacts DEF Nested
    <3> QED
      BY <2>2, <3>1, <3>2 DEF Referred
  <2>3. CASE clients[c].state \in {"open", "dropping"}
    BY <2>3, ClientFacts DEF Used, Nested
  <2> QED
    BY <2>1, <2>2, <2>3, ClientFacts DEF States
<1>2. IInv /\ Dealt /\ PInv /\ [PrepareNext]_allVars => PInv'
  BY NextPInv
<1>3. Spec => [](IInv /\ Dealt)
  BY InitDealt, NextDealt, Invariant, PTL DEF Spec
<1> QED
  BY <1>1, <1>2, <1>3, InitPInv, PrepareDivides, PTL DEF PrepareSpec
=============================================================================
