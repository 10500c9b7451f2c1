---------------------------- MODULE PayloadPool ----------------------------
(***************************************************************************)
(* PayloadBuffers (src/src/kafka.rs): the spare vectors a poller keeps to  *)
(* copy payloads into. A copy takes one, and a record that is released     *)
(* brings back one, which need not be the same: workers swap source and    *)
(* output vectors, and a vector may grow on its way.                       *)
(***************************************************************************)
EXTENDS Integers, Sequences, FiniteSets

CONSTANTS
    MaxRecords,  \* max_records
    MaxBytes,    \* max_bytes
    MaxBuffer,   \* max_buffer_capacity
    Chunks,      \* pieces of data a vector may hold
    Capacities   \* capacities the allocator may give to a vector that grows

ASSUME PoolAssumption ==
    /\ MaxRecords \in Nat \ {0} /\ MaxBytes \in Nat \ {0}
    \* Each is the source byte budget or a constant, 16 KiB below 1 MiB.
    /\ MaxBuffer \in 1..MaxBytes
    /\ Capacities \subseteq Nat

VARIABLES
    free,     \* spare vectors, taken and returned at the end
    capacity  \* what the pool takes for the sum of their capacities

poolVars == <<free, capacity>>

Buffer == [capacity : Nat, data : Seq(Chunks)]

NewBuffer == [capacity |-> 0, data |-> <<>>]

\* Vec::clear keeps the allocation.
Cleared(buffer) == [buffer EXCEPT !.data = <<>>]

\* The outcomes of appending a chunk of some length to an empty vector.
Filled(buffer, chunk, length) ==
    {[capacity |-> c, data |-> Append(buffer.data, chunk)] :
        c \in IF length <= buffer.capacity THEN {buffer.capacity}
                                           ELSE {c \in Capacities : c >= length}}

PoolInit ==
    /\ free = <<>>
    /\ capacity = 0

\* A large source gets a vector of its own.
Spare(length) ==
    IF length > MaxBuffer \/ free = <<>> THEN NewBuffer ELSE free[Len(free)]

\* Mutant: the vector goes out, its capacity stays on the account.
CopyUncounted(length) ==
    /\ free' = IF length > MaxBuffer THEN free ELSE SubSeq(free, 1, Len(free) - 1)
    /\ UNCHANGED capacity

Copy(length) ==
    /\ free' = IF length > MaxBuffer THEN free ELSE SubSeq(free, 1, Len(free) - 1)
    /\ capacity' = capacity - Spare(length).capacity

Keeps(buffer) ==
    /\ buffer.capacity # 0
    /\ buffer.capacity <= MaxBuffer
    /\ Len(free) # MaxRecords
    /\ buffer.capacity <= MaxBytes - capacity

Recycle(buffer) ==
    IF Keeps(buffer)
    THEN /\ free' = Append(free, Cleared(buffer))
         /\ capacity' = capacity + buffer.capacity
    ELSE UNCHANGED poolVars

PoolNext ==
    \/ \E length \in Nat : Copy(length)
    \/ \E buffer \in Buffer : Recycle(buffer)

\* Any copies and recycled vectors in any order.
PoolSpec == PoolInit /\ [][PoolNext]_poolVars

\* The units of capacity of the spare vectors.
Units == {u \in (DOMAIN free) \X (1..MaxBuffer) : u[2] <= free[u[1]].capacity}

\* The counter is exactly the capacity kept, although every vector that comes
\* back was taken, grown or swapped elsewhere; so it never wraps in copy, nor
\* its difference to max_bytes in recycle. The pool stays within both limits, and
\* no spare vector has data that a later record would be appended to.
PoolExact ==
    /\ capacity \in 0..MaxBytes /\ capacity = Cardinality(Units)
    /\ Len(free) <= MaxRecords
    /\ \A i \in DOMAIN free :
          /\ free[i].capacity \in 1..MaxBuffer
          /\ free[i].data = <<>>
=============================================================================
