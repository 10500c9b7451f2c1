--------------------------- MODULE AdmissionBase ---------------------------
(***************************************************************************)
(* What the admission budget of jkq counts: Kafka records, each retained   *)
(* by one poller at a number of bytes, against the limits of               *)
(* RuntimeLimits (src/src/cli.rs) and the optional global count limit.     *)
(* Shared by the specification of the budget (AdmissionSpec) and by its    *)
(* implementation on three atomic counters (Admission).                    *)
(***************************************************************************)
EXTENDS Integers, FiniteSets

CONSTANTS
    Records,     \* the records the pollers receive
    Pollers,     \* the poller threads
    Owner,       \* the poller that receives a record
    Size,        \* the bytes a record retains while it is in flight
    MaxRecords,  \* limits.max_inflight_records
    MaxBytes,    \* limits.max_inflight_bytes
    HasLimit,    \* whether --count was given
    CountLimit,  \* its value, meaningless otherwise
    UsizeMax     \* the largest value of the counters' machine type

ASSUME RecordsAssumption == IsFiniteSet(Records)
ASSUME OwnerAssumption == Owner \in [Records -> Pollers]
ASSUME LimitsAssumption ==
    /\ UsizeMax \in Nat
    /\ MaxRecords \in 1..UsizeMax
    /\ MaxBytes \in 1..UsizeMax
    /\ HasLimit \in BOOLEAN
    /\ CountLimit \in 1..UsizeMax
ASSUME SizeAssumption == Size \in [Records -> 0..UsizeMax]

(***************************************************************************)
(* The bytes a set of records retains, as the number of its bytes: <<r, i>>*)
(* is the i-th byte of r. Counting them, rather than folding Size over S,  *)
(* makes the laws of Cardinality the laws of Bytes.                        *)
(***************************************************************************)
BytesOf(S) == {b \in Records \X (1..UsizeMax) : b[1] \in S /\ b[2] <= Size[b[1]]}
Bytes(S) == Cardinality(BytesOf(S))

Oversize(r) == Size[r] > MaxBytes

(***************************************************************************)
(* The byte limit of the documentation: the records in flight fit it, or a *)
(* record larger than the whole limit is in flight and retains every byte. *)
(***************************************************************************)
Fits(S) ==
    \/ Bytes(S) <= MaxBytes
    \/ \E r \in S : Oversize(r) /\ Bytes(S) = Size[r]
=============================================================================
