----------------------------- MODULE Admission -----------------------------
(***************************************************************************)
(* SharedAdmission (src/src/runtime/state.rs): the budget every poller     *)
(* thread shares, kept in three atomic counters. try_reserve takes a       *)
(* record slot, then the record's bytes, then one unit of the count limit, *)
(* each by an atomic read-modify-write of its own, and gives back what it  *)
(* took when a later step refuses; release gives back a batch's records    *)
(* and then its bytes. Other pollers run between any two of these steps.   *)
(***************************************************************************)
EXTENDS AdmissionBase

VARIABLES
    records,    \* SharedAdmission.records
    bytes,      \* SharedAdmission.bytes
    admitted,   \* SharedAdmission.admitted
    stage,      \* where each record is in its poller's loop
    stopping,   \* poll_loop's local of the same name, per poller
    underflow   \* a call of release returned its accounting error

vars == <<records, bytes, admitted, stage, stopping, underflow>>

(***************************************************************************)
(* A record is at its source, then its poller's pending record. A call of  *)
(* try_reserve takes it through "slot" and "charged" to "held", or back to *)
(* "pending" through "refund" (bytes and slot to give back) and "unslot"   *)
(* (slot to give back). A release takes it through "leaving" to "gone". A  *)
(* poller that stops discards its pending record.                          *)
(***************************************************************************)
Stages == {"source", "pending", "slot", "charged", "refund", "unslot",
           "held", "leaving", "gone", "discarded"}

At(names) == {r \in Records : stage[r] \in names}
Of(p) == {r \in Records : Owner[r] = p}

\* What the counters should count: the records that have taken a slot, those
\* whose bytes are charged, and those the count limit has been spent on.
Slotted == At({"slot", "charged", "refund", "unslot", "held"})
Charged == At({"charged", "refund", "held", "leaving"})
InFlight == At({"held"})
Released == At({"leaving", "gone"})

\* A poller thread is inside a call of try_reserve or release.
Busy(p) == Of(p) \intersect At({"slot", "charged", "refund", "unslot", "leaving"}) # {}

\* A record moves, and a set of records moves, to a stage.
Move(r, to) == stage' = [stage EXCEPT ![r] = to]
MoveAll(S, to) == stage' = [r \in Records |-> IF r \in S THEN to ELSE stage[r]]

\* usize arithmetic: fetch_sub wraps.
WrappingSub(a, b) == (a - b) % (UsizeMax + 1)

Init ==
    /\ records = 0
    /\ bytes = 0
    /\ admitted = 0
    /\ stage = [r \in Records |-> "source"]
    /\ stopping = [p \in Pollers |-> FALSE]
    /\ underflow = FALSE

CountReached == HasLimit /\ admitted >= CountLimit

-----------------------------------------------------------------------------
\* The poller's side: one pending record at a time, none once it stops.

Receive(r) ==
    /\ stage[r] = "source"
    /\ ~stopping[Owner[r]]
    /\ ~Busy(Owner[r])
    /\ Of(Owner[r]) \intersect At({"pending"}) = {}
    /\ Move(r, "pending")
    /\ UNCHANGED <<records, bytes, admitted, stopping, underflow>>

StopAtCount(p) ==
    /\ ~stopping[p]
    /\ ~Busy(p)
    /\ CountReached
    /\ stopping' = [stopping EXCEPT ![p] = TRUE]
    /\ MoveAll(Of(p) \intersect At({"pending"}), "discarded")
    /\ UNCHANGED <<records, bytes, admitted, underflow>>

-----------------------------------------------------------------------------
\* try_reserve. A refusal by the first step changes nothing.

\* Mutant: the slot is taken without comparing with the limit.
ReserveRecordUnbounded(r) ==
    /\ stage[r] = "pending"
    /\ ~Busy(Owner[r])
    /\ records' = records + 1
    /\ Move(r, "slot")
    /\ UNCHANGED <<bytes, admitted, stopping, underflow>>

ReserveRecord(r) ==
    /\ stage[r] = "pending"
    /\ ~Busy(Owner[r])
    /\ records < MaxRecords
    /\ records' = records + 1
    /\ Move(r, "slot")
    /\ UNCHANGED <<bytes, admitted, stopping, underflow>>

\* Mutant: a large record need not wait for the bytes to be free.
BytesAllowCrowding(r) ==
    /\ bytes + Size[r] <= UsizeMax
    /\ bytes + Size[r] <= MaxBytes \/ Oversize(r)

\* checked_add, and then the limit, which a record larger than the whole limit
\* may exceed alone.
BytesAllow(r) ==
    /\ bytes + Size[r] <= UsizeMax
    /\ \/ bytes + Size[r] <= MaxBytes
       \/ bytes = 0 /\ Oversize(r)

ReserveBytes(r) ==
    /\ stage[r] = "slot"
    /\ BytesAllow(r)
    /\ bytes' = bytes + Size[r]
    /\ Move(r, "charged")
    /\ UNCHANGED <<records, admitted, stopping, underflow>>

RefuseBytes(r) ==
    /\ stage[r] = "slot"
    /\ ~BytesAllow(r)
    /\ Move(r, "unslot")
    /\ UNCHANGED <<records, bytes, admitted, stopping, underflow>>

\* Mutant: the count is added without comparing with the limit.
ReserveCountUnchecked(r) ==
    /\ stage[r] = "charged"
    /\ admitted' = IF HasLimit THEN admitted + 1 ELSE admitted
    /\ Move(r, "held")
    /\ UNCHANGED <<records, bytes, stopping, underflow>>

ReserveCount(r) ==
    /\ stage[r] = "charged"
    /\ ~CountReached
    /\ admitted' = IF HasLimit THEN admitted + 1 ELSE admitted
    /\ Move(r, "held")
    /\ UNCHANGED <<records, bytes, stopping, underflow>>

\* Mutant: a refusal by the count limit keeps the bytes.
RefuseCountKeepingBytes(r) ==
    /\ stage[r] = "charged"
    /\ CountReached
    /\ Move(r, "unslot")
    /\ UNCHANGED <<records, bytes, admitted, stopping, underflow>>

RefuseCount(r) ==
    /\ stage[r] = "charged"
    /\ CountReached
    /\ Move(r, "refund")
    /\ UNCHANGED <<records, bytes, admitted, stopping, underflow>>

RefundBytes(r) ==
    /\ stage[r] = "refund"
    /\ bytes' = WrappingSub(bytes, Size[r])
    /\ Move(r, "unslot")
    /\ UNCHANGED <<records, admitted, stopping, underflow>>

\* Mutant: a refused record keeps its slot.
RefundRecordForgotten(r) ==
    /\ stage[r] = "unslot"
    /\ Move(r, "pending")
    /\ UNCHANGED <<records, bytes, admitted, stopping, underflow>>

RefundRecord(r) ==
    /\ stage[r] = "unslot"
    /\ records' = WrappingSub(records, 1)
    /\ Move(r, "pending")
    /\ UNCHANGED <<bytes, admitted, stopping, underflow>>

-----------------------------------------------------------------------------
\* release, called with the records of one batch from the writer. Its
\* checked_sub fails rather than wrap, and a failure of the first step keeps
\* the second from running.

ReleaseRecords(p, S) ==
    /\ ~Busy(p)
    /\ S # {}
    /\ LET enough == Cardinality(S) <= records IN
       /\ records' = IF enough THEN records - Cardinality(S) ELSE records
       /\ underflow' = (underflow \/ ~enough)
       /\ MoveAll(S, IF enough THEN "leaving" ELSE "gone")
    /\ UNCHANGED <<bytes, admitted, stopping>>

Leaving(p) == Of(p) \intersect At({"leaving"})

ReleaseBytes(p) ==
    /\ Leaving(p) # {}
    /\ LET enough == Bytes(Leaving(p)) <= bytes IN
       /\ bytes' = IF enough THEN bytes - Bytes(Leaving(p)) ELSE bytes
       /\ underflow' = (underflow \/ ~enough)
    /\ MoveAll(Leaving(p), "gone")
    /\ UNCHANGED <<records, admitted, stopping>>

-----------------------------------------------------------------------------
Reserve(r) ==
    \/ ReserveRecord(r)
    \/ ReserveBytes(r)
    \/ RefuseBytes(r)
    \/ ReserveCount(r)
    \/ RefuseCount(r)
    \/ RefundBytes(r)
    \/ RefundRecord(r)

ReleaseSome(p) == \E S \in SUBSET (Of(p) \intersect InFlight) : ReleaseRecords(p, S)

Next ==
    \/ \E r \in Records : Receive(r) \/ Reserve(r)
    \/ \E p \in Pollers : StopAtCount(p) \/ ReleaseSome(p) \/ ReleaseBytes(p)

(***************************************************************************)
(* Threads are scheduled, and a record held is released in the end. Every  *)
(* turn of poll_loop drains the release channel and reads count_reached    *)
(* before it tries to reserve again, so a poller that keeps retrying still *)
(* releases and still stops (strong fairness).                             *)
(***************************************************************************)
Fairness ==
    /\ \A r \in Records : WF_vars(Receive(r)) /\ WF_vars(Reserve(r))
    /\ \A p \in Pollers :
        /\ SF_vars(StopAtCount(p))
        /\ SF_vars(ReleaseSome(p))
        /\ WF_vars(ReleaseBytes(p))

Spec == Init /\ [][Next]_vars
FairSpec == Spec /\ Fairness

-----------------------------------------------------------------------------
\* Every value has its type. In particular no counter ever wraps: a wrapped
\* fetch_sub would leave a counter far above its limit.
TypeOK ==
    /\ records \in 0..MaxRecords
    /\ bytes \in 0..UsizeMax
    /\ admitted \in 0..CountLimit
    /\ stage \in [Records -> Stages]
    /\ stopping \in [Pollers -> BOOLEAN]
    /\ underflow \in BOOLEAN

\* Between any two atomic steps of any pollers, the counters count exactly the
\* records in the stages that took a slot, bytes, or a unit of the limit: no
\* interleaving of try_reserve, its rollbacks and release leaks or invents any.
CountersExact ==
    /\ records = Cardinality(Slotted)
    /\ bytes = Bytes(Charged)
    /\ HasLimit => admitted = Cardinality(InFlight \union Released)

\* The bytes charged, by records in flight and by calls still in progress, fit
\* the byte limit or belong to one record larger than the whole limit.
ChargedFits == Fits(Charged)

\* release never meets a counter smaller than what it gives back, so its
\* accounting errors never stop the pipeline.
NoUnderflow == ~underflow

\* try_reserve and release, atomic steps and rollbacks included, do what an
\* atomic decision on the budget would do.
Budget == INSTANCE AdmissionSpec WITH inFlight <- InFlight, done <- Released
ImplementsBudget == Budget!Spec

\* Every record is admitted and released in the end, or exactly as many as the
\* count limit allows: a refused try_reserve is never the last word, whatever
\* slots and bytes other calls hold for the moment, and a record larger than
\* the byte limit gets its turn.
Expected == IF HasLimit /\ CountLimit < Cardinality(Records)
            THEN CountLimit ELSE Cardinality(Records)
EveryRecordServed ==
    <>[](Cardinality(At({"gone"})) = Expected /\ InFlight = {} /\ records = 0 /\ bytes = 0)
=============================================================================
