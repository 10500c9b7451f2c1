-------------------------- MODULE AdmissionProofs --------------------------
(***************************************************************************)
(* Proofs about SharedAdmission for every number of pollers and records,   *)
(* every size and every limit: the counters are exact between any two      *)
(* atomic steps, the limits hold, and the counters implement the atomic    *)
(* budget of AdmissionSpec.                                                *)
(***************************************************************************)
EXTENDS Admission, FiniteSetTheorems, TLAPS

-----------------------------------------------------------------------------
\* The laws of Bytes.

\* A set of records retains finitely many bytes.
LEMMA BytesType ==
    ASSUME NEW S
    PROVE  IsFiniteSet(BytesOf(S)) /\ Bytes(S) \in Nat
<1>1. IsFiniteSet(1..UsizeMax)
  BY FS_Interval, LimitsAssumption
<1>2. IsFiniteSet(Records \X (1..UsizeMax))
  BY <1>1, FS_Product, RecordsAssumption
<1>3. BytesOf(S) \in SUBSET (Records \X (1..UsizeMax))
  BY DEF BytesOf
<1>4. IsFiniteSet(BytesOf(S))
  BY <1>2, <1>3, FS_Subset
<1> QED
  BY <1>4, FS_CardinalityType DEF Bytes

\* No record retains no byte.
LEMMA BytesEmpty == Bytes({}) = 0
<1>1. BytesOf({}) = {}
  BY DEF BytesOf
<1> QED
  BY <1>1, FS_EmptySet DEF Bytes

\* Disjoint sets of records retain their bytes separately.
LEMMA BytesUnion ==
    ASSUME NEW S, NEW T, S \intersect T = {}
    PROVE  Bytes(S \union T) = Bytes(S) + Bytes(T)
<1>1. BytesOf(S \union T) = BytesOf(S) \union BytesOf(T)
  BY DEF BytesOf
<1>2. BytesOf(S) \intersect BytesOf(T) = {}
  BY DEF BytesOf
<1>3. IsFiniteSet(BytesOf(S)) /\ IsFiniteSet(BytesOf(T))
  BY BytesType
<1>4. Cardinality(BytesOf(S) \intersect BytesOf(T)) = 0
  BY <1>2, FS_EmptySet
<1>5. Cardinality(BytesOf(S) \union BytesOf(T))
        = Cardinality(BytesOf(S)) + Cardinality(BytesOf(T)) - 0
  BY <1>3, <1>4, FS_Union
<1>6. Bytes(S \union T) = Cardinality(BytesOf(S) \union BytesOf(T))
  BY <1>1 DEF Bytes
<1>7. Bytes(S) \in Nat /\ Bytes(T) \in Nat
  BY BytesType
<1> QED
  BY <1>5, <1>6, <1>7, SMT DEF Bytes

\* A record retains its size.
LEMMA BytesSingle ==
    ASSUME NEW r \in Records
    PROVE  Bytes({r}) = Size[r]
<1> DEFINE f == [i \in 1..Size[r] |-> <<r, i>>]
<1>1. Size[r] \in Nat /\ Size[r] <= UsizeMax
  BY SizeAssumption, LimitsAssumption
<1>2. BytesOf({r}) = {<<r, i>> : i \in 1..Size[r]}
  BY <1>1, LimitsAssumption DEF BytesOf
<1>3. f \in Bijection(1..Size[r], BytesOf({r}))
  <2>1. f \in [1..Size[r] -> BytesOf({r})]
    BY <1>2
  <2>2. IsInjective(f)
    BY DEF IsInjective
  <2>3. \A b \in BytesOf({r}) : \E i \in 1..Size[r] : f[i] = b
    BY <1>2
  <2> QED
    BY <2>1, <2>2, <2>3 DEF Bijection, Injection, Surjection
<1>4. ExistsBijection(1..Size[r], BytesOf({r}))
  BY <1>3 DEF ExistsBijection
<1> QED
  BY <1>1, <1>4, FS_CountingElements DEF Bytes

\* Taking records away takes exactly their bytes away.
LEMMA BytesDifference ==
    ASSUME NEW T, NEW S \in SUBSET T
    PROVE  Bytes(T \ S) = Bytes(T) - Bytes(S) /\ Bytes(S) <= Bytes(T)
<1>1. (T \ S) \intersect S = {} /\ (T \ S) \union S = T
  OBVIOUS
<1>2. Bytes(T) = Bytes(T \ S) + Bytes(S)
  BY <1>1, BytesUnion
<1> QED
  BY <1>2, BytesType

\* A record more retains its size more.
LEMMA BytesAdd ==
    ASSUME NEW T, NEW r \in Records, r \notin T
    PROVE  Bytes(T \union {r}) = Bytes(T) + Size[r]
<1>1. T \intersect {r} = {}
  OBVIOUS
<1> QED
  BY <1>1, BytesUnion, BytesSingle

\* A record less retains its size less.
LEMMA BytesRemove ==
    ASSUME NEW T, NEW r \in Records, r \in T
    PROVE  Bytes(T \ {r}) = Bytes(T) - Size[r] /\ Size[r] <= Bytes(T)
<1>1. {r} \in SUBSET T
  OBVIOUS
<1> QED
  BY <1>1, BytesDifference, BytesSingle

\* What fits the byte limit still fits it when records are taken away: the
\* limit never has to be checked on release.
LEMMA FitsSubset ==
    ASSUME NEW T \in SUBSET Records, NEW S \in SUBSET T, Fits(T)
    PROVE  Fits(S)
<1>1. Bytes(S) <= Bytes(T) /\ Bytes(T \ S) = Bytes(T) - Bytes(S)
  BY BytesDifference
<1>2. Bytes(S) \in Nat /\ Bytes(T) \in Nat /\ MaxBytes \in Nat /\ Bytes(T \ S) \in Nat
  BY BytesType, LimitsAssumption
<1>3. CASE Bytes(T) <= MaxBytes
  BY <1>1, <1>2, <1>3 DEF Fits
<1>4. ASSUME NEW r \in T, Oversize(r), Bytes(T) = Size[r]
      PROVE  Fits(S)
  <2>1. Size[r] \in Nat
    BY SizeAssumption
  <2>2. CASE r \in S
    <3>1. Size[r] <= Bytes(S)
      BY <2>2, BytesRemove
    <3>2. Bytes(S) = Size[r]
      BY <1>1, <1>2, <1>4, <2>1, <3>1
    <3> QED
      BY <1>4, <2>2, <3>2 DEF Fits
  <2>3. CASE r \notin S
    <3>1. Size[r] <= Bytes(T \ S)
      BY <2>3, BytesRemove
    <3>2. Bytes(S) = 0
      BY <1>1, <1>2, <1>4, <2>1, <3>1
    <3> QED
      BY <1>2, <3>2 DEF Fits
  <2> QED
    BY <2>2, <2>3
<1> QED
  BY <1>3, <1>4 DEF Fits

-----------------------------------------------------------------------------
\* The inductive invariant.

IInv == TypeOK /\ CountersExact /\ ChargedFits /\ NoUnderflow

\* A subtraction that does not go below zero does not wrap.
LEMMA NoWrap ==
    ASSUME NEW a \in 0..UsizeMax, NEW b \in 0..a
    PROVE  WrappingSub(a, b) = a - b
<1>1. a - b \in 0..UsizeMax /\ UsizeMax \in Nat
  BY LimitsAssumption
<1>2. \A m \in Nat : \A x \in 0..m : x % (m + 1) = x
  OBVIOUS
<1> QED
  BY <1>1, <1>2 DEF WrappingSub

\* Sets of records are finite, and counting them is monotone.
LEMMA CountRecords ==
    ASSUME NEW T \in SUBSET Records, NEW S \in SUBSET T
    PROVE  /\ IsFiniteSet(T) /\ IsFiniteSet(S)
           /\ Cardinality(T) \in Nat /\ Cardinality(S) \in Nat
           /\ Cardinality(S) <= Cardinality(T)
           /\ Cardinality(T \ S) = Cardinality(T) - Cardinality(S)
<1>1. IsFiniteSet(T)
  BY RecordsAssumption, FS_Subset
<1>2. IsFiniteSet(S) /\ Cardinality(S) <= Cardinality(T)
  BY <1>1, FS_Subset
<1>3. T \intersect S = S
  OBVIOUS
<1>4. Cardinality(T \ S) = Cardinality(T) - Cardinality(S)
  BY <1>1, <1>3, FS_Difference
<1> QED
  BY <1>1, <1>2, <1>4, FS_CardinalityType

\* A record more, or one less, counts one more or one less.
LEMMA CountOne ==
    ASSUME NEW T \in SUBSET Records, NEW r \in Records
    PROVE  /\ r \notin T => Cardinality(T \union {r}) = Cardinality(T) + 1
           /\ r \in T => Cardinality(T \ {r}) = Cardinality(T) - 1 /\ Cardinality(T) > 0
<1>1. IsFiniteSet(T) /\ Cardinality(T) \in Nat
  BY CountRecords
<1>2. r \in T => Cardinality(T) # 0
  BY <1>1, FS_EmptySet
<1>3. r \notin T => Cardinality(T \union {r}) = Cardinality(T) + 1
  BY <1>1, FS_AddElement
<1>4. r \in T => Cardinality(T \ {r}) = Cardinality(T) - 1
  BY <1>1, FS_RemoveElement
<1> QED
  BY <1>1, <1>2, <1>3, <1>4

\* The sets the counters count are sets of records.
LEMMA StageSets ==
    /\ Slotted \in SUBSET Records
    /\ Charged \in SUBSET Records
    /\ InFlight \in SUBSET Records
    /\ Released \in SUBSET Records
BY DEF Slotted, Charged, InFlight, Released, At

\* Nothing has been received yet, and the counters are zero.
LEMMA InitIInv == Init => IInv
<1> SUFFICES ASSUME Init PROVE IInv
  OBVIOUS
<1>1. Slotted = {} /\ Charged = {} /\ InFlight \union Released = {}
  BY DEF Init, Slotted, Charged, InFlight, Released, At
<1>2. TypeOK
  <2>1. /\ records \in 0..MaxRecords /\ bytes \in 0..UsizeMax /\ admitted \in 0..CountLimit
        /\ stage \in [Records -> Stages]
    BY LimitsAssumption DEF Init, Stages
  <2>2. stopping \in [Pollers -> BOOLEAN] /\ underflow \in BOOLEAN
    BY Zenon DEF Init
  <2> QED
    BY <2>1, <2>2 DEF TypeOK
<1>3. CountersExact
  BY <1>1, BytesEmpty, FS_EmptySet DEF Init, CountersExact
<1>4. ChargedFits
  BY <1>1, BytesEmpty, LimitsAssumption DEF ChargedFits, Fits
<1> QED
  BY <1>2, <1>3, <1>4 DEF Init, IInv, NoUnderflow

\* A step that leaves the counters alone, and moves records between stages
\* that count alike, preserves the invariant.
LEMMA SameCounts ==
    ASSUME IInv, TypeOK', UNCHANGED <<records, bytes, admitted, underflow>>,
           Slotted' = Slotted, Charged' = Charged,
           (InFlight \union Released)' = InFlight \union Released
    PROVE  IInv'
<1>1. CountersExact'
  BY DEF IInv, CountersExact
<1>2. Fits(Charged')
  BY DEF IInv, ChargedFits
<1> QED
  BY <1>1, <1>2 DEF IInv, ChargedFits, NoUnderflow

LEMMA ReserveRecordIInv ==
    ASSUME IInv, NEW r \in Records, ReserveRecord(r)
    PROVE  IInv'
<1> USE DEF IInv
<1>1. /\ Slotted' = Slotted \union {r} /\ r \notin Slotted
      /\ Charged' = Charged
      /\ InFlight' = InFlight /\ Released' = Released
  BY DEF ReserveRecord, Move, Slotted, Charged, InFlight, Released, At, TypeOK
<1>2. TypeOK'
  BY LimitsAssumption DEF TypeOK, ReserveRecord, Move, Stages
<1>3. Cardinality(Slotted') = Cardinality(Slotted) + 1
  BY <1>1, StageSets, CountOne
<1>4. CountersExact'
  BY <1>1, <1>3 DEF CountersExact, ReserveRecord
<1>5. Fits(Charged')
  BY <1>1 DEF ChargedFits
<1> QED
  BY <1>2, <1>4, <1>5 DEF ChargedFits, NoUnderflow, ReserveRecord

LEMMA ReserveBytesIInv ==
    ASSUME IInv, NEW r \in Records, ReserveBytes(r)
    PROVE  IInv'
<1> USE DEF IInv
<1>1. /\ Slotted' = Slotted
      /\ Charged' = Charged \union {r} /\ r \notin Charged
      /\ InFlight' = InFlight /\ Released' = Released
  BY DEF ReserveBytes, Move, Slotted, Charged, InFlight, Released, At, TypeOK
<1>2. Size[r] \in 0..UsizeMax
  BY SizeAssumption
<1>3. TypeOK'
  BY <1>2, LimitsAssumption DEF TypeOK, ReserveBytes, BytesAllow, Move, Stages
<1>4. Bytes(Charged') = bytes + Size[r]
  BY <1>1, BytesAdd DEF CountersExact
<1>5. CountersExact'
  BY <1>1, <1>4 DEF CountersExact, ReserveBytes
<1>6. Fits(Charged')
  <2>1. CASE bytes + Size[r] <= MaxBytes
    BY <1>4, <2>1 DEF Fits
  <2>2. CASE bytes = 0 /\ Oversize(r)
    <3>1. Bytes(Charged') = Size[r]
      BY <1>2, <1>4, <2>2
    <3>2. r \in Charged'
      BY <1>1
    <3> QED
      BY <2>2, <3>1, <3>2 DEF Fits
  <2> QED
    BY <2>1, <2>2 DEF ReserveBytes, BytesAllow
<1> QED
  BY <1>3, <1>5, <1>6 DEF ChargedFits, NoUnderflow, ReserveBytes

LEMMA ReserveCountIInv ==
    ASSUME IInv, NEW r \in Records, ReserveCount(r)
    PROVE  IInv'
<1> USE DEF IInv
<1>1. /\ Slotted' = Slotted
      /\ Charged' = Charged
      /\ (InFlight \union Released)' = (InFlight \union Released) \union {r}
      /\ r \notin InFlight \union Released
  BY DEF ReserveCount, Move, Slotted, Charged, InFlight, Released, At, TypeOK
<1>2. TypeOK'
  BY LimitsAssumption DEF TypeOK, ReserveCount, CountReached, Move, Stages
<1>3. Cardinality((InFlight \union Released)') = Cardinality(InFlight \union Released) + 1
  <2>1. InFlight \union Released \in SUBSET Records
    BY StageSets
  <2> QED
    BY <1>1, <2>1, CountOne
<1>4. CountersExact'
  BY <1>1, <1>3 DEF CountersExact, ReserveCount
<1>5. Fits(Charged')
  BY <1>1 DEF ChargedFits
<1> QED
  BY <1>2, <1>4, <1>5 DEF ChargedFits, NoUnderflow, ReserveCount

LEMMA RefundBytesIInv ==
    ASSUME IInv, NEW r \in Records, RefundBytes(r)
    PROVE  IInv'
<1> USE DEF IInv
<1>1. /\ Slotted' = Slotted
      /\ Charged' = Charged \ {r} /\ r \in Charged
      /\ InFlight' = InFlight /\ Released' = Released
  BY DEF RefundBytes, Move, Slotted, Charged, InFlight, Released, At, TypeOK
<1>2. Bytes(Charged') = bytes - Size[r] /\ Size[r] <= bytes
  BY <1>1, BytesRemove DEF CountersExact
<1>3. Size[r] \in 0..bytes
  BY <1>2, SizeAssumption DEF TypeOK
<1>4. bytes' = bytes - Size[r]
  BY <1>3, NoWrap DEF RefundBytes, TypeOK
<1>5. TypeOK'
  BY <1>3, <1>4, LimitsAssumption DEF TypeOK, RefundBytes, Move, Stages
<1>6. CountersExact'
  BY <1>1, <1>2, <1>4 DEF CountersExact, RefundBytes
<1>7. Fits(Charged')
  BY <1>1, StageSets, FitsSubset DEF ChargedFits
<1> QED
  BY <1>5, <1>6, <1>7 DEF ChargedFits, NoUnderflow, RefundBytes

LEMMA RefundRecordIInv ==
    ASSUME IInv, NEW r \in Records, RefundRecord(r)
    PROVE  IInv'
<1> USE DEF IInv
<1>1. /\ Slotted' = Slotted \ {r} /\ r \in Slotted
      /\ Charged' = Charged
      /\ InFlight' = InFlight /\ Released' = Released
  BY DEF RefundRecord, Move, Slotted, Charged, InFlight, Released, At, TypeOK
<1>2. Cardinality(Slotted') = records - 1 /\ records > 0
  BY <1>1, StageSets, CountOne DEF CountersExact
<1>3. records \in 0..UsizeMax /\ 1 \in 0..records
  BY <1>2, LimitsAssumption DEF TypeOK
<1>4. records' = records - 1
  BY <1>3, NoWrap DEF RefundRecord
<1>5. TypeOK'
  BY <1>3, <1>4, LimitsAssumption DEF TypeOK, RefundRecord, Move, Stages
<1>6. CountersExact'
  BY <1>1, <1>2, <1>4 DEF CountersExact, RefundRecord
<1>7. Fits(Charged')
  BY <1>1 DEF ChargedFits
<1> QED
  BY <1>5, <1>6, <1>7 DEF ChargedFits, NoUnderflow, RefundRecord

\* A batch of records in flight was counted in both counters, so neither
\* subtraction of release can fail.
LEMMA ReleaseRecordsIInv ==
    ASSUME IInv, NEW p \in Pollers, NEW S \in SUBSET (Of(p) \intersect InFlight),
           ReleaseRecords(p, S)
    PROVE  IInv' /\ records' = records - Cardinality(S) /\ MoveAll(S, "leaving")
<1> USE DEF IInv
<1>1. S \in SUBSET Slotted /\ S \in SUBSET InFlight
  BY DEF Slotted, InFlight, At
<1>2. Cardinality(S) \in 0..records
  <2>1. /\ Cardinality(S) \in Nat
        /\ Cardinality(S) <= Cardinality(Slotted)
    BY <1>1, StageSets, CountRecords
  <2> QED
    BY <2>1 DEF CountersExact, TypeOK
<1>3. /\ records' = records - Cardinality(S)
      /\ underflow' = underflow
      /\ MoveAll(S, "leaving")
  BY <1>2 DEF ReleaseRecords, TypeOK
<1>4. /\ Slotted' = Slotted \ S
      /\ Charged' = Charged
      /\ (InFlight \union Released)' = InFlight \union Released
  BY <1>1, <1>3 DEF MoveAll, Slotted, Charged, InFlight, Released, At, TypeOK
<1>5. TypeOK'
  <2>1. records' \in 0..MaxRecords
    BY <1>2, <1>3, LimitsAssumption DEF TypeOK
  <2>2. stage' \in [Records -> Stages]
    BY <1>3 DEF TypeOK, MoveAll, Stages
  <2> QED
    BY <1>3, <2>1, <2>2 DEF TypeOK, ReleaseRecords
<1>6. Cardinality(Slotted') = Cardinality(Slotted) - Cardinality(S)
  BY <1>1, <1>4, StageSets, CountRecords
<1>7. CountersExact'
  BY <1>3, <1>4, <1>6 DEF CountersExact, ReleaseRecords
<1>8. Fits(Charged')
  BY <1>4 DEF ChargedFits
<1> QED
  BY <1>3, <1>5, <1>7, <1>8 DEF ChargedFits, NoUnderflow

LEMMA ReleaseBytesIInv ==
    ASSUME IInv, NEW p \in Pollers, ReleaseBytes(p)
    PROVE  IInv' /\ InFlight' = InFlight /\ Released' = Released
<1> USE DEF IInv
<1> DEFINE S == Leaving(p)
<1>1. S \in SUBSET Charged /\ S \in SUBSET Records
  BY DEF Leaving, Charged, At
<1>2. Bytes(S) <= bytes /\ Bytes(Charged \ S) = bytes - Bytes(S) /\ Bytes(S) \in Nat
  BY <1>1, BytesDifference, BytesType DEF CountersExact
<1>3. bytes' = bytes - Bytes(S) /\ underflow' = underflow
  BY <1>2 DEF ReleaseBytes, TypeOK
<1>4. /\ Slotted' = Slotted
      /\ Charged' = Charged \ S
      /\ InFlight' = InFlight /\ Released' = Released
  BY DEF ReleaseBytes, Leaving, MoveAll, Slotted, Charged, InFlight, Released, At, TypeOK
<1>5. TypeOK'
  BY <1>2, <1>3, LimitsAssumption DEF TypeOK, ReleaseBytes, MoveAll, Stages
<1>6. CountersExact'
  BY <1>2, <1>3, <1>4 DEF CountersExact, ReleaseBytes
<1>7. Fits(Charged')
  BY <1>4, StageSets, FitsSubset DEF ChargedFits
<1> QED
  BY <1>3, <1>4, <1>5, <1>6, <1>7 DEF ChargedFits, NoUnderflow

\* Receiving, refusing and stopping touch no counter.
QuietStep(r) == Receive(r) \/ RefuseBytes(r) \/ RefuseCount(r)

LEMMA QuietIInv ==
    ASSUME IInv, NEW r \in Records, QuietStep(r)
    PROVE  IInv' /\ InFlight' = InFlight /\ Released' = Released
<1>1. TypeOK'
  BY DEF IInv, QuietStep, Receive, RefuseBytes, RefuseCount, Move, TypeOK, Stages
<1>2. UNCHANGED <<records, bytes, admitted, underflow>>
  BY DEF QuietStep, Receive, RefuseBytes, RefuseCount
<1>3. /\ Slotted' = Slotted /\ Charged' = Charged
      /\ InFlight' = InFlight /\ Released' = Released
  BY DEF IInv, QuietStep, Receive, RefuseBytes, RefuseCount, Move,
         Slotted, Charged, InFlight, Released, At, TypeOK
<1> QED
  BY <1>1, <1>2, <1>3, SameCounts

LEMMA StopIInv ==
    ASSUME IInv, NEW p \in Pollers, StopAtCount(p)
    PROVE  IInv' /\ InFlight' = InFlight /\ Released' = Released
<1>1. stage' \in [Records -> Stages]
  BY DEF IInv, StopAtCount, MoveAll, TypeOK, Stages
<1>2. stopping' \in [Pollers -> BOOLEAN]
  BY Zenon DEF IInv, StopAtCount, TypeOK
<1>3. UNCHANGED <<records, bytes, admitted, underflow>>
  BY DEF StopAtCount
<1>4. TypeOK'
  BY <1>1, <1>2, <1>3 DEF IInv, TypeOK
<1>5. /\ Slotted' = Slotted /\ Charged' = Charged
      /\ InFlight' = InFlight /\ Released' = Released
  BY DEF IInv, StopAtCount, MoveAll, Slotted, Charged, InFlight, Released, At, TypeOK
<1> QED
  BY <1>3, <1>4, <1>5, SameCounts

LEMMA NextIInv == IInv /\ [Next]_vars => IInv'
<1> SUFFICES ASSUME IInv, [Next]_vars PROVE IInv'
  OBVIOUS
<1>1. ASSUME NEW r \in Records, Receive(r) \/ Reserve(r)
      PROVE  IInv'
  BY <1>1, QuietIInv, ReserveRecordIInv, ReserveBytesIInv, ReserveCountIInv,
     RefundBytesIInv, RefundRecordIInv DEF Reserve, QuietStep
<1>2. ASSUME NEW p \in Pollers, StopAtCount(p) \/ ReleaseSome(p) \/ ReleaseBytes(p)
      PROVE  IInv'
  BY <1>2, StopIInv, ReleaseRecordsIInv, ReleaseBytesIInv DEF ReleaseSome
<1>3. CASE UNCHANGED vars
  BY <1>3 DEF vars, IInv, TypeOK, CountersExact, ChargedFits, NoUnderflow,
              Slotted, Charged, InFlight, Released, At
<1> QED
  BY <1>1, <1>2, <1>3 DEF Next

\* Every state of every behaviour satisfies the inductive invariant.
THEOREM InductiveInvariant == Spec => []IInv
BY InitIInv, NextIInv, PTL DEF Spec

-----------------------------------------------------------------------------
\* Type correctness: no counter of the budget ever wraps.
THEOREM TypeCorrect == Spec => []TypeOK
<1>1. IInv => TypeOK
  BY DEF IInv
<1> QED
  BY <1>1, InductiveInvariant, PTL

\* No interleaving of reservations, rollbacks and releases leaks or invents a
\* slot, a byte or a unit of the count limit.
THEOREM CountersAreExact == Spec => []CountersExact
<1>1. IInv => CountersExact
  BY DEF IInv
<1> QED
  BY <1>1, InductiveInvariant, PTL

\* The byte limit holds at every step, a record larger than it running alone.
THEOREM ByteLimitHolds == Spec => []ChargedFits
<1>1. IInv => ChargedFits
  BY DEF IInv
<1> QED
  BY <1>1, InductiveInvariant, PTL

\* The accounting errors of release are unreachable.
THEOREM ReleaseNeverUnderflows == Spec => []NoUnderflow
<1>1. IInv => NoUnderflow
  BY DEF IInv
<1> QED
  BY <1>1, InductiveInvariant, PTL

-----------------------------------------------------------------------------
\* The counters implement the atomic budget: an admission takes effect at the
\* count step, a release at the subtraction from the record counter, and every
\* other step, rollbacks included, changes nothing the budget shows.

LEMMA InitRefines == Init => Budget!Init
BY DEF Init, Budget!Init, InFlight, Released, At

LEMMA ReserveCountRefines ==
    ASSUME IInv, NEW r \in Records, ReserveCount(r)
    PROVE  Budget!Admit(r)
<1> USE DEF IInv
<1>1. /\ InFlight' = InFlight \union {r} /\ Released' = Released
      /\ r \notin InFlight \union Released
      /\ InFlight \union {r} \in SUBSET Charged
      /\ InFlight \union {r} \in SUBSET Slotted
  BY DEF ReserveCount, Move, InFlight, Released, Charged, Slotted, At, TypeOK
<1>2. Fits(InFlight \union {r})
  BY <1>1, StageSets, FitsSubset DEF ChargedFits
<1>3. Cardinality(InFlight \union {r}) <= MaxRecords
  <2>1. /\ Cardinality(InFlight \union {r}) <= records
        /\ Cardinality(InFlight \union {r}) \in Nat
    BY <1>1, StageSets, CountRecords DEF CountersExact
  <2> QED
    BY <2>1, LimitsAssumption DEF TypeOK
<1>4. HasLimit => Cardinality(InFlight \union Released) < CountLimit
  BY LimitsAssumption DEF ReserveCount, CountReached, CountersExact, TypeOK
<1>5. ASSUME NEW T PROVE Cardinality(T) = Budget!Cardinality(T)
  BY Zenon DEF Cardinality, Budget!Cardinality
<1>6. Fits(InFlight \union {r}) <=> Budget!Fits(InFlight \union {r})
  BY <1>5 DEF Fits, Budget!Fits, Bytes, Budget!Bytes, BytesOf, Budget!BytesOf,
              Oversize, Budget!Oversize
<1> QED
  BY <1>1, <1>2, <1>3, <1>4, <1>5, <1>6 DEF Budget!Admit, Budget!Admitted

LEMMA ReleaseRecordsRefines ==
    ASSUME IInv, NEW p \in Pollers, NEW S \in SUBSET (Of(p) \intersect InFlight),
           ReleaseRecords(p, S)
    PROVE  Budget!Release(S)
<1>1. MoveAll(S, "leaving") /\ S # {}
  BY ReleaseRecordsIInv DEF ReleaseRecords
<1>2. InFlight' = InFlight \ S /\ Released' = Released \union S
  BY <1>1 DEF IInv, MoveAll, InFlight, Released, At, TypeOK
<1> QED
  BY <1>1, <1>2 DEF Budget!Release

LEMMA NextRefines == IInv /\ [Next]_vars => [Budget!Next]_Budget!specVars
<1> SUFFICES ASSUME IInv, [Next]_vars PROVE [Budget!Next]_Budget!specVars
  OBVIOUS
<1> USE DEF Budget!specVars
<1>1. ASSUME NEW r \in Records, ReserveCount(r)
      PROVE  Budget!Next
  BY <1>1, ReserveCountRefines DEF Budget!Next
<1>2. ASSUME NEW r \in Records, QuietStep(r)
      PROVE  UNCHANGED Budget!specVars
  BY <1>2, QuietIInv
<1>3. ASSUME NEW r \in Records,
             ReserveRecord(r) \/ ReserveBytes(r) \/ RefundBytes(r) \/ RefundRecord(r)
      PROVE  UNCHANGED Budget!specVars
  BY <1>3 DEF IInv, ReserveRecord, ReserveBytes, RefundBytes, RefundRecord, Move,
              InFlight, Released, At, TypeOK
<1>4. ASSUME NEW p \in Pollers, ReleaseSome(p)
      PROVE  Budget!Next
  <2>1. PICK S \in SUBSET (Of(p) \intersect InFlight) : ReleaseRecords(p, S)
    BY <1>4 DEF ReleaseSome
  <2>2. S \in SUBSET InFlight
    OBVIOUS
  <2> QED
    BY <2>1, <2>2, ReleaseRecordsRefines DEF Budget!Next
<1>5. ASSUME NEW p \in Pollers, StopAtCount(p) \/ ReleaseBytes(p)
      PROVE  UNCHANGED Budget!specVars
  BY <1>5, StopIInv, ReleaseBytesIInv
<1>6. CASE UNCHANGED vars
  BY <1>6 DEF vars, InFlight, Released, At
<1> QED
  BY <1>1, <1>2, <1>3, <1>4, <1>5, <1>6 DEF Next, Reserve, QuietStep

\* The three-counter budget implements the atomic one, for every number of
\* pollers and records: callers may reason as if admission decided in one step.
THEOREM BudgetImplemented == Spec => ImplementsBudget
<1>1. Spec => []IInv
  BY InductiveInvariant
<1> QED
  BY <1>1, InitRefines, NextRefines, PTL DEF Spec, ImplementsBudget, Budget!Spec
=============================================================================
