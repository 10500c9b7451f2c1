-------------------------- MODULE KafkaInputProofs --------------------------
(***************************************************************************)
(* Proofs about KafkaInput, for any partitions and requests, any logs and  *)
(* any way in which they grow and expire while the client fetches ahead.   *)
(***************************************************************************)
EXTENDS KafkaInput, ListTheorems

\* What the message at place i of the queue is.
RecordAt(i, p) == queue[i].kind = "record" /\ queue[i].partition = p
EndAt(i, p) == queue[i].kind = "eof" /\ queue[i].partition = p
Holds(i, p, o) == RecordAt(i, p) /\ queue[i].offset = o

\* Every wanted record below a limit has been delivered, or is in the queue
\* before place i.
Reaches(p, limit, i) ==
    \A o \in Wanted(p, limit) :
        o \in Range(delivered[p]) \/ \E j \in 1..(i - 1) : Holds(j, p, o)

\* What a finished partition has to have delivered, its count aside.
Limit(p) == IF end[p] # NoEnd THEN end[p] ELSE opened[p]

\* Before they are assigned no partition is touched.
Untouched ==
    phase \in {"preparing", "starts", "ends", "ranges"} =>
        /\ done = {} /\ paused = {} /\ queue = <<>> /\ batch = 0
        /\ \A p \in Partitions : position[p] = Unlocated /\ delivered[p] = <<>>

\* Nor is one the client has not located.
Fresh(p) ==
    position[p] = Unlocated =>
        /\ delivered[p] = <<>>
        /\ \A i \in DOMAIN queue : queue[i].partition # p
        /\ p \in done => EmptyRange(p)

\* The client reads from the first offset of the range on, until it is lost.
Reading(p) ==
    /\ opened[p] <= high[p]
    /\ position[p] \in {Unlocated, Lost}
       \/ /\ 0 <= first[p] /\ first[p] <= position[p] /\ position[p] <= high[p]
          /\ start[p] # Beginning => first[p] = start[p]

\* What is queued: records in order, the first of which may come before the
\* range, and ends that were true of the log.
QueuedWell(p) ==
    /\ \A i \in DOMAIN queue : RecordAt(i, p) =>
        /\ 0 <= queue[i].offset /\ queue[i].offset < high[p]
        /\ <<p, queue[i].offset>> \notin Invisible \union Bad
        /\ Early(queue[i]) <=> queue[i].offset < first[p]
        /\ position[p] = Lost \/ queue[i].offset < position[p]
    /\ \A i \in DOMAIN queue : EndAt(i, p) =>
        opened[p] <= queue[i].offset /\ queue[i].offset <= high[p]
    /\ \A i, j \in DOMAIN queue :
        i < j /\ RecordAt(i, p) /\ RecordAt(j, p) => queue[i].offset < queue[j].offset

\* Until the partition is done, nothing between what was delivered and what the
\* client fetches next is missing.
NoGap(p) ==
    p \notin done =>
        /\ \A i \in DOMAIN queue : RecordAt(i, p) =>
            /\ \A o \in Range(delivered[p]) : o < queue[i].offset
            /\ Reaches(p, queue[i].offset, i)
        /\ \A i \in DOMAIN queue : EndAt(i, p) => Reaches(p, queue[i].offset, i)
        /\ position[p] >= 0 =>
            /\ \A o \in Range(delivered[p]) : o < position[p]
            /\ Reaches(p, position[p], Len(queue) + 1)

DeliveredWell(p) ==
    /\ \A i, j \in DOMAIN delivered[p] : i < j => delivered[p][i] < delivered[p][j]
    /\ \A i \in DOMAIN delivered[p] :
          /\ delivered[p][i] < high[p]
          /\ Wanted(p, delivered[p][i] + 1) = {delivered[p][j] : j \in 1..i}
          /\ end[p] # NoEnd => delivered[p][i] < end[p]

FinishedWell(p) ==
    /\ p \notin done /\ request.count # NoCount => Len(delivered[p]) < request.count
    /\ p \in done =>
        \/ request.count # NoCount /\ Len(delivered[p]) = request.count
        \/ EmptyRange(p)
        \/ /\ Limit(p) <= high[p]
           /\ Wanted(p, Limit(p)) \subseteq Range(delivered[p])

\* An offset looked up for a timestamp bounds what is and what will be as late.
Bounds(offset, p, t) ==
    /\ offset <= high[p]
    /\ \A o \in low[p]..(high[p] - 1) : Time[p][o] >= t => offset <= o

Located(p) ==
    /\ marks[p].high <= high[p]
    /\ phase \in {"ends", "ranges", "assigned"} /\ request.start.kind = "timestamp"
        => Bounds(start[p], p, request.start.at)
    /\ phase \in {"ranges", "assigned"} /\ request.end.kind = "timestamp"
        => Bounds(end[p], p, request.end.at)

PartitionInv(p) ==
    /\ Fresh(p) /\ Reading(p) /\ QueuedWell(p) /\ NoGap(p)
    /\ DeliveredWell(p) /\ FinishedWell(p) /\ Located(p)

IInv ==
    /\ RemainingIsExact
    /\ Untouched
    /\ \A p \in Partitions : PartitionInv(p)
-----------------------------------------------------------------------------
Messages == [kind : Kinds, partition : Partitions, offset : Int]

\* What the types say of a partition.
LEMMA PartitionTypes ==
    ASSUME TypeOK, NEW p \in Partitions
    PROVE  /\ low[p] \in Nat /\ high[p] \in Nat /\ low[p] <= high[p]
           /\ start[p] \in Int /\ end[p] \in Int
           /\ position[p] \in Int /\ eofAt[p] \in Int
           /\ first[p] \in Int /\ opened[p] \in Nat
           /\ delivered[p] \in Seq(Nat)
           /\ marks[p].low \in Nat /\ marks[p].high \in Nat
  BY DEF TypeOK

LEMMA QueueTypes ==
    ASSUME TypeOK
    PROVE  /\ queue \in Seq(Messages) /\ Len(queue) \in Nat /\ DOMAIN queue = 1..Len(queue)
           /\ \A i \in DOMAIN queue :
                queue[i].kind \in Kinds /\ queue[i].partition \in Partitions
                    /\ queue[i].offset \in Int
<1>1. queue \in Seq(Messages) /\ Len(queue) \in Nat /\ DOMAIN queue = 1..Len(queue)
  BY DEF TypeOK, Messages
<1>2. \A i \in 1..Len(queue) : queue[i] \in Messages
  BY <1>1, ElementOfSeq
<1> QED
  BY <1>1, <1>2 DEF Messages

LEMMA InitIInv == Init => IInv
<1> SUFFICES ASSUME Init PROVE IInv
  OBVIOUS
<1> USE DEF Init, Unlocated, Beginning, NoEnd, Lost
<1>1. TypeOK
  BY KafkaAssumption DEF TypeOK
<1>2. RemainingIsExact
  BY <1>1 DEF RemainingIsExact
<1>3. Untouched
  BY DEF Untouched
<1>4. ASSUME NEW p \in Partitions PROVE PartitionInv(p)
  <2>1. Fresh(p) /\ QueuedWell(p) /\ NoGap(p) /\ DeliveredWell(p) /\ Located(p)
    BY <1>1, PartitionTypes DEF Fresh, QueuedWell, NoGap, DeliveredWell, Located
  <2>2. Reading(p)
    BY KafkaAssumption DEF Reading
  <2>3. FinishedWell(p)
    BY KafkaAssumption DEF FinishedWell, NoCount
  <2> QED
    BY <2>1, <2>2, <2>3 DEF PartitionInv
<1> QED
  BY <1>2, <1>3, <1>4 DEF IInv

-----------------------------------------------------------------------------
\* The topic. What is wanted below the log's end stays as the log grows.
LEMMA WantedStays ==
    ASSUME TypeOK, NEW p \in Partitions, NEW limit \in Int, limit <= high[p],
           high'[p] \in Nat, high'[p] >= high[p], first'[p] = first[p]
    PROVE  Wanted(p, limit)' = Wanted(p, limit)
  BY PartitionTypes DEF Wanted

\* One offset further, at most its own record is wanted as well.
LEMMA WantedNext ==
    ASSUME TypeOK, NEW p \in Partitions, NEW d \in Nat, first[p] <= d, d < high[p]
    PROVE  /\ <<p, d>> \notin Invisible \union Bad
                => Wanted(p, d + 1) = Wanted(p, d) \union {d}
           /\ <<p, d>> \in Invisible \union Bad => Wanted(p, d + 1) = Wanted(p, d)
<1>1. high[p] \in Nat /\ first[p] \in Int
  BY PartitionTypes
<1>2. \A o \in 0..(high[p] - 1) : o < d + 1 <=> o < d \/ o = d
  BY <1>1
<1>3. d \in 0..(high[p] - 1)
  BY <1>1
<1>4. \A o : o \in Wanted(p, d + 1) <=>
            \/ o \in Wanted(p, d)
            \/ o = d /\ <<p, d>> \notin Invisible /\ <<p, d>> \notin Bad
  BY <1>2, <1>3 DEF Wanted
<1> QED
  BY <1>4

LEMMA QueueBelow ==
    ASSUME TypeOK, NEW p \in Partitions, PartitionInv(p),
           NEW i \in DOMAIN queue, RecordAt(i, p) \/ EndAt(i, p)
    PROVE  queue[i].offset \in Int /\ queue[i].offset <= high[p]
<1>1. QueuedWell(p) /\ high[p] \in Nat /\ queue[i].offset \in Int
  BY PartitionTypes, QueueTypes DEF PartitionInv
<1>2. CASE RecordAt(i, p)
  <2>1. queue[i].offset < high[p]
    BY <1>1, <1>2 DEF QueuedWell
  <2> QED
    BY <1>1, <2>1
<1>3. CASE EndAt(i, p)
  BY <1>1, <1>3 DEF QueuedWell
<1> QED
  BY <1>2, <1>3

\* The log of a partition grows, or loses its oldest records.
LEMMA LogKeeps ==
    ASSUME IInv, NEW p \in Partitions,
           UNCHANGED <<rangeVars, phase, fetchVars, queue, pollVars>>,
           low'[p] \in Nat, low'[p] >= low[p],
           high'[p] \in {high[p], high[p] + 1}
    PROVE  PartitionInv(p)'
<1> USE DEF rangeVars, fetchVars, pollVars
<1>1. PartitionInv(p) /\ TypeOK
  BY DEF IInv, RemainingIsExact
<1>2. \A limit \in Int : limit <= high[p] => Wanted(p, limit)' = Wanted(p, limit)
  BY <1>1, PartitionTypes, WantedStays
<1>3. Fresh(p)'
  BY <1>1 DEF PartitionInv, Fresh, EmptyRange
<1>4. Reading(p)'
  BY <1>1, PartitionTypes DEF PartitionInv, Reading
<1>5. QueuedWell(p)'
  BY <1>1, PartitionTypes, QueueTypes, SMTT(30) DEF PartitionInv, QueuedWell, RecordAt, EndAt, Early
<1>6. ASSUME NEW limit \in Int, NEW i, limit <= high[p], Reaches(p, limit, i)
      PROVE  Reaches(p, limit, i)'
  BY <1>2, <1>6 DEF Reaches, Holds, RecordAt
<1>7. NoGap(p)'
  <2>1. \A i \in DOMAIN queue : RecordAt(i, p) \/ EndAt(i, p) =>
            queue[i].offset \in Int /\ queue[i].offset <= high[p]
    BY <1>1, QueueBelow
  <2>2. position[p] >= 0 => position[p] <= high[p]
    BY <1>1, PartitionTypes DEF PartitionInv, Reading, Unlocated, Lost
  <2> QED
    BY <1>1, <1>6, <2>1, <2>2, PartitionTypes DEF PartitionInv, NoGap, RecordAt, EndAt
<1>8. DeliveredWell(p)'
  <2>1. \A i \in DOMAIN delivered[p] : delivered[p][i] + 1 \in Int /\ delivered[p][i] + 1 <= high[p]
    BY <1>1, PartitionTypes DEF PartitionInv, DeliveredWell
  <2>2. \A i \in DOMAIN delivered[p] :
            Wanted(p, delivered[p][i] + 1)' = Wanted(p, delivered[p][i] + 1)
    BY <1>2, <2>1
  <2>3. DeliveredWell(p)
    BY <1>1 DEF PartitionInv
  <2>4. ASSUME NEW i \in DOMAIN delivered[p]
        PROVE  /\ delivered[p][i] < high'[p]
               /\ Wanted(p, delivered[p][i] + 1)' = {delivered[p][j] : j \in 1..i}
               /\ end[p] # NoEnd => delivered[p][i] < end[p]
    <3>1. delivered[p][i] < high'[p]
      BY <1>1, <2>3, PartitionTypes DEF DeliveredWell
    <3>2. Wanted(p, delivered[p][i] + 1)' = {delivered[p][j] : j \in 1..i}
      BY <2>2, <2>3 DEF DeliveredWell
    <3>3. end[p] # NoEnd => delivered[p][i] < end[p]
      BY <2>3 DEF DeliveredWell
    <3> QED
      BY <3>1, <3>2, <3>3
  <2> QED
    BY <2>3, <2>4 DEF DeliveredWell
<1>9. FinishedWell(p)'
  <2>1. Limit(p)' = Limit(p) /\ Limit(p) \in Int
    BY <1>1, PartitionTypes DEF Limit
  <2> QED
    BY <1>1, <1>2, <2>1, PartitionTypes DEF PartitionInv, FinishedWell, EmptyRange
<1>10. Located(p)'
  <2>1. ASSUME NEW offset \in Int, NEW t, Bounds(offset, p, t) PROVE Bounds(offset, p, t)'
    BY <1>1, <2>1, PartitionTypes DEF Bounds
  <2>2. marks[p].high \in Nat /\ marks[p].high <= high'[p]
    <3>1. marks[p].high \in Nat /\ marks[p].high <= high[p]
      BY <1>1, PartitionTypes DEF PartitionInv, Located
    <3> QED
      BY <1>1, <3>1, PartitionTypes
  <2> QED
    BY <1>1, <2>1, <2>2, PartitionTypes DEF PartitionInv, Located
<1> QED
  BY <1>3, <1>4, <1>5, <1>7, <1>8, <1>9, <1>10 DEF PartitionInv

LEMMA TopicIInv ==
    ASSUME IInv, NEW q \in Partitions, Produce(q) \/ Expire(q)
    PROVE  IInv'
<1>1. UNCHANGED <<rangeVars, phase, fetchVars, queue, pollVars>>
  BY DEF Produce, Expire
<1>2. ASSUME NEW p \in Partitions PROVE PartitionInv(p)'
  <2>1. /\ low'[p] \in Nat /\ low'[p] >= low[p]
        /\ high'[p] \in {high[p], high[p] + 1}
    <3>1. low \in [Partitions -> Nat] /\ high \in [Partitions -> Nat]
      BY DEF IInv, RemainingIsExact, TypeOK
    <3>2. CASE Produce(q)
      BY <3>1, <3>2 DEF Produce
    <3>3. CASE Expire(q)
      BY <3>1, <3>3 DEF Expire
    <3> QED
      BY <3>2, <3>3
  <2> QED
    BY <1>1, <2>1, LogKeeps
<1>3. RemainingIsExact'
  <2>1. /\ low' \in [Partitions -> Nat] /\ high' \in [Partitions -> Nat]
        /\ \A p \in Partitions : low'[p] <= high'[p] /\ high'[p] <= MaxHigh[p]
    <3>1. MaxHigh \in [Partitions -> Nat]
      BY KafkaAssumption
    <3>2. /\ low \in [Partitions -> Nat] /\ high \in [Partitions -> Nat]
          /\ \A p \in Partitions : low[p] <= high[p] /\ high[p] <= MaxHigh[p]
      BY DEF IInv, RemainingIsExact, TypeOK
    <3>3. CASE Produce(q)
      BY <3>1, <3>2, <3>3 DEF Produce
    <3>4. CASE Expire(q)
      BY <3>1, <3>2, <3>4 DEF Expire
    <3> QED
      BY <3>3, <3>4
  <2> QED
    BY <1>1, <2>1 DEF IInv, RemainingIsExact, TypeOK, rangeVars, fetchVars, pollVars
<1>4. Untouched'
  BY <1>1 DEF IInv, Untouched, rangeVars, fetchVars, pollVars
<1> QED
  BY <1>2, <1>3, <1>4 DEF IInv

-----------------------------------------------------------------------------
\* prepare and assign.

\* A set of offsets has a first one.
LEMMA FirstOffset ==
    ASSUME NEW S \in SUBSET Nat, S # {}
    PROVE  Min(S) \in S /\ \A o \in S : Min(S) <= o
<1>1. \E x \in S : \A y \in S : x <= y
  BY LeastNatural
<1> QED
  BY <1>1 DEF Min

LEMMA LookupBounds ==
    ASSUME TypeOK, NEW p \in Partitions, PartitionInv(p), NEW t \in Nat
    PROVE  /\ OffsetForTimestamp(p, t) \in Int
           /\ Bounds(OffsetForTimestamp(p, t), p, t)
<1> DEFINE found == {o \in low[p]..(high[p] - 1) : Time[p][o] >= t}
<1>1. low[p] \in Nat /\ high[p] \in Nat /\ marks[p].high \in Nat /\ marks[p].high <= high[p]
  BY DEF TypeOK, PartitionInv, Located
<1>2. CASE found = {}
  BY <1>1, <1>2 DEF OffsetForTimestamp, Bounds
<1>3. CASE found # {}
  <2>1. found \in SUBSET Nat
    BY <1>1
  <2>2. Min(found) \in found /\ \A o \in found : Min(found) <= o
    BY <1>3, <2>1, FirstOffset
  <2>3. OffsetForTimestamp(p, t) = Min(found)
    BY <1>3 DEF OffsetForTimestamp
  <2> QED
    BY <1>1, <2>2, <2>3 DEF Bounds
<1> QED
  BY <1>2, <1>3

\* Nothing is asked of a partition that is not touched but what its lookups say.
LEMMA UntouchedInv ==
    ASSUME NEW p \in Partitions, queue' = <<>>, delivered'[p] = <<>>,
           position'[p] = Unlocated, p \in done' => EmptyRange(p)',
           opened'[p] <= high'[p], request' \in Requests
    PROVE  /\ Fresh(p)' /\ Reading(p)' /\ QueuedWell(p)' /\ NoGap(p)'
           /\ DeliveredWell(p)' /\ FinishedWell(p)'
<1>1. Fresh(p)' /\ QueuedWell(p)' /\ DeliveredWell(p)'
  BY DEF Fresh, QueuedWell, DeliveredWell
<1>2. Reading(p)' /\ NoGap(p)'
  BY DEF Reading, NoGap, Unlocated
<1>3. FinishedWell(p)'
  BY KafkaAssumption DEF FinishedWell, NoCount
<1> QED
  BY <1>1, <1>2, <1>3

LEMMA FetchWatermarksIInv == IInv /\ FetchWatermarks => IInv'
<1> SUFFICES ASSUME IInv, FetchWatermarks PROVE IInv'
  OBVIOUS
<1> USE DEF FetchWatermarks, logVars, fetchVars, pollVars
<1>1. TypeOK /\ Untouched /\ request \in Requests
  BY DEF IInv, RemainingIsExact, TypeOK
<1>2. marks' \in [Partitions -> [low : Nat, high : Nat]]
  BY <1>1 DEF TypeOK
<1>3. RemainingIsExact'
  BY <1>1, <1>2 DEF TypeOK, RemainingIsExact
<1>4. Untouched'
  BY <1>1 DEF Untouched
<1>5. ASSUME NEW p \in Partitions PROVE PartitionInv(p)'
  <2>1. PartitionInv(p)
    BY DEF IInv
  <2>2. Located(p)'
    BY <1>1, <2>1, PartitionTypes DEF PartitionInv, Located
  <2> QED
    BY <1>1, <2>1, <2>2, UntouchedInv DEF Untouched, PartitionInv, Reading
<1> QED
  BY <1>3, <1>4, <1>5 DEF IInv

LEMMA ResolveStartsIInv == IInv /\ ResolveStarts => IInv'
<1> SUFFICES ASSUME IInv, ResolveStarts PROVE IInv'
  OBVIOUS
<1> USE DEF ResolveStarts, logVars, fetchVars, pollVars
<1>1. TypeOK /\ Untouched /\ request \in Requests
  BY DEF IInv, RemainingIsExact, TypeOK
<1>2. ASSUME NEW p \in Partitions
      PROVE  /\ StartOffset(p) \in Int
             /\ request.start.kind = "timestamp" => Bounds(StartOffset(p), p, request.start.at)
  <2>1. PartitionInv(p)
    BY DEF IInv
  <2>2. request.start.kind \in StartKinds /\ request.start.at \in Nat
    BY <1>1, KafkaAssumption
  <2>3. /\ OffsetForTimestamp(p, request.start.at) \in Int
        /\ Bounds(OffsetForTimestamp(p, request.start.at), p, request.start.at)
    BY <1>1, <2>1, <2>2, LookupBounds
  <2> QED
    BY <1>1, <2>2, <2>3, PartitionTypes DEF StartOffset, StartKinds, Beginning
<1>3. RemainingIsExact'
  BY <1>1, <1>2 DEF TypeOK, RemainingIsExact
<1>4. Untouched'
  BY <1>1 DEF Untouched
<1>5. ASSUME NEW p \in Partitions PROVE PartitionInv(p)'
  <2>1. PartitionInv(p)
    BY DEF IInv
  <2>2. Located(p)'
    BY <1>1, <1>2, <2>1 DEF PartitionInv, Located, Bounds
  <2> QED
    BY <1>1, <2>1, <2>2, UntouchedInv DEF Untouched, PartitionInv, Reading
<1> QED
  BY <1>3, <1>4, <1>5 DEF IInv

LEMMA ResolveEndsIInv == IInv /\ ResolveEnds => IInv'
<1> SUFFICES ASSUME IInv, ResolveEnds PROVE IInv'
  OBVIOUS
<1> USE DEF ResolveEnds, logVars, fetchVars, pollVars
<1>1. TypeOK /\ Untouched /\ request \in Requests
  BY DEF IInv, RemainingIsExact, TypeOK
<1>2. ASSUME NEW p \in Partitions
      PROVE  /\ EndOffset(p) \in Int
             /\ request.end.kind = "timestamp" => Bounds(EndOffset(p), p, request.end.at)
  <2>1. PartitionInv(p)
    BY DEF IInv
  <2>2. request.end.kind \in EndKinds /\ request.end.at \in Nat
    BY <1>1, KafkaAssumption
  <2>3. /\ OffsetForTimestamp(p, request.end.at) \in Int
        /\ Bounds(OffsetForTimestamp(p, request.end.at), p, request.end.at)
    BY <1>1, <2>1, <2>2, LookupBounds
  <2> QED
    BY <1>1, <2>2, <2>3, PartitionTypes DEF EndOffset, EndKinds, NoEnd
<1>3. RemainingIsExact'
  BY <1>1, <1>2 DEF TypeOK, RemainingIsExact
<1>4. Untouched'
  BY <1>1 DEF Untouched
<1>5. ASSUME NEW p \in Partitions PROVE PartitionInv(p)'
  <2>1. PartitionInv(p)
    BY DEF IInv
  <2>2. Located(p)'
    BY <1>1, <1>2, <2>1 DEF PartitionInv, Located, Bounds
  <2> QED
    BY <1>1, <2>1, <2>2, UntouchedInv DEF Untouched, PartitionInv, Reading
<1> QED
  BY <1>3, <1>4, <1>5 DEF IInv

LEMMA AssignIInv == IInv /\ Assign => IInv'
<1> SUFFICES ASSUME IInv, Assign PROVE IInv'
  OBVIOUS
<1> USE DEF Assign, logVars, fetchVars, pollVars
<1>1. TypeOK /\ Untouched /\ request \in Requests
  BY DEF IInv, RemainingIsExact, TypeOK
<1>2. remaining' \in Nat
  BY KafkaAssumption, FS_Subset, FS_CardinalityType
<1>3. done' \subseteq Partitions /\ paused' \subseteq done'
  BY <1>1 DEF Untouched
<1>4. RemainingIsExact'
  BY <1>1, <1>2, <1>3 DEF TypeOK, RemainingIsExact
<1>5. Untouched'
  BY DEF Untouched
<1>6. ASSUME NEW p \in Partitions PROVE PartitionInv(p)'
  <2>1. PartitionInv(p)
    BY DEF IInv
  <2>2. Located(p)'
    BY <1>1, <2>1 DEF PartitionInv, Located, Bounds
  <2>3. p \in done' => EmptyRange(p)'
    BY DEF EmptyRange
  <2>4. opened'[p] <= high'[p]
    BY <1>1, PartitionTypes
  <2> QED
    BY <1>1, <2>2, <2>3, <2>4, UntouchedInv DEF Untouched, PartitionInv
<1> QED
  BY <1>4, <1>5, <1>6 DEF IInv

\* What neither touches a partition nor goes on with it leaves it as it is.
LEMMA PartitionKeeps ==
    ASSUME NEW p \in Partitions, PartitionInv(p),
           UNCHANGED <<logVars, rangeVars, fetchVars, queue, done, delivered>>,
           phase' \in {phase, "done", "failed"}
    PROVE  PartitionInv(p)'
<1> USE DEF logVars, rangeVars, fetchVars, PartitionInv
<1>1. Fresh(p)' /\ Reading(p)' /\ DeliveredWell(p)' /\ FinishedWell(p)'
  BY DEF Fresh, Reading, DeliveredWell, FinishedWell, EmptyRange, Wanted, Limit
<1>2. QueuedWell(p)' /\ NoGap(p)'
  BY DEF QueuedWell, NoGap, RecordAt, EndAt, Early, Reaches, Wanted, Holds
<1>3. Located(p)'
  BY DEF Located, Bounds
<1> QED
  BY <1>1, <1>2, <1>3

LEMMA QuietIInv ==
    ASSUME IInv,
           \/ PrepareFails \/ PollClientError \/ PollDone \/ UNCHANGED vars
           \/ \E p \in Partitions : PauseEmpty(p)
    PROVE  IInv'
<1> USE DEF PrepareFails, PollClientError, PollDone, PauseEmpty, Fail, Polling, vars,
            logVars, rangeVars, fetchVars, pollVars
<1>1. /\ UNCHANGED <<logVars, rangeVars, fetchVars, queue, done, delivered, remaining, batch>>
      /\ phase' \in {phase, "done", "failed"}
      /\ phase \notin {"preparing", "starts", "ends", "ranges"} \/ paused' = paused
  OBVIOUS
<1>2. TypeOK /\ Untouched
  BY DEF IInv, RemainingIsExact
<1>3. errors' \in 0..MaxErrors
  BY <1>2, KafkaAssumption DEF TypeOK
<1>4. paused' \subseteq done'
  BY <1>2 DEF TypeOK
<1>5. RemainingIsExact'
  <2>1. TypeOK'
    BY <1>1, <1>2, <1>3, <1>4 DEF TypeOK
  <2> QED
    BY <1>1, <2>1 DEF IInv, RemainingIsExact
<1>6. Untouched'
  BY <1>1, <1>2 DEF Untouched
<1> QED
  BY <1>1, <1>5, <1>6, PartitionKeeps DEF IInv

-----------------------------------------------------------------------------
\* The client library: the queue loses the message at one place.

\* The queue without its message at place n.
Lacks(n) ==
    /\ queue' \in Seq(Messages) /\ Len(queue') = Len(queue) - 1
    /\ \A k \in 1..(Len(queue) - 1) : queue'[k] = queue[IF k < n THEN k ELSE k + 1]

LEMMA HeadTaken ==
    ASSUME TypeOK, queue # <<>>, queue' = Tail(queue)
    PROVE  Lacks(1) /\ 1 \in DOMAIN queue /\ Head(queue) = queue[1]
<1>1. queue \in Seq(Messages) /\ Len(queue) \in Nat /\ DOMAIN queue = 1..Len(queue)
  BY QueueTypes
<1>2. Len(queue) >= 1 /\ Head(queue) = queue[1]
  BY <1>1
<1>3. Tail(queue) \in Seq(Messages) /\ Len(Tail(queue)) = Len(queue) - 1
  BY <1>1, HeadTailProperties
<1>4. \A k \in 1..(Len(queue) - 1) : Tail(queue)[k] = queue[k + 1]
  BY <1>1, <1>3, HeadTailProperties
<1> QED
  BY <1>1, <1>2, <1>3, <1>4 DEF Lacks

LEMMA OneRemoved ==
    ASSUME TypeOK, NEW n \in DOMAIN queue, queue' = RemoveAt(queue, n)
    PROVE  Lacks(n)
<1>1. queue \in Seq(Messages) /\ Len(queue) \in Nat /\ DOMAIN queue = 1..Len(queue)
  BY QueueTypes
<1>2. \A i \in 1..Len(queue) : queue[i] \in Messages
  BY <1>1, ElementOfSeq
<1> DEFINE a == SubSeq(queue, 1, n - 1)
           b == SubSeq(queue, n + 1, Len(queue))
<1>3. a \in Seq(Messages) /\ Len(a) = n - 1 /\ \A k \in 1..(n - 1) : a[k] = queue[k]
  <2>1. \A i \in 1..(n - 1) : queue[i] \in Messages
    BY <1>1, <1>2
  <2>2. /\ a \in Seq(Messages) /\ Len(a) = IF 1 <= n - 1 THEN n - 1 - 1 + 1 ELSE 0
        /\ \A k \in 1..(n - 1 - 1 + 1) : a[k] = queue[1 + k - 1]
    BY <1>1, <2>1, SubSeqProperties
  <2> QED
    BY <1>1, <2>2
<1>4. /\ b \in Seq(Messages) /\ Len(b) = Len(queue) - n
      /\ \A k \in 1..(Len(queue) - n) : b[k] = queue[n + k]
  <2>1. \A i \in (n + 1)..Len(queue) : queue[i] \in Messages
    BY <1>1, <1>2
  <2>2. /\ b \in Seq(Messages)
        /\ Len(b) = IF n + 1 <= Len(queue) THEN Len(queue) - (n + 1) + 1 ELSE 0
        /\ \A k \in 1..(Len(queue) - (n + 1) + 1) : b[k] = queue[(n + 1) + k - 1]
    BY <1>1, <2>1, SubSeqProperties
  <2> QED
    BY <1>1, <2>2
<1>6. queue' = a \o b
  BY DEF RemoveAt
<1> HIDE DEF a, b
<1>5. /\ a \o b \in Seq(Messages) /\ Len(a \o b) = Len(a) + Len(b)
      /\ \A i \in 1..(Len(a) + Len(b)) :
            (a \o b)[i] = IF i <= Len(a) THEN a[i] ELSE b[i - Len(a)]
  BY <1>3, <1>4, ConcatProperties
<1>7. Len(queue') = Len(queue) - 1
  <2>1. Len(a) + Len(b) = Len(queue) - 1
    BY <1>1, <1>3, <1>4
  <2> QED
    BY <1>5, <1>6, <2>1
<1>8. ASSUME NEW k \in 1..(Len(queue) - 1)
      PROVE  queue'[k] = queue[IF k < n THEN k ELSE k + 1]
  <2>1. (a \o b)[k] = IF k <= Len(a) THEN a[k] ELSE b[k - Len(a)]
    BY <1>1, <1>3, <1>4, <1>5
  <2>2. CASE k < n
    BY <1>1, <1>3, <1>6, <2>1, <2>2
  <2>3. CASE k >= n
    <3>1. k - Len(a) \in 1..(Len(queue) - n) /\ ~(k <= Len(a))
      BY <1>1, <1>3, <2>3
    <3>2. b[k - Len(a)] = queue[n + (k - Len(a))]
      BY <1>4, <3>1
    <3>3. n + (k - Len(a)) = k + 1
      BY <1>1, <1>3
    <3> QED
      BY <1>1, <1>6, <2>1, <2>3, <3>1, <3>2, <3>3
  <2> QED
    BY <1>1, <2>2, <2>3
<1> QED
  BY <1>5, <1>6, <1>7, <1>8 DEF Lacks

\* What a partition keeps when a message is taken from the queue: one of another
\* partition, of a partition that is done, or from before the range.
LEMMA DropKeeps ==
    ASSUME TypeOK, NEW p \in Partitions, PartitionInv(p),
           NEW n \in DOMAIN queue, Lacks(n),
           UNCHANGED <<logVars, rangeVars, fetchVars>>, delivered'[p] = delivered[p],
           p \in done => p \in done',
           p \in done' \ done => position[p] # Unlocated,
           RecordAt(n, p) => p \in done' \/ queue[n].offset < first[p]
    PROVE  Fresh(p)' /\ Reading(p)' /\ QueuedWell(p)' /\ NoGap(p)' /\ DeliveredWell(p)'
<1> USE DEF logVars, rangeVars, fetchVars
<1> DEFINE From(k) == IF k < n THEN k ELSE k + 1
<1>1. /\ Len(queue) \in Nat /\ DOMAIN queue = 1..Len(queue)
      /\ \A i \in DOMAIN queue : queue[i].partition \in Partitions /\ queue[i].offset \in Int
  BY QueueTypes
<1>2. DOMAIN queue' = 1..(Len(queue) - 1) /\ Len(queue') = Len(queue) - 1
  BY <1>1 DEF Lacks
<1>3. \A k \in DOMAIN queue' : From(k) \in DOMAIN queue /\ queue'[k] = queue[From(k)]
  BY <1>1, <1>2 DEF Lacks
<1> HIDE DEF From
<1>4. \A j, k \in DOMAIN queue' : j < k => From(j) < From(k)
  BY <1>1, <1>2 DEF From
<1>5. \A k \in DOMAIN queue' :
        /\ RecordAt(k, p)' <=> RecordAt(From(k), p)
        /\ EndAt(k, p)' <=> EndAt(From(k), p)
  BY <1>3 DEF RecordAt, EndAt
<1>6. Fresh(p)'
  BY <1>3 DEF PartitionInv, Fresh, EmptyRange
<1>7. Reading(p)' /\ DeliveredWell(p)'
  BY DEF PartitionInv, Reading, DeliveredWell, Wanted
<1>8. QueuedWell(p)'
  BY <1>3, <1>4, <1>5 DEF PartitionInv, QueuedWell, Early
<1>9. ASSUME p \notin done', NEW limit \in Int, NEW k \in 1..Len(queue),
             Reaches(p, limit, From(k))
      PROVE  Reaches(p, limit, k)'
  <2> SUFFICES ASSUME NEW o \in Wanted(p, limit)', o \notin Range(delivered[p])
               PROVE  \E j \in 1..(k - 1) : Holds(j, p, o)'
    BY DEF Reaches
  <2>1. o \in Wanted(p, limit) /\ first[p] <= o /\ o \in Int
    BY PartitionTypes DEF Wanted
  <2>2. PICK j \in 1..(From(k) - 1) : Holds(j, p, o)
    BY <1>9, <2>1 DEF Reaches
  <2>3. From(k) \in 1..(Len(queue) + 1)
    BY <1>1 DEF From
  <2>4. j \in DOMAIN queue
    BY <1>1, <2>2, <2>3
  <2>5. j # n
    <3>1. ASSUME j = n PROVE FALSE
      <4>1. queue[n].offset < first[p] /\ queue[n].offset = o
        BY <1>9, <2>2, <3>1 DEF Holds
      <4> QED
        BY <2>1, <4>1, PartitionTypes
    <3> QED
      BY <3>1
  <2>6. CASE j < n
    <3>1. j \in 1..(k - 1) /\ j \in DOMAIN queue' /\ From(j) = j
      BY <1>1, <1>2, <2>2, <2>4, <2>6 DEF From
    <3> QED
      BY <1>3, <2>2, <3>1 DEF Holds, RecordAt
  <2>7. CASE j > n
    <3>1. j - 1 \in 1..(k - 1) /\ j - 1 \in DOMAIN queue' /\ From(j - 1) = j
      BY <1>1, <1>2, <2>2, <2>4, <2>7 DEF From
    <3> QED
      BY <1>3, <2>2, <3>1 DEF Holds, RecordAt
  <2> QED
    BY <1>1, <2>4, <2>5, <2>6, <2>7
<1>10. NoGap(p)'
  <2> SUFFICES ASSUME p \notin done' PROVE NoGap(p)'
    BY DEF NoGap
  <2>1. p \notin done /\ NoGap(p)
    BY DEF PartitionInv
  <2>2. \A k \in DOMAIN queue' : k \in 1..Len(queue) /\ queue[From(k)].offset \in Int
    BY <1>1, <1>2, <1>3
  <2>3. ASSUME NEW k \in DOMAIN queue', RecordAt(k, p)'
        PROVE  /\ \A o \in Range(delivered'[p]) : o < queue'[k].offset
               /\ Reaches(p, queue[k].offset, k)'
    <3>1. /\ \A o \in Range(delivered[p]) : o < queue[From(k)].offset
          /\ Reaches(p, queue[From(k)].offset, From(k))
      BY <1>3, <1>5, <2>1, <2>3 DEF NoGap
    <3> QED
      BY <1>3, <1>9, <2>2, <3>1
  <2>4. ASSUME NEW k \in DOMAIN queue', EndAt(k, p)'
        PROVE  Reaches(p, queue[k].offset, k)'
    <3>1. Reaches(p, queue[From(k)].offset, From(k))
      BY <1>3, <1>5, <2>1, <2>4 DEF NoGap
    <3> QED
      BY <1>3, <1>9, <2>2, <3>1
  <2>5. position'[p] >= 0 => Reaches(p, position[p], Len(queue) + 1)'
    <3>1. ASSUME position[p] >= 0, NEW x \in Int, x = position[p],
                 NEW k \in 1..Len(queue), k = Len(queue)
          PROVE  Reaches(p, x, k)'
      <4>1. Reaches(p, x, From(k))
        <5>1. From(k) = Len(queue) + 1
          BY <1>1, <3>1 DEF From
        <5> QED
          BY <2>1, <3>1, <5>1 DEF NoGap
      <4> QED
        BY <1>9, <4>1
    <3>2. Len(queue') + 1 \in 1..Len(queue) /\ Len(queue') + 1 = Len(queue)
      BY <1>1, <1>2
    <3> QED
      BY <3>1, <3>2, PartitionTypes
  <2>6. position'[p] >= 0 => \A o \in Range(delivered'[p]) : o < position'[p]
    BY <2>1 DEF NoGap
  <2> QED
    BY <2>3, <2>4, <2>5, <2>6 DEF NoGap
<1> QED
  BY <1>6, <1>7, <1>8, <1>10

LEMMA OutdateIInv ==
    ASSUME IInv, NEW q \in Partitions, Outdate(q)
    PROVE  IInv'
<1> USE DEF Outdate, logVars, rangeVars, fetchVars, pollVars
<1>1. TypeOK /\ Untouched
  BY DEF IInv, RemainingIsExact
<1>2. PICK n \in (batch + 1)..Len(queue) :
            queue[n].partition = q /\ queue' = RemoveAt(queue, n)
  OBVIOUS
<1>3. n \in DOMAIN queue /\ batch < Len(queue)
  <2>1. batch \in 0..Len(queue)
    BY <1>1 DEF TypeOK
  <2> QED
    BY <1>1, <1>2, <2>1, QueueTypes
<1>4. Lacks(n)
  BY <1>1, <1>2, <1>3, OneRemoved
<1>5. RemainingIsExact'
  <2>1. batch \in 0..(Len(queue) - 1) /\ batch' = batch
    BY <1>1, <1>3, QueueTypes DEF TypeOK
  <2>2. queue' \in Seq(Messages) /\ batch' \in 0..Len(queue')
    BY <1>4, <2>1 DEF Lacks
  <2>3. TypeOK'
    BY <1>1, <2>2 DEF TypeOK, Messages
  <2> QED
    BY <2>3 DEF IInv, RemainingIsExact
<1>6. Untouched'
  BY <1>1, <1>3 DEF Untouched
<1>7. ASSUME NEW p \in Partitions PROVE PartitionInv(p)'
  <2>1. PartitionInv(p)
    BY DEF IInv
  <2>2. RecordAt(n, p) => p \in done
    BY <1>1, <1>2 DEF RecordAt, TypeOK
  <2>3. Fresh(p)' /\ Reading(p)' /\ QueuedWell(p)' /\ NoGap(p)' /\ DeliveredWell(p)'
    BY <1>1, <1>3, <1>4, <2>1, <2>2, DropKeeps
  <2>4. FinishedWell(p)' /\ Located(p)'
    BY <2>1 DEF PartitionInv, FinishedWell, Located, EmptyRange, Limit, Wanted, Bounds
  <2> QED
    BY <2>3, <2>4 DEF PartitionInv
<1> QED
  BY <1>5, <1>6, <1>7 DEF IInv

-----------------------------------------------------------------------------
\* poll.

LEMMA TakeFacts ==
    ASSUME TypeOK, NEW kind, Take(kind)
    PROVE  /\ Lacks(1) /\ 1 \in DOMAIN queue
           /\ Head(queue) = queue[1] /\ queue[1].kind = kind
           /\ queue[1].partition \in Partitions /\ queue[1].offset \in Int
           /\ queue' \in Seq(Messages) /\ batch' \in 0..Len(queue')
           /\ phase = "assigned" /\ remaining > 0
<1> USE DEF Take, Polling
<1>1. Lacks(1) /\ 1 \in DOMAIN queue /\ Head(queue) = queue[1]
  BY HeadTaken
<1>2. queue[1].partition \in Partitions /\ queue[1].offset \in Int
  BY <1>1, QueueTypes
<1>3. queue' \in Seq(Messages) /\ Len(queue') = Len(queue) - 1
  BY <1>1 DEF Lacks
<1>4. batch' \in 0..Len(queue')
  <2>1. batch \in 0..Len(queue) /\ Len(queue) \in Nat /\ Len(queue) >= 1
    <3>1. batch \in 0..Len(queue)
      BY DEF TypeOK
    <3>2. Len(queue) \in Nat /\ 1 \in 1..Len(queue)
      BY <1>1, QueueTypes
    <3> QED
      BY <3>1, <3>2
  <2>2. BatchSize \in Nat \ {0}
    BY KafkaAssumption
  <2>3. CASE batch > 0
    BY <1>3, <2>1, <2>3
  <2>4. CASE ~(batch > 0)
    BY <1>3, <2>1, <2>2, <2>4
  <2> QED
    BY <2>3, <2>4
<1> QED
  BY <1>1, <1>2, <1>3, <1>4

\* finish takes a partition from those that remain, once.
LEMMA FinishCounts ==
    ASSUME TypeOK, remaining = Cardinality(Partitions \ done),
           NEW q \in Partitions, Finish(q)
    PROVE  /\ done' = done \union {q} /\ paused' \subseteq done'
           /\ remaining' \in Nat /\ remaining' = Cardinality(Partitions \ done')
           /\ phase' \in {phase, "failed"}
<1> USE DEF Finish, Fail
<1>1. done \subseteq Partitions /\ paused \subseteq done /\ remaining \in Nat
  BY DEF TypeOK
<1>2. CASE q \in done
  BY <1>1, <1>2
<1>3. CASE q \notin done
  <2>1. IsFiniteSet(Partitions \ done)
    BY KafkaAssumption, FS_Subset
  <2>2. Partitions \ done' = (Partitions \ done) \ {q}
    BY <1>3
  <2>3. /\ IsFiniteSet((Partitions \ done) \ {q})
        /\ Cardinality((Partitions \ done) \ {q}) = Cardinality(Partitions \ done) - 1
    BY <1>3, <2>1, FS_RemoveElement
  <2>4. Cardinality((Partitions \ done) \ {q}) \in Nat
    BY <2>3, FS_CardinalityType
  <2> QED
    BY <1>1, <1>3, <2>2, <2>3, <2>4
<1> QED
  BY <1>2, <1>3

\* A message that delivers nothing, and finishes its partition only if that has
\* delivered what lies below its end.
LEMMA PollQuietIInv ==
    ASSUME IInv, NEW kind, Take(kind), NEW q, q = queue[1].partition,
           UNCHANGED <<logVars, rangeVars, fetchVars, errors, delivered>>,
           done' \in {done, done \union {q}}, paused' \subseteq done', remaining' \in Nat,
           remaining' = Cardinality(Partitions \ done'), phase' \in {phase, "failed"},
           RecordAt(1, q) => q \in done' \/ queue[1].offset < first[q],
           q \in done' \ done => /\ Limit(q) <= high[q]
                                 /\ Wanted(q, Limit(q)) \subseteq Range(delivered[q])
    PROVE  IInv'
<1>1. TypeOK /\ Untouched
  BY DEF IInv, RemainingIsExact
<1>2. /\ Lacks(1) /\ 1 \in DOMAIN queue /\ queue[1].kind = kind /\ q \in Partitions
      /\ queue' \in Seq(Messages) /\ batch' \in 0..Len(queue') /\ phase = "assigned"
  BY <1>1, TakeFacts
<1>3. TypeOK'
  BY <1>1, <1>2 DEF TypeOK, Messages, logVars, rangeVars, fetchVars
<1>4. RemainingIsExact'
  BY <1>3 DEF RemainingIsExact
<1>5. Untouched'
  BY <1>2 DEF Untouched
<1>6. ASSUME NEW p \in Partitions PROVE PartitionInv(p)'
  <2>1. PartitionInv(p) /\ PartitionInv(q)
    BY <1>2 DEF IInv
  <2>2. position[q] # Unlocated
    BY <1>2, <2>1 DEF PartitionInv, Fresh
  <2>3. RecordAt(1, p) => p \in done' \/ queue[1].offset < first[p]
    BY DEF RecordAt
  <2>4. Fresh(p)' /\ Reading(p)' /\ QueuedWell(p)' /\ NoGap(p)' /\ DeliveredWell(p)'
    BY <1>1, <1>2, <2>1, <2>2, <2>3, DropKeeps
  <2>5. FinishedWell(p)'
    <3>1. FinishedWell(p)
      BY <2>1 DEF PartitionInv
    <3>2. UNCHANGED <<request, start, end, opened, high, first, delivered>>
      BY DEF logVars, rangeVars, fetchVars
    <3>3. CASE p \in done' \ done
      BY <3>2, <3>3 DEF FinishedWell, Limit, Wanted
    <3>4. CASE p \notin done' \ done
      BY <3>1, <3>2, <3>4 DEF FinishedWell, Limit, Wanted, EmptyRange
    <3> QED
      BY <3>3, <3>4
  <2>6. Located(p)'
    BY <1>2, <2>1 DEF PartitionInv, Located, Bounds, logVars, rangeVars
  <2> QED
    BY <2>4, <2>5, <2>6 DEF PartitionInv
<1> QED
  BY <1>4, <1>5, <1>6 DEF IInv

\* The head of the queue tells that nothing wanted before it is missing.
LEMMA HeadReaches ==
    ASSUME TypeOK, NEW q \in Partitions, PartitionInv(q), q \notin done,
           1 \in DOMAIN queue, RecordAt(1, q) \/ EndAt(1, q),
           NEW limit \in Int, limit <= queue[1].offset
    PROVE  /\ limit <= high[q]
           /\ Wanted(q, limit) \subseteq Range(delivered[q])
<1>1. queue[1].offset \in Int /\ queue[1].offset <= high[q]
  BY QueueBelow
<1>2. Reaches(q, queue[1].offset, 1)
  BY DEF PartitionInv, NoGap
<1>3. Wanted(q, queue[1].offset) \subseteq Range(delivered[q])
  BY <1>2 DEF Reaches
<1>4. Wanted(q, limit) \subseteq Wanted(q, queue[1].offset)
  BY <1>1, PartitionTypes DEF Wanted
<1> QED
  BY <1>1, <1>3, <1>4, PartitionTypes

LEMMA PollEofIInv == IInv /\ PollEof => IInv'
<1> SUFFICES ASSUME IInv, PollEof PROVE IInv'
  OBVIOUS
<1> DEFINE q == queue[1].partition
<1>1. TypeOK
  BY DEF IInv, RemainingIsExact
<1>2. Take("eof") /\ UNCHANGED <<logVars, rangeVars, fetchVars, errors, delivered>>
  BY DEF PollEof
<1>3. /\ 1 \in DOMAIN queue /\ Head(queue) = queue[1] /\ queue[1].kind = "eof"
      /\ q \in Partitions /\ phase = "assigned" /\ EndAt(1, q) /\ ~RecordAt(1, q)
  BY <1>1, <1>2, TakeFacts DEF EndAt, RecordAt
<1>4. remaining = Cardinality(Partitions \ done) /\ PartitionInv(q)
  BY <1>3 DEF IInv, RemainingIsExact
<1>5. CASE EofFinishes(queue[1]) /\ Finish(q)
  <2>1. /\ done' = done \union {q} /\ paused' \subseteq done'
        /\ remaining' \in Nat /\ remaining' = Cardinality(Partitions \ done')
        /\ phase' \in {phase, "failed"}
    BY <1>1, <1>3, <1>4, <1>5, FinishCounts
  <2>2. ASSUME q \notin done
        PROVE  Limit(q) <= high[q] /\ Wanted(q, Limit(q)) \subseteq Range(delivered[q])
    <3>1. Limit(q) \in Int /\ Limit(q) <= queue[1].offset
      BY <1>1, <1>3, <1>4, <1>5, PartitionTypes
         DEF Limit, EofFinishes, PartitionInv, QueuedWell
    <3> QED
      BY <1>1, <1>3, <1>4, <2>2, <3>1, HeadReaches
  <2> QED
    BY <1>2, <1>3, <2>1, <2>2, PollQuietIInv
<1>6. CASE Stay
  BY <1>1, <1>2, <1>3, <1>4, <1>6, PollQuietIInv DEF Stay, TypeOK
<1> QED
  BY <1>3, <1>5, <1>6 DEF PollEof

LEMMA PollIgnoredIInv == IInv /\ PollIgnored => IInv'
<1> SUFFICES ASSUME IInv, PollIgnored PROVE IInv'
  OBVIOUS
<1> DEFINE q == queue[1].partition
<1>1. TypeOK
  BY DEF IInv, RemainingIsExact
<1>2. Take("record") /\ Stay /\ UNCHANGED <<logVars, rangeVars, fetchVars, errors, delivered>>
  BY DEF PollIgnored
<1>3. /\ 1 \in DOMAIN queue /\ Head(queue) = queue[1] /\ queue[1].kind = "record"
      /\ q \in Partitions /\ phase = "assigned" /\ RecordAt(1, q)
  BY <1>1, <1>2, TakeFacts DEF RecordAt
<1>4. remaining = Cardinality(Partitions \ done) /\ PartitionInv(q)
  BY <1>3 DEF IInv, RemainingIsExact
<1>5. q \in done' \/ queue[1].offset < first[q]
  <2>1. q \in done \/ Early(queue[1])
    BY <1>3 DEF PollIgnored
  <2> QED
    BY <1>2, <1>3, <1>4, <2>1 DEF Stay, PartitionInv, QueuedWell
<1> QED
  BY <1>1, <1>2, <1>3, <1>4, <1>5, PollQuietIInv DEF Stay, TypeOK

LEMMA PollBeyondIInv == IInv /\ PollBeyond => IInv'
<1> SUFFICES ASSUME IInv, PollBeyond PROVE IInv'
  OBVIOUS
<1> DEFINE q == queue[1].partition
<1>1. TypeOK
  BY DEF IInv, RemainingIsExact
<1>2. Take("record") /\ UNCHANGED <<logVars, rangeVars, fetchVars, errors, delivered>>
  BY DEF PollBeyond
<1>3. /\ 1 \in DOMAIN queue /\ Head(queue) = queue[1] /\ queue[1].kind = "record"
      /\ q \in Partitions /\ phase = "assigned" /\ RecordAt(1, q)
  BY <1>1, <1>2, TakeFacts DEF RecordAt
<1>4. remaining = Cardinality(Partitions \ done) /\ PartitionInv(q)
  BY <1>3 DEF IInv, RemainingIsExact
<1>5. q \notin done /\ Beyond(queue[1]) /\ Finish(q)
  BY <1>3 DEF PollBeyond
<1>6. /\ done' = done \union {q} /\ paused' \subseteq done'
      /\ remaining' \in Nat /\ remaining' = Cardinality(Partitions \ done')
      /\ phase' \in {phase, "failed"}
  BY <1>1, <1>3, <1>4, <1>5, FinishCounts
<1>7. Limit(q) <= high[q] /\ Wanted(q, Limit(q)) \subseteq Range(delivered[q])
  <2>1. Limit(q) \in Int /\ Limit(q) <= queue[1].offset
    BY <1>1, <1>3, <1>5, PartitionTypes, QueueTypes DEF Limit, Beyond
  <2> QED
    BY <1>1, <1>3, <1>4, <1>5, <2>1, HeadReaches
<1> QED
  BY <1>2, <1>3, <1>6, <1>7, PollQuietIInv

LEMMA PollErrorIInv == IInv /\ (PollError \/ PollReset) => IInv'
<1> SUFFICES ASSUME IInv, PollError \/ PollReset PROVE IInv'
  OBVIOUS
<1> DEFINE q == queue[1].partition
<1>1. TypeOK
  BY DEF IInv, RemainingIsExact
<1>2. PICK kind \in {"error", "reset"} : Take(kind)
  BY DEF PollError, PollReset
<1>3. /\ UNCHANGED <<logVars, rangeVars, fetchVars, errors, delivered, done, remaining, paused>>
      /\ phase' \in {phase, "failed"}
  BY DEF PollError, PollReset, Fail
<1>4. q \in Partitions /\ phase = "assigned" /\ ~RecordAt(1, q)
  BY <1>1, <1>2, TakeFacts DEF RecordAt
<1>5. remaining = Cardinality(Partitions \ done)
  BY <1>4 DEF IInv, RemainingIsExact
<1> QED
  BY <1>1, <1>2, <1>3, <1>4, <1>5, PollQuietIInv DEF TypeOK

\* A record of the range follows what its partition has delivered.
LEMMA NextDelivered ==
    ASSUME TypeOK, NEW p \in Partitions, PartitionInv(p), p \notin done,
           1 \in DOMAIN queue, RecordAt(1, p), ~Beyond(queue[1]), ~Early(queue[1]),
           UNCHANGED <<logVars, rangeVars, fetchVars>>,
           delivered'[p] = Append(delivered[p], queue[1].offset)
    PROVE  /\ delivered'[p] \in Seq(Nat) /\ Len(delivered'[p]) = Len(delivered[p]) + 1
           /\ Range(delivered'[p]) = Range(delivered[p]) \union {queue[1].offset}
           /\ DeliveredWell(p)'
<1> USE DEF logVars, rangeVars, fetchVars
<1> DEFINE d == queue[1].offset
           n == Len(delivered[p])
<1>1. d \in Nat /\ d < high[p] /\ first[p] <= d /\ <<p, d>> \notin Invisible \union Bad
  <2>1. QueuedWell(p) /\ d \in Int /\ first[p] \in Int
    BY PartitionTypes, QueueTypes DEF PartitionInv
  <2> QED
    BY <2>1 DEF QueuedWell
<1>2. end[p] # NoEnd => d < end[p]
  BY <1>1, PartitionTypes DEF Beyond, RecordAt
<1>3. delivered[p] \in Seq(Nat) /\ n \in Nat /\ DOMAIN delivered[p] = 1..n
  BY PartitionTypes
<1>4. /\ delivered'[p] \in Seq(Nat) /\ Len(delivered'[p]) = n + 1
      /\ DOMAIN delivered'[p] = 1..(n + 1)
      /\ \A i \in 1..n : delivered'[p][i] = delivered[p][i]
      /\ delivered'[p][n + 1] = d
  BY <1>1, <1>3, AppendProperties
<1>5. /\ Range(delivered[p]) = {delivered[p][j] : j \in 1..n}
      /\ Range(delivered'[p]) = {delivered'[p][j] : j \in 1..(n + 1)}
  BY <1>3, <1>4 DEF Range
<1>6. /\ Range(delivered'[p]) = Range(delivered[p]) \union {d}
  BY <1>3, <1>4, <1>5, SMTT(30)
<1>7. DeliveredWell(p) /\ NoGap(p)
  BY DEF PartitionInv
<1>8. \A i \in 1..n : delivered[p][i] < d /\ delivered[p][i] \in Nat
  <2>1. \A o \in Range(delivered[p]) : o < d
    BY <1>7 DEF NoGap
  <2> QED
    BY <1>3, <1>5, <2>1, ElementOfSeq
<1>9. ASSUME NEW x \in Int PROVE Wanted(p, x)' = Wanted(p, x)
  BY DEF Wanted
<1>10. Wanted(p, d + 1) = {delivered'[p][j] : j \in 1..(n + 1)}
  <2>1. Wanted(p, d) \subseteq Range(delivered[p])
    BY <1>1, HeadReaches
  <2>2. Wanted(p, d + 1) = Wanted(p, d) \union {d}
    BY <1>1, WantedNext
  <2>3. Range(delivered[p]) \subseteq Wanted(p, d)
    <3> SUFFICES ASSUME NEW i \in 1..n PROVE delivered[p][i] \in Wanted(p, d)
      BY <1>5
    <3>1. Wanted(p, delivered[p][i] + 1) = {delivered[p][j] : j \in 1..i}
      BY <1>3, <1>7 DEF DeliveredWell
    <3>3. i \in 1..i
      BY <1>3
    <3>2. delivered[p][i] \in Wanted(p, delivered[p][i] + 1)
      BY <3>1, <3>3
    <3> QED
      BY <1>1, <1>8, <3>2 DEF Wanted
  <2> QED
    BY <1>5, <1>6, <2>1, <2>2, <2>3
<1>12. ASSUME NEW i \in 1..(n + 1), NEW x, x = delivered'[p][i]
       PROVE  /\ x < high'[p]
              /\ Wanted(p, x + 1)' = {delivered'[p][j] : j \in 1..i}
              /\ end'[p] # NoEnd => x < end'[p]
  <2>1. CASE i = n + 1
    <3>1. x = d
      BY <1>4, <1>12, <2>1
    <3>2. Wanted(p, x + 1)' = Wanted(p, x + 1)
      BY <1>1, <1>9, <3>1
    <3> QED
      BY <1>1, <1>2, <1>10, <2>1, <3>1, <3>2
  <2>2. CASE i \in 1..n
    <3>1. x = delivered[p][i] /\ x \in Nat
      BY <1>4, <1>8, <1>12, <2>2
    <3>2. /\ x < high[p]
          /\ Wanted(p, x + 1) = {delivered[p][j] : j \in 1..i}
          /\ end[p] # NoEnd => x < end[p]
      BY <1>3, <1>7, <2>2, <3>1 DEF DeliveredWell
    <3>3. {delivered'[p][j] : j \in 1..i} = {delivered[p][j] : j \in 1..i}
      BY <1>3, <1>4, <2>2
    <3>4. Wanted(p, x + 1)' = Wanted(p, x + 1)
      BY <1>9, <3>1
    <3> QED
      BY <3>2, <3>3, <3>4
  <2>3. i = n + 1 \/ i \in 1..n
    BY <1>3
  <2> QED
    BY <2>1, <2>2, <2>3
<1>11. \A i, j \in 1..(n + 1) : i < j => delivered'[p][i] < delivered'[p][j]
  <2> SUFFICES ASSUME NEW i \in 1..(n + 1), NEW j \in 1..(n + 1), i < j
               PROVE  delivered'[p][i] < delivered'[p][j]
    OBVIOUS
  <2>1. i \in 1..n /\ delivered'[p][i] = delivered[p][i]
    BY <1>3, <1>4
  <2>2. CASE j = n + 1
    BY <1>4, <1>8, <2>1, <2>2
  <2>3. CASE j \in 1..n
    BY <1>3, <1>4, <1>7, <2>1, <2>3 DEF DeliveredWell
  <2> QED
    BY <1>3, <2>2, <2>3
<1>13. DeliveredWell(p)'
  BY <1>4, <1>11, <1>12 DEF DeliveredWell
<1> QED
  BY <1>4, <1>6, <1>13

LEMMA RecordKeeps ==
    ASSUME TypeOK, NEW p \in Partitions, PartitionInv(p), p \notin done,
           1 \in DOMAIN queue, Lacks(1), RecordAt(1, p),
           ~Beyond(queue[1]), ~Early(queue[1]),
           UNCHANGED <<logVars, rangeVars, fetchVars>>,
           delivered'[p] = Append(delivered[p], queue[1].offset)
    PROVE  Fresh(p)' /\ Reading(p)' /\ QueuedWell(p)' /\ NoGap(p)'
<1> USE DEF logVars, rangeVars, fetchVars
<1> DEFINE d == queue[1].offset
<1>1. /\ Len(queue) \in Nat /\ DOMAIN queue = 1..Len(queue)
      /\ \A i \in DOMAIN queue : queue[i].partition \in Partitions /\ queue[i].offset \in Int
  BY QueueTypes
<1>2. DOMAIN queue' = 1..(Len(queue) - 1) /\ Len(queue') = Len(queue) - 1
  BY <1>1 DEF Lacks
<1>3. \A k \in DOMAIN queue' : k + 1 \in DOMAIN queue /\ queue'[k] = queue[k + 1]
  BY <1>1, <1>2 DEF Lacks
<1>4. \A k \in DOMAIN queue' :
        /\ RecordAt(k, p)' <=> RecordAt(k + 1, p)
        /\ EndAt(k, p)' <=> EndAt(k + 1, p)
  BY <1>3 DEF RecordAt, EndAt
<1>5. Fresh(p)'
  BY DEF PartitionInv, Fresh, RecordAt
<1>6. Reading(p)'
  BY DEF PartitionInv, Reading
<1>7. QueuedWell(p)'
  BY <1>1, <1>2, <1>3, <1>4, SMTT(30) DEF PartitionInv, QueuedWell, Early
<1>8. Range(delivered'[p]) = Range(delivered[p]) \union {d}
  BY NextDelivered
<1>9. QueuedWell(p) /\ NoGap(p)
  BY DEF PartitionInv
<1>10. ASSUME NEW limit \in Int, NEW k \in 1..Len(queue), Reaches(p, limit, k + 1)
       PROVE  Reaches(p, limit, k)'
  <2> SUFFICES ASSUME NEW o \in Wanted(p, limit)', o \notin Range(delivered'[p])
               PROVE  \E j \in 1..(k - 1) : Holds(j, p, o)'
    BY DEF Reaches
  <2>1. o \in Wanted(p, limit) /\ o \notin Range(delivered[p]) /\ o # d
    BY <1>8 DEF Wanted
  <2>2. PICK j \in 1..k : Holds(j, p, o)
    BY <1>1, <1>10, <2>1 DEF Reaches
  <2>3. j # 1
    BY <2>1, <2>2 DEF Holds
  <2>4. j - 1 \in 1..(k - 1) /\ j - 1 \in DOMAIN queue' /\ (j - 1) + 1 = j
    BY <1>1, <1>2, <2>2, <2>3
  <2> QED
    BY <1>3, <2>2, <2>4 DEF Holds, RecordAt
<1>11. NoGap(p)'
  <2>1. ASSUME NEW k \in DOMAIN queue', RecordAt(k, p)'
        PROVE  /\ \A o \in Range(delivered'[p]) : o < queue'[k].offset
               /\ Reaches(p, queue[k].offset, k)'
    <3>1. k + 1 \in DOMAIN queue /\ RecordAt(k + 1, p) /\ 1 < k + 1 /\ k \in 1..Len(queue)
      BY <1>1, <1>2, <1>3, <1>4, <2>1
    <3>2. /\ \A o \in Range(delivered[p]) : o < queue[k + 1].offset
          /\ Reaches(p, queue[k + 1].offset, k + 1)
      BY <1>9, <3>1 DEF NoGap
    <3>3. d < queue[k + 1].offset
      BY <1>9, <3>1 DEF QueuedWell
    <3> QED
      BY <1>1, <1>3, <1>8, <1>10, <3>1, <3>2, <3>3
  <2>2. ASSUME NEW k \in DOMAIN queue', EndAt(k, p)'
        PROVE  Reaches(p, queue[k].offset, k)'
    <3>1. k + 1 \in DOMAIN queue /\ EndAt(k + 1, p) /\ k \in 1..Len(queue)
      BY <1>1, <1>2, <1>3, <1>4, <2>2
    <3>2. Reaches(p, queue[k + 1].offset, k + 1)
      BY <1>9, <3>1 DEF NoGap
    <3> QED
      BY <1>1, <1>3, <1>10, <3>1, <3>2
  <2>3. position'[p] >= 0 => Reaches(p, position[p], Len(queue) + 1)'
    <3>1. ASSUME position[p] >= 0, NEW x \in Int, x = position[p],
                 NEW k \in 1..Len(queue), k = Len(queue)
          PROVE  Reaches(p, x, k)'
      <4>1. Reaches(p, x, k + 1)
        BY <1>9, <3>1 DEF NoGap
      <4> QED
        BY <1>10, <4>1
    <3>2. Len(queue') + 1 \in 1..Len(queue) /\ Len(queue') + 1 = Len(queue)
      BY <1>1, <1>2
    <3> QED
      BY <3>1, <3>2, PartitionTypes
  <2>4. position'[p] >= 0 => \A o \in Range(delivered'[p]) : o < position'[p]
    <3>1. position[p] = Lost \/ d < position[p]
      BY <1>9 DEF QueuedWell
    <3>2. position[p] >= 0 => d < position[p]
      BY <3>1 DEF Lost
    <3> QED
      BY <1>8, <1>9, <3>2 DEF NoGap
  <2> QED
    BY <2>1, <2>2, <2>3, <2>4 DEF NoGap
<1> QED
  BY <1>5, <1>6, <1>7, <1>11

LEMMA PollRecordIInv == IInv /\ PollRecord => IInv'
<1> SUFFICES ASSUME IInv, PollRecord, NEW q, q = queue[1].partition,
                    NEW d, d = queue[1].offset
             PROVE  IInv'
  OBVIOUS
<1> DEFINE counted == request.count # NoCount /\ Len(delivered[q]) + 1 >= request.count
<1>1. TypeOK
  BY DEF IInv, RemainingIsExact
<1>2. Take("record") /\ UNCHANGED <<logVars, rangeVars, fetchVars, errors>>
  BY DEF PollRecord
<1>3. /\ Lacks(1) /\ 1 \in DOMAIN queue /\ Head(queue) = queue[1] /\ queue[1].kind = "record"
      /\ q \in Partitions /\ phase = "assigned" /\ RecordAt(1, q)
      /\ queue' \in Seq(Messages) /\ batch' \in 0..Len(queue')
  BY <1>1, <1>2, TakeFacts DEF RecordAt
<1>4. remaining = Cardinality(Partitions \ done) /\ PartitionInv(q)
  BY <1>3 DEF IInv, RemainingIsExact
<1>5. /\ q \notin done /\ ~Beyond(queue[1]) /\ ~Early(queue[1])
      /\ delivered' = [delivered EXCEPT ![q] = Append(@, d)]
      /\ IF counted THEN Finish(q) ELSE Stay
  BY <1>3 DEF PollRecord
<1>6. /\ done' = (IF counted THEN done \union {q} ELSE done) /\ paused' \subseteq done'
      /\ remaining' \in Nat /\ remaining' = Cardinality(Partitions \ done')
      /\ phase' \in {phase, "failed"}
  <2>1. CASE counted
    BY <1>1, <1>3, <1>4, <1>5, <2>1, FinishCounts
  <2>2. CASE ~counted
    BY <1>1, <1>4, <1>5, <2>2 DEF Stay, TypeOK
  <2> QED
    BY <2>1, <2>2
<1>7. delivered \in [Partitions -> Seq(Nat)]
  BY <1>1 DEF TypeOK
<1>8. delivered'[q] = Append(delivered[q], d)
  BY <1>3, <1>5, <1>7
<1>9. /\ delivered'[q] \in Seq(Nat) /\ Len(delivered'[q]) = Len(delivered[q]) + 1
      /\ DeliveredWell(q)'
  BY <1>1, <1>2, <1>3, <1>4, <1>5, <1>8, NextDelivered
<1>10. \A p \in Partitions \ {q} : delivered'[p] = delivered[p]
  BY <1>5, <1>7
<1>11. delivered' \in [Partitions -> Seq(Nat)]
  BY <1>5, <1>7, <1>8, <1>9
<1>12. RemainingIsExact'
  <2>1. UNCHANGED <<request, low, high, marks, start, end, position, eofAt, errors, first, opened>>
    BY <1>2 DEF logVars, rangeVars, fetchVars
  <2>2. done' \subseteq Partitions /\ phase' \in {"assigned", "failed"}
    BY <1>1, <1>3, <1>6 DEF TypeOK
  <2>3. TypeOK'
    BY <1>1, <1>3, <1>6, <1>11, <2>1, <2>2 DEF TypeOK, Messages
  <2> QED
    BY <1>6, <2>3 DEF RemainingIsExact
<1>13. Untouched'
  BY <1>3, <1>6 DEF Untouched
<1>14. ASSUME NEW p \in Partitions PROVE PartitionInv(p)'
  <2>1. PartitionInv(p)
    BY DEF IInv
  <2>2. Located(p)'
    BY <1>2, <1>3, <1>6, <2>1 DEF PartitionInv, Located, Bounds, logVars, rangeVars
  <2>3. UNCHANGED <<request, start, end, opened, high, first>>
    BY <1>2 DEF logVars, rangeVars, fetchVars
  <2>4. CASE p = q
    <3>1. Fresh(p)' /\ Reading(p)' /\ QueuedWell(p)' /\ NoGap(p)'
      BY <1>1, <1>2, <1>3, <1>4, <1>5, <1>8, <2>4, RecordKeeps
    <3>2. FinishedWell(p)'
      <4>5. request \in Requests
        BY <1>1 DEF TypeOK
      <4>1. request.count \in Nat /\ Len(delivered[q]) \in Nat
        BY <1>3, <1>7, <4>5, KafkaAssumption
      <4>2. request.count # NoCount => Len(delivered[q]) < request.count
        BY <1>4, <1>5 DEF PartitionInv, FinishedWell
      <4>3. CASE counted
        BY <1>6, <1>9, <2>3, <2>4, <4>1, <4>2, <4>3 DEF FinishedWell
      <4>4. CASE ~counted
        BY <1>5, <1>6, <1>9, <2>3, <2>4, <4>1, <4>4 DEF FinishedWell
      <4> QED
        BY <4>3, <4>4
    <3> QED
      BY <1>9, <2>2, <2>4, <3>1, <3>2 DEF PartitionInv
  <2>5. CASE p # q
    <3>1. delivered'[p] = delivered[p] /\ (p \in done' <=> p \in done) /\ ~RecordAt(1, p)
      BY <1>6, <1>10, <2>5 DEF RecordAt
    <3>2. Fresh(p)' /\ Reading(p)' /\ QueuedWell(p)' /\ NoGap(p)' /\ DeliveredWell(p)'
      BY <1>1, <1>2, <1>3, <2>1, <3>1, DropKeeps
    <3>3. FinishedWell(p)'
      BY <2>1, <2>3, <3>1 DEF PartitionInv, FinishedWell, Limit, Wanted, EmptyRange
    <3> QED
      BY <2>2, <3>2, <3>3 DEF PartitionInv
  <2> QED
    BY <2>4, <2>5
<1> QED
  BY <1>12, <1>13, <1>14 DEF IInv

-----------------------------------------------------------------------------
\* The client library: the queue gets at most a message more.

\* The queue with one message more.
Adds(m) ==
    /\ queue' \in Seq(Messages) /\ Len(queue') = Len(queue) + 1
    /\ queue'[Len(queue) + 1] = m
    /\ \A i \in 1..Len(queue) : queue'[i] = queue[i]

LEMMA Appended ==
    ASSUME TypeOK, NEW m \in Messages, queue' = Append(queue, m)
    PROVE  Adds(m)
<1>1. queue \in Seq(Messages) /\ Len(queue) \in Nat
  BY QueueTypes
<1> QED
  BY <1>1, AppendProperties DEF Adds

LEMMA FetchedAdds ==
    ASSUME TypeOK, NEW p \in Partitions, NEW o \in Int, queue' = queue \o Fetched(p, o)
    PROVE  \/ <<p, o>> \in Invisible /\ queue' = queue
           \/ <<p, o>> \in Bad /\ Adds(Message("error", p, o))
           \/ <<p, o>> \notin Invisible \union Bad /\ Adds(Message("record", p, o))
<1>1. queue \in Seq(Messages) /\ Len(queue) \in Nat
  BY QueueTypes
<1>2. ASSUME NEW m \in Messages PROVE queue \o <<m>> = Append(queue, m)
  BY <1>1
<1>3. CASE <<p, o>> \in Invisible
  BY <1>1, <1>3 DEF Fetched
<1>4. CASE <<p, o>> \notin Invisible /\ <<p, o>> \in Bad
  <2>1. Message("error", p, o) \in Messages
    BY DEF Message, Messages, Kinds
  <2> QED
    BY <1>2, <1>4, <2>1, Appended DEF Fetched
<1>5. CASE <<p, o>> \notin Invisible /\ <<p, o>> \notin Bad
  <2>1. Message("record", p, o) \in Messages
    BY DEF Message, Messages, Kinds
  <2> QED
    BY <1>2, <1>5, <2>1, Appended DEF Fetched
<1> QED
  BY <1>3, <1>4, <1>5

\* The queue stays, or gets a message of partition q.
Grows(q) ==
    \/ queue' = queue
    \/ \E m \in Messages : m.partition = q /\ Adds(m)

LEMMA GrowFacts ==
    ASSUME TypeOK, NEW q, Grows(q)
    PROVE  /\ queue' \in Seq(Messages) /\ Len(queue') \in {Len(queue), Len(queue) + 1}
           /\ DOMAIN queue' = 1..Len(queue')
           /\ \A i \in 1..Len(queue) : queue'[i] = queue[i]
           /\ \A i \in DOMAIN queue' : i \notin 1..Len(queue) => queue'[i].partition = q
<1>1. queue \in Seq(Messages) /\ Len(queue) \in Nat /\ DOMAIN queue = 1..Len(queue)
  BY QueueTypes
<1>2. CASE queue' = queue
  BY <1>1, <1>2
<1>3. ASSUME NEW m \in Messages, m.partition = q, Adds(m)
      PROVE  /\ queue' \in Seq(Messages) /\ Len(queue') = Len(queue) + 1
             /\ DOMAIN queue' = 1..Len(queue')
             /\ \A i \in 1..Len(queue) : queue'[i] = queue[i]
             /\ \A i \in DOMAIN queue' : i \notin 1..Len(queue) => queue'[i].partition = q
  BY <1>1, <1>3 DEF Adds
<1> QED
  BY <1>2, <1>3 DEF Grows

LEMMA GrowReaches ==
    ASSUME TypeOK, NEW q, Grows(q), NEW p \in Partitions,
           NEW limit \in Int, NEW i \in 1..(Len(queue) + 1), NEW k \in Int, i <= k,
           Wanted(p, limit)' = Wanted(p, limit), delivered' = delivered, Reaches(p, limit, i)
    PROVE  Reaches(p, limit, k)'
<1>1. Len(queue) \in Nat /\ \A j \in 1..Len(queue) : queue'[j] = queue[j]
  BY GrowFacts, QueueTypes
<1>2. \A j \in 1..(i - 1) : j \in 1..(k - 1) /\ j \in 1..Len(queue)
  BY <1>1
<1> QED
  BY <1>1, <1>2 DEF Reaches, Holds, RecordAt

\* The other partitions do not notice.
LEMMA GrowKeeps ==
    ASSUME TypeOK, NEW q, Grows(q), NEW p \in Partitions, p # q, PartitionInv(p),
           UNCHANGED <<logVars, rangeVars, phase, pollVars>>,
           position'[p] = position[p], first'[p] = first[p]
    PROVE  PartitionInv(p)'
<1> USE DEF logVars, rangeVars, pollVars
<1>1. Len(queue) \in Nat /\ DOMAIN queue = 1..Len(queue)
      /\ \A i \in DOMAIN queue : queue[i].offset \in Int
  BY QueueTypes
<1>2. /\ Len(queue') \in {Len(queue), Len(queue) + 1} /\ DOMAIN queue' = 1..Len(queue')
      /\ \A i \in 1..Len(queue) : queue'[i] = queue[i]
      /\ \A i \in DOMAIN queue' : i \notin 1..Len(queue) => queue'[i].partition = q
  BY GrowFacts
<1>3. ASSUME NEW i \in DOMAIN queue', RecordAt(i, p)' \/ EndAt(i, p)'
      PROVE  /\ i \in DOMAIN queue /\ queue'[i] = queue[i]
             /\ RecordAt(i, p)' <=> RecordAt(i, p)
             /\ EndAt(i, p)' <=> EndAt(i, p)
  <2>1. queue'[i].partition = p
    BY <1>3 DEF RecordAt, EndAt
  <2>2. i \in DOMAIN queue /\ queue'[i] = queue[i]
    BY <1>1, <1>2, <2>1
  <2> QED
    BY <2>2 DEF RecordAt, EndAt
<1>4. \A limit \in Int : Wanted(p, limit)' = Wanted(p, limit)
  BY DEF Wanted
<1>9. Len(queue) \in Nat /\ Len(queue') \in Nat /\ Len(queue) <= Len(queue')
  <2>1. Len(queue') = Len(queue) \/ Len(queue') = Len(queue) + 1
    BY <1>2
  <2> QED
    BY <1>1, <2>1
<1>5. Fresh(p)'
  BY <1>1, <1>2 DEF PartitionInv, Fresh, EmptyRange
<1>6. Reading(p)' /\ DeliveredWell(p)' /\ FinishedWell(p)' /\ Located(p)'
  BY DEF PartitionInv, Reading, DeliveredWell, FinishedWell, Located, Wanted, Limit,
         EmptyRange, Bounds
<1>7. QueuedWell(p)'
  BY <1>3 DEF PartitionInv, QueuedWell, Early
<1>8. NoGap(p)'
  <2> SUFFICES ASSUME p \notin done PROVE NoGap(p)'
    BY DEF NoGap
  <2>1. NoGap(p)
    BY DEF PartitionInv
  <2>2. ASSUME NEW i \in DOMAIN queue', RecordAt(i, p)'
        PROVE  /\ \A o \in Range(delivered'[p]) : o < queue'[i].offset
               /\ Reaches(p, queue[i].offset, i)'
    <3>1. i \in DOMAIN queue /\ queue'[i] = queue[i] /\ RecordAt(i, p)
          /\ i \in 1..(Len(queue) + 1) /\ i <= i
      BY <1>1, <1>3, <2>2
    <3> QED
      BY <1>1, <1>4, <2>1, <3>1, GrowReaches DEF NoGap
  <2>3. ASSUME NEW i \in DOMAIN queue', EndAt(i, p)'
        PROVE  Reaches(p, queue[i].offset, i)'
    <3>1. i \in DOMAIN queue /\ queue'[i] = queue[i] /\ EndAt(i, p)
          /\ i \in 1..(Len(queue) + 1) /\ i <= i
      BY <1>1, <1>3, <2>3
    <3> QED
      BY <1>1, <1>4, <2>1, <3>1, GrowReaches DEF NoGap
  <2>4. position'[p] >= 0 => Reaches(p, position[p], Len(queue) + 1)'
    <3>1. ASSUME position[p] >= 0, NEW x \in Int, x = position[p],
                 NEW k \in Int, k = Len(queue') + 1
          PROVE  Reaches(p, x, k)'
      <4>1. Reaches(p, x, Len(queue) + 1)
        BY <2>1, <3>1 DEF NoGap
      <4>2. Len(queue) + 1 \in 1..(Len(queue) + 1) /\ Len(queue) + 1 <= k
        BY <1>9, <3>1
      <4> QED
        BY <1>4, <3>1, <4>1, <4>2, GrowReaches
    <3> QED
      BY <1>9, <3>1, PartitionTypes
  <2> QED
    BY <2>1, <2>2, <2>3, <2>4 DEF NoGap
<1> QED
  BY <1>5, <1>6, <1>7, <1>8 DEF PartitionInv

\* What the client does with one partition.
LEMMA ClientIInv ==
    ASSUME IInv, NEW q \in Partitions, Grows(q), q \notin paused, phase = "assigned",
           UNCHANGED <<logVars, rangeVars, phase, pollVars>>,
           position' \in [Partitions -> Int], first' \in [Partitions -> Int],
           eofAt' \in [Partitions -> Int],
           \A p \in Partitions \ {q} : position'[p] = position[p] /\ first'[p] = first[p],
           PartitionInv(q)'
    PROVE  IInv'
<1> USE DEF logVars, rangeVars, pollVars
<1>1. TypeOK
  BY DEF IInv, RemainingIsExact
<1>2. queue' \in Seq(Messages) /\ batch \in 0..Len(queue')
  <2>1. queue' \in Seq(Messages) /\ Len(queue') \in {Len(queue), Len(queue) + 1}
    BY <1>1, GrowFacts
  <2>2. batch \in 0..Len(queue) /\ Len(queue) \in Nat
    BY <1>1, QueueTypes DEF TypeOK
  <2> QED
    BY <2>1, <2>2
<1>3. TypeOK'
  BY <1>1, <1>2 DEF TypeOK, Messages
<1>4. RemainingIsExact'
  BY <1>3 DEF IInv, RemainingIsExact
<1>5. Untouched'
  BY DEF Untouched
<1>6. ASSUME NEW p \in Partitions PROVE PartitionInv(p)'
  BY <1>1, GrowKeeps DEF IInv
<1> QED
  BY <1>4, <1>5, <1>6 DEF IInv

\* The client starts to read a partition that nothing was fetched of, or finds
\* that it cannot.
LEMMA LocateIInv ==
    ASSUME IInv, NEW q \in Partitions, Locate(q)
    PROVE  IInv'
<1> DEFINE from == IF start[q] = Beginning THEN low[q] ELSE start[q]
<1>1. TypeOK /\ PartitionInv(q)
  BY DEF IInv, RemainingIsExact
<1>2. /\ low[q] \in Nat /\ high[q] \in Nat /\ start[q] \in Int /\ opened[q] <= high[q]
      /\ position \in [Partitions -> Int] /\ first \in [Partitions -> Int]
      /\ eofAt \in [Partitions -> Int] /\ from \in Int
  <2>1. /\ position \in [Partitions -> Int] /\ first \in [Partitions -> Int]
        /\ eofAt \in [Partitions -> Int] /\ opened[q] <= high[q]
    BY <1>1 DEF TypeOK, PartitionInv, Reading
  <2> QED
    BY <1>1, <2>1, PartitionTypes
<1>3. /\ position[q] = Unlocated /\ q \notin paused /\ phase = "assigned"
      /\ UNCHANGED <<logVars, rangeVars, phase, pollVars>>
  BY DEF Locate, CanFetch
<1>4. /\ Len(queue) \in Nat /\ DOMAIN queue = 1..Len(queue)
      /\ \A i \in DOMAIN queue : queue[i].partition # q
      /\ delivered[q] = <<>> /\ (q \in done => EmptyRange(q))
  BY <1>1, <1>3, QueueTypes DEF PartitionInv, Fresh
<1>5. ASSUME Grows(q), position'[q] # Unlocated,
             \/ position'[q] = Lost
             \/ 0 <= from /\ from <= high[q] /\ position'[q] = from /\ first'[q] = from,
             \A i \in DOMAIN queue' : RecordAt(i, q)' =>
                /\ i = Len(queue) + 1 /\ 0 <= from - 1 /\ start[q] = from
                /\ first'[q] = from /\ from <= high[q] /\ position'[q] = from
                /\ queue'[i].offset = from - 1
                /\ <<q, from - 1>> \notin Invisible \union Bad,
             \A i \in DOMAIN queue' : ~EndAt(i, q)'
      PROVE  PartitionInv(q)'
  <2>1. Fresh(q)' /\ DeliveredWell(q)' /\ FinishedWell(q)' /\ Located(q)'
    <3>1. Fresh(q)' /\ DeliveredWell(q)'
      BY <1>3, <1>4, <1>5 DEF Fresh, DeliveredWell, pollVars
    <3>2. FinishedWell(q) /\ Located(q)
      BY <1>1 DEF PartitionInv
    <3>3. FinishedWell(q)'
      BY <1>3, <1>4, <3>2 DEF FinishedWell, EmptyRange, pollVars, rangeVars
    <3>4. Located(q)'
      BY <1>3, <3>2 DEF Located, Bounds, logVars, rangeVars
    <3> QED
      BY <3>1, <3>3, <3>4
  <2>2. Reading(q)'
    BY <1>2, <1>3, <1>5 DEF Reading, logVars, rangeVars
  <2>3. QueuedWell(q)'
    <3>1. UNCHANGED <<high, start, opened>>
      BY <1>3 DEF logVars, rangeVars
    <3>2. ASSUME NEW i \in DOMAIN queue', RecordAt(i, q)'
          PROVE  /\ 0 <= queue'[i].offset /\ queue'[i].offset < high'[q]
                 /\ <<q, queue'[i].offset>> \notin Invisible \union Bad
                 /\ Early(queue[i])' <=> queue'[i].offset < first'[q]
                 /\ position'[q] = Lost \/ queue'[i].offset < position'[q]
      <4>1. /\ 0 <= from - 1 /\ start[q] = from
            /\ first'[q] = from /\ from <= high[q] /\ position'[q] = from
            /\ queue'[i].offset = from - 1
            /\ <<q, from - 1>> \notin Invisible \union Bad
        BY <1>5, <3>2
      <4>2. queue'[i].partition = q
        BY <3>2 DEF RecordAt
      <4>3. Early(queue[i])'
        BY <1>2, <3>1, <4>1, <4>2 DEF Early, Beginning
      <4> QED
        BY <1>2, <3>1, <4>1, <4>3
    <3>3. \A i, j \in DOMAIN queue' : ~(i < j /\ RecordAt(i, q)' /\ RecordAt(j, q)')
      BY <1>4, <1>5
    <3> QED
      BY <1>5, <3>2, <3>3 DEF QueuedWell
  <2>4. NoGap(q)'
    <3>1. delivered'[q] = <<>> /\ Range(delivered'[q]) = {}
      BY <1>3, <1>4 DEF pollVars, Range
    <3>2. ASSUME NEW limit \in Int, limit <= from, first'[q] = from, NEW i
          PROVE  Reaches(q, limit, i)'
      <4>1. Wanted(q, limit)' = {}
        BY <1>2, <1>3, <3>2 DEF Wanted, logVars
      <4> QED
        BY <4>1 DEF Reaches
    <3>3. ASSUME NEW i \in DOMAIN queue', RecordAt(i, q)'
          PROVE  Reaches(q, queue[i].offset, i)'
      <4>1. queue'[i].offset = from - 1 /\ first'[q] = from
        BY <1>5, <3>3
      <4>2. queue'[i].offset \in Int /\ queue'[i].offset <= from
        BY <1>2, <4>1
      <4> QED
        BY <3>2, <4>1, <4>2
    <3>4. position'[q] >= 0 => Reaches(q, position[q], Len(queue) + 1)'
      <4>1. position'[q] >= 0 => position'[q] = from /\ first'[q] = from
        BY <1>5 DEF Lost
      <4>2. position'[q] >= 0 => position'[q] \in Int /\ position'[q] <= from
        BY <1>2, <4>1
      <4> QED
        BY <3>2, <4>1, <4>2
    <3> QED
      BY <1>5, <3>1, <3>3, <3>4 DEF NoGap
  <2> QED
    BY <2>1, <2>2, <2>3, <2>4 DEF PartitionInv
<1>6. /\ position' \in [Partitions -> Int] /\ first' \in [Partitions -> Int]
      /\ eofAt' \in [Partitions -> Int]
      /\ \A p \in Partitions \ {q} : position'[p] = position[p] /\ first'[p] = first[p]
  BY <1>2 DEF Locate, Reject, Lost
<1>7. Grows(q) /\ PartitionInv(q)'
  <2>1. CASE (from < low[q] \/ high[q] < from) /\ Reject(q)
    <3> DEFINE m == Message("reset", q, position[q])
    <3>1. m \in Messages /\ m.partition = q /\ m.kind = "reset"
      BY <1>2 DEF Message, Messages, Kinds
    <3>2. Adds(m) /\ position'[q] = Lost
      BY <1>1, <1>2, <2>1, <3>1, Appended DEF Reject
    <3> HIDE DEF m
    <3>3. Grows(q)
      BY <3>1, <3>2 DEF Grows
    <3>4. \A i \in DOMAIN queue' : ~RecordAt(i, q)' /\ ~EndAt(i, q)'
      <4> SUFFICES ASSUME NEW i \in DOMAIN queue', queue'[i].partition = q
                   PROVE  queue'[i].kind = "reset"
        BY DEF RecordAt, EndAt
      <4>1. DOMAIN queue' = 1..(Len(queue) + 1) /\ \A j \in 1..Len(queue) : queue'[j] = queue[j]
        BY <1>4, <3>2 DEF Adds
      <4>2. i \notin 1..Len(queue)
        BY <1>4, <4>1
      <4>3. i = Len(queue) + 1
        BY <1>4, <4>1, <4>2
      <4> QED
        BY <3>1, <3>2, <4>3 DEF Adds
    <3> QED
      BY <1>5, <3>2, <3>3, <3>4 DEF Lost, Unlocated
  <2>2. CASE /\ low[q] <= from /\ from <= high[q]
             /\ position' = [position EXCEPT ![q] = from]
             /\ first' = [first EXCEPT ![q] = from]
             /\ \/ queue' = queue
                \/ /\ low[q] < from /\ from < high[q]
                   /\ queue' = queue \o Fetched(q, from - 1)
    <3>1. position'[q] = from /\ first'[q] = from /\ 0 <= from
      BY <1>2, <2>2
    <3>2. CASE queue' = queue
      BY <1>2, <1>4, <1>5, <2>2, <3>1, <3>2 DEF Grows, RecordAt, EndAt, Unlocated
    <3>3. CASE low[q] < from /\ from < high[q] /\ queue' = queue \o Fetched(q, from - 1)
      <4>1. start[q] = from /\ 0 <= from - 1 /\ from - 1 \in Int
        BY <1>2, <3>3
      <4>2. CASE queue' = queue
        BY <3>2, <4>2
      <4>3. ASSUME NEW kind \in {"error", "record"}, Adds(Message(kind, q, from - 1)),
                   kind = "record" => <<q, from - 1>> \notin Invisible \union Bad
            PROVE  Grows(q) /\ PartitionInv(q)'
        <5> DEFINE m == Message(kind, q, from - 1)
        <5>1. m \in Messages /\ m.partition = q /\ m.kind = kind /\ m.offset = from - 1
          BY <4>1 DEF Message, Messages, Kinds
        <5>2. Adds(m)
          BY <4>3
        <5> HIDE DEF m
        <5>3. Grows(q)
          BY <5>1, <5>2 DEF Grows
        <5>4. \A i \in DOMAIN queue' : queue'[i].partition = q =>
                    i = Len(queue) + 1 /\ queue'[i] = m
          <6> SUFFICES ASSUME NEW i \in DOMAIN queue', queue'[i].partition = q
                       PROVE  i = Len(queue) + 1
            BY <5>2 DEF Adds
          <6>1. /\ DOMAIN queue' = 1..(Len(queue) + 1)
                /\ \A j \in 1..Len(queue) : queue'[j] = queue[j]
            BY <1>4, <5>2 DEF Adds
          <6>2. i \notin 1..Len(queue)
            BY <1>4, <6>1
          <6> QED
            BY <1>4, <6>1, <6>2
        <5>5. \A i \in DOMAIN queue' : RecordAt(i, q)' =>
                i = Len(queue) + 1 /\ queue'[i].offset = from - 1 /\ kind = "record"
          BY <5>1, <5>4 DEF RecordAt
        <5>6. \A i \in DOMAIN queue' : ~EndAt(i, q)'
          BY <5>1, <5>4 DEF EndAt
        <5> QED
          BY <1>2, <1>5, <2>2, <3>1, <4>1, <4>3, <5>3, <5>5, <5>6 DEF Unlocated
      <4> QED
        BY <1>1, <3>3, <4>1, <4>2, <4>3, FetchedAdds
    <3> QED
      BY <2>2, <3>2, <3>3
  <2> QED
    BY <2>1, <2>2 DEF Locate
<1> QED
  BY <1>3, <1>6, <1>7, ClientIInv

\* What was fetched of a partition it goes on with lies below where it is.
LEMMA FetchRecordInv ==
    ASSUME TypeOK, NEW q \in Partitions, PartitionInv(q),
           UNCHANGED <<logVars, rangeVars, phase, pollVars>>,
           low[q] <= position[q], position[q] < high[q],
           position'[q] = position[q] + 1, first'[q] = first[q],
           NEW d, d = position[q],
           \/ <<q, d>> \in Invisible \union Bad /\ queue' = queue
           \/ <<q, d>> \in Bad /\ Adds(Message("error", q, d))
           \/ <<q, d>> \notin Invisible \union Bad /\ Adds(Message("record", q, d))
    PROVE  PartitionInv(q)'
<1> USE DEF logVars, rangeVars, pollVars
<1>1. /\ d \in Nat /\ high[q] \in Nat /\ first[q] \in Int /\ opened[q] \in Nat
      /\ first[q] <= d /\ 0 <= first[q] /\ d < high[q]
  <2>1. d \in Int /\ low[q] \in Nat /\ high[q] \in Nat /\ first[q] \in Int /\ opened[q] \in Nat
    BY PartitionTypes
  <2> QED
    BY <2>1 DEF PartitionInv, Reading, Unlocated, Lost
<1>2. /\ Len(queue) \in Nat /\ DOMAIN queue = 1..Len(queue)
      /\ \A i \in DOMAIN queue : queue[i].partition \in Partitions /\ queue[i].offset \in Int
  BY QueueTypes
<1>3. Grows(q)
  <2>1. \A kind \in {"error", "record"} :
            Message(kind, q, d) \in Messages /\ Message(kind, q, d).partition = q
    BY <1>1 DEF Message, Messages, Kinds
  <2> QED
    BY <2>1 DEF Grows
<1>4. /\ Len(queue') \in {Len(queue), Len(queue) + 1} /\ DOMAIN queue' = 1..Len(queue')
      /\ \A i \in 1..Len(queue) : queue'[i] = queue[i]
  BY <1>3, GrowFacts
<1>5. Len(queue') \in Nat /\ Len(queue) <= Len(queue')
  <2>1. Len(queue') = Len(queue) \/ Len(queue') = Len(queue) + 1
    BY <1>4
  <2> QED
    BY <1>2, <2>1
<1>6. ASSUME NEW i \in DOMAIN queue', i \notin DOMAIN queue
      PROVE  /\ i = Len(queue) + 1 /\ Len(queue') = Len(queue) + 1
             /\ ~EndAt(i, q)'
             /\ RecordAt(i, q)' => <<q, d>> \notin Invisible \union Bad /\ queue'[i].offset = d
             /\ <<q, d>> \notin Invisible \union Bad => Holds(i, q, d)'
  <2>1. Len(queue') = Len(queue) \/ Len(queue') = Len(queue) + 1
    BY <1>4
  <2>2. i = Len(queue) + 1 /\ Len(queue') = Len(queue) + 1
    <3>1. i \in 1..Len(queue') /\ i \notin 1..Len(queue)
      BY <1>2, <1>4, <1>6
    <3>2. Len(queue') # Len(queue)
      BY <3>1
    <3> QED
      BY <1>2, <2>1, <3>1, <3>2
  <2>3. CASE <<q, d>> \in Bad /\ Adds(Message("error", q, d))
    <3>1. queue'[i] = Message("error", q, d)
      BY <2>2, <2>3 DEF Adds
    <3>2. queue'[i].kind = "error"
      BY <3>1 DEF Message
    <3> QED
      BY <2>2, <2>3, <3>2 DEF RecordAt, EndAt
  <2>4. CASE <<q, d>> \notin Invisible \union Bad /\ Adds(Message("record", q, d))
    <3>1. queue'[i] = Message("record", q, d)
      BY <2>2, <2>4 DEF Adds
    <3>2. queue'[i].kind = "record" /\ queue'[i].offset = d /\ queue'[i].partition = q
      BY <3>1 DEF Message
    <3> QED
      BY <2>2, <2>4, <3>2 DEF RecordAt, EndAt, Holds
  <2>5. CASE queue' = queue
    BY <1>2, <2>2, <2>5
  <2> QED
    BY <2>3, <2>4, <2>5
<1>7. \A i \in DOMAIN queue : i \in DOMAIN queue' /\ queue'[i] = queue[i]
                /\ (RecordAt(i, q)' <=> RecordAt(i, q)) /\ (EndAt(i, q)' <=> EndAt(i, q))
  <2> SUFFICES ASSUME NEW i \in 1..Len(queue)
               PROVE  /\ i \in 1..Len(queue') /\ queue'[i] = queue[i]
                      /\ RecordAt(i, q)' <=> RecordAt(i, q)
                      /\ EndAt(i, q)' <=> EndAt(i, q)
    BY <1>2, <1>4
  <2>1. i \in 1..Len(queue')
    BY <1>2, <1>5
  <2>2. queue'[i] = queue[i]
    BY <1>4
  <2> QED
    BY <2>1, <2>2 DEF RecordAt, EndAt
<1>8. \A limit \in Int : Wanted(q, limit)' = Wanted(q, limit)
  BY DEF Wanted
<1>9. QueuedWell(q) /\ NoGap(q) /\ Reading(q)
  BY DEF PartitionInv
<1>10. position[q] # Lost /\ position[q] # Unlocated /\ position[q] >= 0
  BY <1>1 DEF Lost, Unlocated
<1>11. Fresh(q)' /\ Reading(q)' /\ DeliveredWell(q)' /\ FinishedWell(q)' /\ Located(q)'
  <2>1. Fresh(q)' /\ Reading(q)'
    BY <1>1, <1>9, <1>10 DEF Fresh, Reading, Unlocated
  <2>2. DeliveredWell(q)' /\ FinishedWell(q)'
    BY DEF PartitionInv, DeliveredWell, FinishedWell, Wanted, Limit, EmptyRange
  <2>3. Located(q)'
    BY DEF PartitionInv, Located, Bounds
  <2> QED
    BY <2>1, <2>2, <2>3
<1>12. QueuedWell(q)'
  <2>1. ASSUME NEW i \in DOMAIN queue', RecordAt(i, q)'
        PROVE  /\ 0 <= queue'[i].offset /\ queue'[i].offset < high'[q]
               /\ <<q, queue'[i].offset>> \notin Invisible \union Bad
               /\ Early(queue[i])' <=> queue'[i].offset < first'[q]
               /\ position'[q] = Lost \/ queue'[i].offset < position'[q]
    <3>1. CASE i \in DOMAIN queue
      <4>1. RecordAt(i, q) /\ queue'[i] = queue[i] /\ queue[i].offset \in Int
        BY <1>2, <1>7, <2>1, <3>1
      <4>2. /\ 0 <= queue[i].offset /\ queue[i].offset < high[q]
            /\ <<q, queue[i].offset>> \notin Invisible \union Bad
            /\ Early(queue[i]) <=> queue[i].offset < first[q]
            /\ queue[i].offset < d
        BY <1>9, <1>10, <3>1, <4>1 DEF QueuedWell
      <4>3. Early(queue[i])' <=> Early(queue[i])
        BY <4>1 DEF Early
      <4> QED
        BY <1>1, <4>1, <4>2, <4>3
    <3>2. CASE i \notin DOMAIN queue
      <4>1. /\ queue'[i].offset = d /\ <<q, d>> \notin Invisible \union Bad
            /\ queue'[i].partition = q
        BY <1>6, <2>1, <3>2 DEF RecordAt
      <4>2. Early(queue[i])' <=> d < first[q]
        BY <1>1, <1>9, <1>10, <4>1 DEF Early, Reading
      <4> QED
        BY <1>1, <4>1, <4>2
    <3> QED
      BY <3>1, <3>2
  <2>2. ASSUME NEW i \in DOMAIN queue', EndAt(i, q)'
        PROVE  opened'[q] <= queue'[i].offset /\ queue'[i].offset <= high'[q]
    <3>1. i \in DOMAIN queue /\ EndAt(i, q) /\ queue'[i] = queue[i]
      BY <1>6, <1>7, <2>2
    <3> QED
      BY <1>9, <3>1 DEF QueuedWell
  <2>3. ASSUME NEW i \in DOMAIN queue', NEW j \in DOMAIN queue', i < j,
               RecordAt(i, q)', RecordAt(j, q)'
        PROVE  queue'[i].offset < queue'[j].offset
    <3>1. i \in DOMAIN queue
      <4>1. i \in 1..Len(queue') /\ j \in 1..Len(queue')
        BY <1>4
      <4>2. i \notin DOMAIN queue => i = Len(queue) + 1 /\ Len(queue') = Len(queue) + 1
        BY <1>6
      <4> QED
        BY <1>2, <2>3, <4>1, <4>2
    <3>2. queue'[i] = queue[i] /\ RecordAt(i, q)
      BY <1>7, <2>3, <3>1
    <3>3. CASE j \in DOMAIN queue
      BY <1>7, <1>9, <2>3, <3>1, <3>2, <3>3 DEF QueuedWell
    <3>4. CASE j \notin DOMAIN queue
      <4>1. queue'[j].offset = d
        BY <1>6, <2>3, <3>4
      <4> QED
        BY <1>9, <1>10, <3>1, <3>2, <4>1 DEF QueuedWell
    <3> QED
      BY <3>3, <3>4
  <2> QED
    BY <2>1, <2>2, <2>3 DEF QueuedWell
<1>13. NoGap(q)'
  <2> SUFFICES ASSUME q \notin done PROVE NoGap(q)'
    BY DEF NoGap
  <2>1. /\ \A o \in Range(delivered[q]) : o < d
        /\ Reaches(q, d, Len(queue) + 1)
    BY <1>9, <1>10 DEF NoGap
  <2>2. ASSUME NEW k \in Int, Len(queue) + 1 <= k PROVE Reaches(q, d, k)'
    <3>1. Len(queue) + 1 \in 1..(Len(queue) + 1)
      BY <1>2
    <3> QED
      BY <1>1, <1>3, <1>8, <2>1, <2>2, <3>1, GrowReaches
  <2>3. ASSUME NEW i \in DOMAIN queue', RecordAt(i, q)'
        PROVE  /\ \A o \in Range(delivered'[q]) : o < queue'[i].offset
               /\ Reaches(q, queue[i].offset, i)'
    <3>1. CASE i \in DOMAIN queue
      <4>1. /\ RecordAt(i, q) /\ queue'[i] = queue[i] /\ queue[i].offset \in Int
            /\ i \in 1..(Len(queue) + 1) /\ i \in Int /\ i <= i
        BY <1>2, <1>7, <2>3, <3>1
      <4> QED
        BY <1>3, <1>8, <1>9, <3>1, <4>1, GrowReaches DEF NoGap
    <3>2. CASE i \notin DOMAIN queue
      <4>1. queue'[i].offset = d /\ i = Len(queue) + 1
        BY <1>6, <2>3, <3>2
      <4> QED
        BY <1>2, <2>1, <2>2, <4>1
    <3> QED
      BY <3>1, <3>2
  <2>4. ASSUME NEW i \in DOMAIN queue', EndAt(i, q)'
        PROVE  Reaches(q, queue[i].offset, i)'
    <3>1. i \in DOMAIN queue /\ EndAt(i, q) /\ queue'[i] = queue[i]
      BY <1>6, <1>7, <2>4
    <3>2. queue[i].offset \in Int /\ i \in 1..(Len(queue) + 1) /\ i \in Int /\ i <= i
      BY <1>2, <3>1
    <3> QED
      BY <1>3, <1>8, <1>9, <3>1, <3>2, GrowReaches DEF NoGap
  <2>5. ASSUME NEW k \in Int, k = Len(queue') + 1 PROVE Reaches(q, d + 1, k)'
    <3>1. Reaches(q, d, k)'
      BY <1>2, <1>5, <2>2, <2>5
    <3>2. CASE <<q, d>> \in Invisible \union Bad
      <4>1. Wanted(q, d + 1) = Wanted(q, d)
        BY <1>1, <3>2, WantedNext
      <4>2. Wanted(q, d + 1)' = Wanted(q, d)'
        BY <1>1, <1>8, <4>1
      <4> QED
        BY <3>1, <4>2 DEF Reaches
    <3>3. CASE <<q, d>> \notin Invisible \union Bad
      <4>1. Wanted(q, d + 1) = Wanted(q, d) \union {d}
        BY <1>1, <3>3, WantedNext
      <4>2. Wanted(q, d + 1)' = Wanted(q, d)' \union {d}
        BY <1>1, <1>8, <4>1
      <4>3. Len(queue) + 1 \in DOMAIN queue' /\ Len(queue) + 1 \notin DOMAIN queue
        <5>1. Len(queue') = Len(queue) + 1
          BY <3>3 DEF Adds
        <5> QED
          BY <1>2, <1>4, <5>1
      <4>4. \E n \in 1..(k - 1) : Holds(n, q, d)'
        <5>1. ASSUME NEW n \in DOMAIN queue', n = Len(queue) + 1
              PROVE  n \in 1..(k - 1) /\ Holds(n, q, d)'
          <6>1. Holds(n, q, d)' /\ Len(queue') = n
            BY <1>6, <3>3, <4>3, <5>1
          <6>2. n \in 1..(k - 1)
            BY <1>2, <2>5, <5>1, <6>1
          <6> QED
            BY <6>1, <6>2
        <5> QED
          BY <4>3, <5>1
      <4> SUFFICES ASSUME NEW o \in Wanted(q, d + 1)', o \notin Range(delivered'[q])
                   PROVE  \E j \in 1..(k - 1) : Holds(j, q, o)'
        BY DEF Reaches
      <4>6. CASE o = d
        BY <4>4, <4>6
      <4>7. CASE o # d
        BY <3>1, <4>2, <4>7 DEF Reaches
      <4> QED
        BY <4>6, <4>7
    <3> QED
      BY <3>2, <3>3
  <2>6. /\ \A o \in Range(delivered'[q]) : o < position'[q]
        /\ Reaches(q, position[q], Len(queue) + 1)'
    <3>1. \A o \in Range(delivered[q]) : o \in Nat
      <4>1. delivered[q] \in Seq(Nat)
        BY PartitionTypes
      <4> QED
        BY <4>1, ElementOfSeq DEF Range
    <3>2. Len(queue') + 1 \in Int
      BY <1>5
    <3> QED
      BY <1>1, <2>1, <2>5, <3>1, <3>2
  <2> QED
    BY <2>3, <2>4, <2>6 DEF NoGap
<1> QED
  BY <1>11, <1>12, <1>13 DEF PartitionInv

\* A message that is no record leaves what a partition has fetched: an end of
\* the log, where everything below was fetched, or the loss of the position.
LEMMA FetchEventInv ==
    ASSUME TypeOK, NEW q \in Partitions, PartitionInv(q),
           UNCHANGED <<logVars, rangeVars, phase, pollVars>>,
           position[q] >= 0, first'[q] = first[q],
           NEW m \in Messages, m.partition = q, Adds(m),
           \/ /\ m.kind = "eof" /\ m.offset = high[q]
              /\ position[q] = high[q] /\ position'[q] = position[q]
           \/ m.kind = "reset" /\ position'[q] = Lost
    PROVE  PartitionInv(q)'
<1> USE DEF logVars, rangeVars, pollVars
<1>1. /\ Len(queue) \in Nat /\ DOMAIN queue = 1..Len(queue)
      /\ \A i \in DOMAIN queue : queue[i].partition \in Partitions /\ queue[i].offset \in Int
  BY QueueTypes
<1>2. /\ DOMAIN queue' = 1..(Len(queue) + 1) /\ Len(queue') = Len(queue) + 1
      /\ \A i \in 1..Len(queue) : queue'[i] = queue[i]
      /\ queue'[Len(queue) + 1] = m
  BY <1>1 DEF Adds
<1>3. Grows(q)
  BY DEF Grows
<1>4. /\ high[q] \in Nat /\ opened[q] \in Nat /\ opened[q] <= high[q]
      /\ position[q] \in Int /\ position[q] <= high[q]
  <2>1. high[q] \in Nat /\ opened[q] \in Nat /\ position[q] \in Int
    BY PartitionTypes
  <2>2. Reading(q)
    BY DEF PartitionInv
  <2> QED
    BY <2>1, <2>2 DEF Reading, Unlocated, Lost
<1>5. QueuedWell(q) /\ NoGap(q) /\ Reading(q)
  BY DEF PartitionInv
<1>6. ASSUME NEW i \in DOMAIN queue', RecordAt(i, q)' \/ (EndAt(i, q)' /\ i \in DOMAIN queue)
      PROVE  /\ i \in DOMAIN queue /\ queue'[i] = queue[i]
             /\ RecordAt(i, q)' <=> RecordAt(i, q)
             /\ EndAt(i, q)' <=> EndAt(i, q)
  <2>1. i \in DOMAIN queue
    <3> SUFFICES ASSUME i \notin DOMAIN queue PROVE ~RecordAt(i, q)'
      BY <1>6
    <3>1. i = Len(queue) + 1
      BY <1>1, <1>2
    <3>2. queue'[i] = m
      BY <1>2, <3>1
    <3> QED
      BY <3>2 DEF RecordAt
  <2>2. queue'[i] = queue[i]
    BY <1>1, <1>2, <2>1
  <2> QED
    BY <2>1, <2>2 DEF RecordAt, EndAt
<1>7. ASSUME NEW i \in DOMAIN queue', EndAt(i, q)', i \notin DOMAIN queue
      PROVE  /\ i = Len(queue) + 1 /\ queue'[i].offset = high[q] /\ position[q] = high[q]
             /\ position'[q] = position[q]
  <2>1. i = Len(queue) + 1
    BY <1>1, <1>2, <1>7
  <2>2. queue'[i] = m
    BY <1>2, <2>1
  <2> QED
    BY <1>7, <2>1, <2>2 DEF EndAt
<1>8. \A limit \in Int : Wanted(q, limit)' = Wanted(q, limit)
  BY DEF Wanted
<1>9. Fresh(q)' /\ Reading(q)' /\ DeliveredWell(q)' /\ FinishedWell(q)' /\ Located(q)'
  <2>1. Fresh(q)' /\ Reading(q)'
    BY <1>4, <1>5 DEF Fresh, Reading, Unlocated, Lost
  <2>2. DeliveredWell(q)' /\ FinishedWell(q)'
    BY DEF PartitionInv, DeliveredWell, FinishedWell, Wanted, Limit, EmptyRange
  <2>3. Located(q)'
    BY DEF PartitionInv, Located, Bounds
  <2> QED
    BY <2>1, <2>2, <2>3
<1>10. QueuedWell(q)'
  <2>1. ASSUME NEW i \in DOMAIN queue', RecordAt(i, q)'
        PROVE  /\ 0 <= queue'[i].offset /\ queue'[i].offset < high'[q]
               /\ <<q, queue'[i].offset>> \notin Invisible \union Bad
               /\ Early(queue[i])' <=> queue'[i].offset < first'[q]
               /\ position'[q] = Lost \/ queue'[i].offset < position'[q]
    <3>1. i \in DOMAIN queue /\ queue'[i] = queue[i] /\ RecordAt(i, q)
      BY <1>6, <2>1
    <3>2. Early(queue[i])' <=> Early(queue[i])
      BY <3>1 DEF Early
    <3>3. position[q] # Lost
      BY <1>4 DEF Lost
    <3> QED
      BY <1>5, <3>1, <3>2, <3>3 DEF QueuedWell
  <2>2. ASSUME NEW i \in DOMAIN queue', EndAt(i, q)'
        PROVE  opened'[q] <= queue'[i].offset /\ queue'[i].offset <= high'[q]
    <3>1. CASE i \in DOMAIN queue
      BY <1>5, <1>6, <2>2, <3>1 DEF QueuedWell
    <3>2. CASE i \notin DOMAIN queue
      BY <1>4, <1>7, <2>2, <3>2
    <3> QED
      BY <3>1, <3>2
  <2>3. \A i, j \in DOMAIN queue' : i < j /\ RecordAt(i, q)' /\ RecordAt(j, q)'
                => queue'[i].offset < queue'[j].offset
    BY <1>5, <1>6 DEF QueuedWell
  <2> QED
    BY <2>1, <2>2, <2>3 DEF QueuedWell
<1>11. NoGap(q)'
  <2> SUFFICES ASSUME q \notin done PROVE NoGap(q)'
    BY DEF NoGap
  <2>1. ASSUME NEW x \in Int, x = position[q], NEW k \in Int, Len(queue) + 1 <= k
        PROVE  Reaches(q, x, k)'
    <3>1. Len(queue) + 1 \in 1..(Len(queue) + 1) /\ Reaches(q, x, Len(queue) + 1)
      BY <1>1, <1>5, <2>1 DEF NoGap
    <3> QED
      BY <1>3, <1>8, <2>1, <3>1, GrowReaches
  <2>2. ASSUME NEW i \in DOMAIN queue', RecordAt(i, q)'
        PROVE  /\ \A o \in Range(delivered'[q]) : o < queue'[i].offset
               /\ Reaches(q, queue[i].offset, i)'
    <3>1. i \in DOMAIN queue /\ queue'[i] = queue[i] /\ RecordAt(i, q)
      BY <1>6, <2>2
    <3>2. queue[i].offset \in Int /\ i \in 1..(Len(queue) + 1) /\ i \in Int /\ i <= i
      BY <1>1, <3>1
    <3> QED
      BY <1>3, <1>5, <1>8, <3>1, <3>2, GrowReaches DEF NoGap
  <2>3. ASSUME NEW i \in DOMAIN queue', EndAt(i, q)'
        PROVE  Reaches(q, queue[i].offset, i)'
    <3>1. CASE i \in DOMAIN queue
      <4>1. queue'[i] = queue[i] /\ EndAt(i, q)
        BY <1>6, <2>3, <3>1
      <4>2. queue[i].offset \in Int /\ i \in 1..(Len(queue) + 1) /\ i \in Int /\ i <= i
        BY <1>1, <3>1
      <4> QED
        BY <1>3, <1>5, <1>8, <3>1, <4>1, <4>2, GrowReaches DEF NoGap
    <3>2. CASE i \notin DOMAIN queue
      <4>1. queue'[i].offset = position[q] /\ i = Len(queue) + 1
        BY <1>7, <2>3, <3>2
      <4> QED
        BY <1>1, <1>4, <2>1, <4>1
    <3> QED
      BY <3>1, <3>2
  <2>4. position'[q] >= 0 =>
            /\ \A o \in Range(delivered'[q]) : o < position'[q]
            /\ Reaches(q, position[q], Len(queue) + 1)'
    <3> SUFFICES ASSUME position'[q] = position[q]
                 PROVE  /\ \A o \in Range(delivered'[q]) : o < position'[q]
                        /\ Reaches(q, position[q], Len(queue) + 1)'
      BY DEF Lost
    <3>1. Len(queue') + 1 \in Int /\ Len(queue) + 1 <= Len(queue') + 1
      BY <1>1, <1>2
    <3>2. \A o \in Range(delivered[q]) : o < position[q]
      BY <1>5 DEF NoGap
    <3> QED
      BY <1>4, <2>1, <3>1, <3>2
  <2> QED
    BY <2>2, <2>3, <2>4 DEF NoGap
<1> QED
  BY <1>9, <1>10, <1>11 DEF PartitionInv

LEMMA FetchIInv ==
    ASSUME IInv, NEW q \in Partitions, Fetch(q)
    PROVE  IInv'
<1>1. TypeOK /\ PartitionInv(q)
  BY DEF IInv, RemainingIsExact
<1>2. /\ low[q] \in Nat /\ high[q] \in Nat /\ position[q] \in Int
      /\ position \in [Partitions -> Int] /\ first \in [Partitions -> Int]
      /\ eofAt \in [Partitions -> Int]
  <2>1. /\ position \in [Partitions -> Int] /\ first \in [Partitions -> Int]
        /\ eofAt \in [Partitions -> Int]
    BY <1>1 DEF TypeOK
  <2> QED
    BY <1>1, <2>1, PartitionTypes
<1>3. q \notin paused /\ phase = "assigned" /\ UNCHANGED <<logVars, rangeVars, phase, pollVars>>
  BY DEF Fetch, CanFetch
<1>4. /\ position' \in [Partitions -> Int] /\ first' = first /\ eofAt' \in [Partitions -> Int]
      /\ \A p \in Partitions \ {q} : position'[p] = position[p] /\ first'[p] = first[p]
  BY <1>2 DEF Fetch, Reject, Lost
<1>5. Grows(q) /\ PartitionInv(q)'
  <2>1. CASE /\ low[q] <= position[q] /\ position[q] < high[q]
             /\ queue' = queue \o Fetched(q, position[q])
             /\ position' = [position EXCEPT ![q] = @ + 1]
    <3>1. \/ <<q, position[q]>> \in Invisible /\ queue' = queue
          \/ <<q, position[q]>> \in Bad /\ Adds(Message("error", q, position[q]))
          \/ /\ <<q, position[q]>> \notin Invisible \union Bad
             /\ Adds(Message("record", q, position[q]))
      BY <1>1, <1>2, <2>1, FetchedAdds
    <3>2. position'[q] = position[q] + 1
      BY <1>2, <2>1
    <3>3. PartitionInv(q)'
      BY <1>1, <1>3, <1>4, <2>1, <3>1, <3>2, FetchRecordInv
    <3>4. \A kind \in {"error", "record"} :
            /\ Message(kind, q, position[q]) \in Messages
            /\ Message(kind, q, position[q]).partition = q
      BY <1>2 DEF Message, Messages, Kinds
    <3> QED
      BY <3>1, <3>3, <3>4 DEF Grows
  <2>2. CASE /\ position[q] = high[q] /\ position' = position
             /\ queue' = Append(queue, Message("eof", q, high[q]))
    <3> DEFINE m == Message("eof", q, high[q])
    <3>1. m \in Messages /\ m.partition = q /\ m.kind = "eof" /\ m.offset = high[q]
      BY <1>2 DEF Message, Messages, Kinds
    <3>2. Adds(m)
      BY <1>1, <2>2, <3>1, Appended
    <3> HIDE DEF m
    <3>3. PartitionInv(q)'
      BY <1>1, <1>2, <1>3, <1>4, <2>2, <3>1, <3>2, FetchEventInv
    <3> QED
      BY <3>1, <3>2, <3>3 DEF Grows
  <2>3. CASE 0 <= position[q] /\ position[q] < low[q] /\ Reject(q)
    <3> DEFINE m == Message("reset", q, position[q])
    <3>1. m \in Messages /\ m.partition = q /\ m.kind = "reset"
      BY <1>2 DEF Message, Messages, Kinds
    <3>2. Adds(m) /\ position'[q] = Lost
      BY <1>1, <1>2, <2>3, <3>1, Appended DEF Reject
    <3> HIDE DEF m
    <3>3. PartitionInv(q)'
      BY <1>1, <1>2, <1>3, <1>4, <2>3, <3>1, <3>2, FetchEventInv
    <3> QED
      BY <3>1, <3>2, <3>3 DEF Grows
  <2> QED
    BY <2>1, <2>2, <2>3 DEF Fetch
<1>6. first' \in [Partitions -> Int]
  BY <1>2, <1>4
<1> QED
  BY <1>3, <1>4, <1>5, <1>6, ClientIInv

-----------------------------------------------------------------------------

LEMMA NextIInv == IInv /\ [Next]_vars => IInv'
<1> SUFFICES ASSUME IInv, [Next]_vars PROVE IInv'
  OBVIOUS
<1>1. CASE Prepare
  BY <1>1, FetchWatermarksIInv, ResolveStartsIInv, ResolveEndsIInv, AssignIInv DEF Prepare
<1>2. CASE PrepareFails \/ PollClientError \/ Idle \/ UNCHANGED vars
  BY <1>2, QuietIInv DEF Idle
<1>3. ASSUME NEW p \in Partitions,
             Produce(p) \/ Expire(p) \/ PauseEmpty(p) \/ Locate(p) \/ Fetch(p) \/ Outdate(p)
      PROVE  IInv'
  BY <1>3, TopicIInv, QuietIInv, LocateIInv, FetchIInv, OutdateIInv
<1>4. CASE Poll
  BY <1>4, PollEofIInv, PollIgnoredIInv, PollBeyondIInv, PollRecordIInv, PollErrorIInv,
     QuietIInv DEF Poll
<1> QED
  BY <1>1, <1>2, <1>3, <1>4 DEF Next

\* The invariant that carries the others: what is delivered, queued and still
\* to be fetched of a partition together leave no record of its range out.
THEOREM InductiveInvariant == Spec => []IInv
<1>1. Init => IInv
  BY InitIInv
<1>2. IInv /\ [Next]_vars => IInv'
  BY NextIInv
<1> QED
  BY <1>1, <1>2, PTL DEF Spec

\* remaining_partitions counts the partitions that are not done, however often
\* an end, a record beyond it and the count each finish the same partition.
THEOREM RemainingStaysExact == Spec => []RemainingIsExact
<1>1. IInv => RemainingIsExact
  BY DEF IInv
<1> QED
  BY <1>1, InductiveInvariant, PTL

\* poll returns the records of the range, in order and without a gap, wherever
\* the log starts, whatever is fetched ahead and however late a partition is
\* paused.
THEOREM RangeIsDelivered == Spec => []DeliversTheRange
<1>1. IInv => DeliversTheRange
  <2> SUFFICES ASSUME IInv, NEW p \in Partitions
               PROVE  /\ \A i, j \in DOMAIN delivered[p] :
                            i < j => delivered[p][i] < delivered[p][j]
                      /\ \A i \in DOMAIN delivered[p] :
                            Wanted(p, delivered[p][i] + 1) = {delivered[p][j] : j \in 1..i}
                      /\ end[p] # NoEnd => \A o \in Range(delivered[p]) : o < end[p]
    BY DEF DeliversTheRange
  <2>1. DeliveredWell(p)
    BY DEF IInv, PartitionInv
  <2> QED
    BY <2>1 DEF DeliveredWell, Range
<1> QED
  BY <1>1, InductiveInvariant, PTL

\* A partition that is done has delivered its count, every record below its
\* end, or every record that was there when it was assigned; none that was
\* appended later, or dropped from the queue, is the reason it is done.
THEOREM DoneIsComplete == Spec => []DoneDeliversAll
<1>1. IInv => DoneDeliversAll
  <2> SUFFICES ASSUME IInv, NEW p \in done
               PROVE  \/ request.count # NoCount /\ Len(delivered[p]) = request.count
                      \/ EmptyRange(p)
                      \/ Wanted(p, IF end[p] # NoEnd THEN end[p] ELSE opened[p])
                            \subseteq Range(delivered[p])
    BY DEF DoneDeliversAll
  <2>1. p \in Partitions
    BY DEF IInv, RemainingIsExact, TypeOK
  <2>2. FinishedWell(p)
    BY <2>1 DEF IInv, PartitionInv
  <2> QED
    BY <2>2 DEF FinishedWell, Limit
<1> QED
  BY <1>1, InductiveInvariant, PTL

\* A range between timestamps loses no record late enough for its start and
\* holds none late enough for its end, even when records are appended between
\* the watermarks, the lookups and the assignment.
THEOREM TimestampsBound == Spec => []TimestampsBoundTheRange
<1>1. IInv => TimestampsBoundTheRange
  BY DEF IInv, PartitionInv, Located, Bounds, TimestampsBoundTheRange
<1> QED
  BY <1>1, InductiveInvariant, PTL

\* poll returns nothing of a partition that is done, although messages of it
\* may still be in pending.
THEOREM DoneIsSilent == Spec => DoneStaysSilent
<1>1. IInv /\ [Next]_vars => [\A p \in done : delivered'[p] = delivered[p]]_delivered
  <2> SUFFICES ASSUME IInv, Next, NEW p \in done
               PROVE  delivered'[p] = delivered[p]
    BY DEF vars, pollVars
  <2>1. CASE delivered' = delivered
    BY <2>1
  <2>2. CASE PollRecord
    <3>1. p \in Partitions /\ delivered \in [Partitions -> Seq(Nat)]
      BY DEF IInv, RemainingIsExact, TypeOK
    <3>2. p # Head(queue).partition
      BY <2>2 DEF PollRecord
    <3> QED
      BY <2>2, <3>1, <3>2 DEF PollRecord
  <2> QED
    BY <2>1, <2>2 DEF Next, Prepare, FetchWatermarks, ResolveStarts, ResolveEnds, Assign,
         PrepareFails, Produce, Expire, PauseEmpty, Locate, Fetch, Outdate, Poll, PollEof,
         PollIgnored, PollBeyond, PollError, PollReset, PollDone, PollClientError, Idle,
         vars, pollVars
<1> QED
  BY <1>1, InductiveInvariant, PTL DEF Spec, DoneStaysSilent
=============================================================================
