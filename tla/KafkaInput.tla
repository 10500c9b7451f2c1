----------------------------- MODULE KafkaInput -----------------------------
(***************************************************************************)
(* KafkaInput (src/src/kafka.rs) over FetchConsumer (src/src/kafka/        *)
(* fetch.rs): one consumer, from the resolution of the offset range of     *)
(* each of its partitions to the end of the last one. The logs grow, and   *)
(* lose their oldest records, at any time. The client library fetches      *)
(* ahead, so what poll sees of a partition may be older than the log, than *)
(* the watermarks and than the decision to finish the partition.           *)
(*                                                                         *)
(* What the topic holds is external. An offset is Invisible when no record *)
(* is delivered for it (a control record, a compacted one) and Bad when an *)
(* error is delivered in place of its record.                              *)
(***************************************************************************)
EXTENDS Integers, SequencesExt

CONSTANTS
    Partitions,
    Requests,       \* what the command line may ask for
    StartHigh,      \* the high watermark of each partition at first
    MaxHigh,        \* bounds on the high watermarks
    MaxLow,         \* bounds on the low watermarks
    Invisible, Bad, \* sets of <<partition, offset>>
    Time,           \* the timestamp of each offset of each partition
    BatchSize,      \* BATCH_SIZE
    QueueSize,      \* bound on the messages of a partition fetched ahead
    MaxErrors,      \* bound on the errors of the client itself
    CallsFail       \* whether calls of the client may fail

\* The logical offset "beginning", and values that no offset has.
Beginning == -2
Unlocated == -1
Lost == -3
NoEnd == -1
NoCount == 0

Kinds == {"record", "error", "eof", "reset"}
StartKinds == {"beginning", "end", "absolute", "relative", "timestamp"}
EndKinds == {"none", "exclusive", "timestamp", "snapshot"}

ASSUME KafkaAssumption ==
    /\ IsFiniteSet(Partitions)
    /\ MaxErrors \in Nat
    /\ {MaxHigh, MaxLow} \subseteq [Partitions -> Nat]
    /\ {BatchSize, QueueSize} \subseteq Nat \ {0}
    /\ StartHigh \in [Partitions -> Nat]
    /\ \A p \in Partitions : StartHigh[p] <= MaxHigh[p]
    /\ Invisible \subseteq Partitions \X Nat
    /\ Bad \subseteq Partitions \X Nat
    /\ DOMAIN Time = Partitions
    /\ \A p \in Partitions : Time[p] \in [0..(MaxHigh[p] - 1) -> Nat]
    /\ CallsFail \in BOOLEAN
    /\ \A r \in Requests :
          /\ r.start.kind \in StartKinds /\ r.start.at \in Nat
          /\ r.end.kind \in EndKinds /\ r.end.at \in Nat
          /\ r.exitAtEnd \in BOOLEAN /\ r.continue \in BOOLEAN /\ r.count \in Nat

VARIABLES
    request,     \* the command line of this run
    low, high,   \* the log of each partition
    phase,       \* "preparing", "starts", "ends", "ranges", "assigned", "done", "failed"
    marks,       \* the watermarks prepare fetched, or those of an empty log
    start, end,  \* the range of each partition (PartitionRange)
    done,        \* partitions that are done (PartitionState)
    remaining,   \* remaining_partitions
    position,    \* what the client fetches next
    eofAt,       \* the last end of partition the client reported
    paused,
    queue,       \* messages fetched and not polled
    batch,       \* how many of them are in pending
    errors,      \* errors of the client so far
    delivered,   \* offsets of the records poll returned
    first,       \* the first offset the range stands for
    opened       \* the high watermark when the partitions were assigned

logVars == <<low, high>>
rangeVars == <<request, marks, start, end, opened>>
fetchVars == <<position, eofAt, first>>
pollVars == <<done, remaining, paused, batch, errors, delivered>>
vars == <<logVars, rangeVars, phase, fetchVars, queue, pollVars>>

Init ==
    /\ request \in Requests
    /\ low = [p \in Partitions |-> 0]
    /\ high = StartHigh
    /\ phase = "preparing"
    /\ marks = [p \in Partitions |-> [low |-> 0, high |-> 0]]
    /\ start = [p \in Partitions |-> Beginning]
    /\ end = [p \in Partitions |-> NoEnd]
    /\ done = {} /\ remaining = 0
    /\ position = [p \in Partitions |-> Unlocated]
    /\ eofAt = [p \in Partitions |-> Unlocated]
    /\ paused = {}
    /\ queue = <<>> /\ batch = 0
    /\ errors = 0
    /\ delivered = [p \in Partitions |-> <<>>]
    /\ first = [p \in Partitions |-> 0]
    /\ opened = [p \in Partitions |-> 0]

Fail == phase' = "failed"

-----------------------------------------------------------------------------
\* The topic.

Produce(p) ==
    /\ high[p] < MaxHigh[p]
    /\ high' = [high EXCEPT ![p] = @ + 1]
    /\ UNCHANGED <<low, rangeVars, phase, fetchVars, queue, pollVars>>

Expire(p) ==
    /\ low[p] < MaxLow[p] /\ low[p] < high[p]
    /\ low' = [low EXCEPT ![p] = @ + 1]
    /\ UNCHANGED <<high, rangeVars, phase, fetchVars, queue, pollVars>>

-----------------------------------------------------------------------------
\* prepare and assign.

\* watermarks_required, without range sharding
WatermarksRequired ==
    \/ request.start.kind \in {"end", "relative", "timestamp"}
    \/ request.start.kind = "beginning" /\ request.end.kind # "none"
    \/ request.start.kind = "absolute" /\ request.end.kind \in {"timestamp", "snapshot"}

FetchWatermarks ==
    /\ phase = "preparing"
    /\ marks' = IF WatermarksRequired
                THEN [p \in Partitions |-> [low |-> low[p], high |-> high[p]]]
                ELSE marks
    /\ phase' = "starts"
    /\ UNCHANGED <<logVars, request, start, end, opened, fetchVars, queue, pollVars>>

\* Mutant: as if the lookup came first and the watermarks after it.
OffsetForTimestampBefore(p, t) ==
    LET found == {o \in marks[p].low..(marks[p].high - 1) : Time[p][o] >= t}
    IN  IF found = {} THEN high[p] ELSE Min(found)

\* offsets_for_timestamp: without a record that late, the high watermark that
\* was fetched before the lookup.
OffsetForTimestamp(p, t) ==
    LET found == {o \in low[p]..(high[p] - 1) : Time[p][o] >= t}
    IN  IF found = {} THEN marks[p].high ELSE Min(found)

StartOffset(p) ==
    LET at == request.start.at IN
    CASE request.start.kind = "beginning" ->
            IF WatermarksRequired THEN marks[p].low ELSE Beginning
      [] request.start.kind = "end" -> marks[p].high
      [] request.start.kind = "absolute" -> at
      [] request.start.kind = "relative" ->
            IF marks[p].high - at >= marks[p].low THEN marks[p].high - at ELSE marks[p].low
      [] request.start.kind = "timestamp" -> OffsetForTimestamp(p, at)

EndOffset(p) ==
    CASE request.end.kind = "none" -> NoEnd
      [] request.end.kind = "exclusive" -> request.end.at
      [] request.end.kind = "timestamp" -> OffsetForTimestamp(p, request.end.at)
      [] request.end.kind = "snapshot" -> marks[p].high

ResolveStarts ==
    /\ phase = "starts"
    /\ start' = [p \in Partitions |-> StartOffset(p)]
    /\ phase' = "ends"
    /\ UNCHANGED <<logVars, request, marks, end, opened, fetchVars, queue, pollVars>>

ResolveEnds ==
    /\ phase = "ends"
    /\ end' = [p \in Partitions |-> EndOffset(p)]
    /\ phase' = "ranges"
    /\ UNCHANGED <<logVars, request, marks, start, opened, fetchVars, queue, pollVars>>

\* A partition whose range is empty is done before the first poll.
EmptyRange(p) == start[p] # Beginning /\ end[p] # NoEnd /\ start[p] >= end[p]

Assign ==
    /\ phase = "ranges"
    /\ done' = {p \in Partitions : EmptyRange(p)}
    /\ remaining' = Cardinality(Partitions \ done')
    /\ opened' = high
    /\ phase' = "assigned"
    /\ UNCHANGED <<logVars, request, marks, start, end, fetchVars, queue,
                   paused, batch, errors, delivered>>

\* The client refuses metadata, watermarks, a timestamp or the assignment.
PrepareFails ==
    /\ CallsFail
    /\ phase \in {"preparing", "starts", "ends", "ranges"}
    /\ Fail
    /\ UNCHANGED <<logVars, rangeVars, fetchVars, queue, pollVars>>

PauseEmpty(p) ==
    /\ phase = "assigned" /\ p \in done \ paused
    /\ \/ paused' = paused \union {p} /\ UNCHANGED phase
       \/ CallsFail /\ Fail /\ UNCHANGED paused
    /\ UNCHANGED <<logVars, rangeVars, fetchVars, queue, done, remaining, batch,
                   errors, delivered>>

Polling == phase = "assigned" /\ done \subseteq paused

-----------------------------------------------------------------------------
\* The client library. It starts when the partitions are assigned, which is
\* before those with an empty range are paused.

Message(kind, p, o) == [kind |-> kind, partition |-> p, offset |-> o]

FetchedAhead(p) == Cardinality({i \in DOMAIN queue : queue[i].partition = p})

CanFetch(p) == phase = "assigned" /\ p \notin paused /\ FetchedAhead(p) < QueueSize

\* What is delivered at an offset of the log.
Fetched(p, o) ==
    IF <<p, o>> \in Invisible THEN <<>>
    ELSE <<Message(IF <<p, o>> \in Bad THEN "error" ELSE "record", p, o)>>

\* auto.offset.reset is "error".
Reject(p) ==
    /\ position' = [position EXCEPT ![p] = Lost]
    /\ queue' = Append(queue, Message("reset", p, position[p]))
    /\ UNCHANGED <<eofAt, first>>

\* The client starts at the offset it was assigned. The records it fetches may
\* begin before it, because they come in batches.
Locate(p) ==
    /\ CanFetch(p) /\ position[p] = Unlocated
    /\ LET from == IF start[p] = Beginning THEN low[p] ELSE start[p] IN
       \/ /\ low[p] <= from /\ from <= high[p]
          /\ position' = [position EXCEPT ![p] = from]
          /\ first' = [first EXCEPT ![p] = from]
          /\ \/ UNCHANGED queue
             \/ /\ low[p] < from /\ from < high[p]
                /\ queue' = queue \o Fetched(p, from - 1)
          /\ UNCHANGED eofAt
       \/ (from < low[p] \/ high[p] < from) /\ Reject(p)
    /\ UNCHANGED <<logVars, rangeVars, phase, pollVars>>

Fetch(p) ==
    /\ CanFetch(p)
    /\ \/ /\ low[p] <= position[p] /\ position[p] < high[p]
          /\ queue' = queue \o Fetched(p, position[p])
          /\ position' = [position EXCEPT ![p] = @ + 1]
          /\ UNCHANGED <<eofAt, first>>
       \/ /\ position[p] = high[p] /\ eofAt[p] # high[p]
          /\ queue' = Append(queue, Message("eof", p, high[p]))
          /\ eofAt' = [eofAt EXCEPT ![p] = high[p]]
          /\ UNCHANGED <<position, first>>
       \/ 0 <= position[p] /\ position[p] < low[p] /\ Reject(p)
    /\ UNCHANGED <<logVars, rangeVars, phase, pollVars>>

\* Pausing outdates what was fetched of a partition. The client may drop any of
\* it, but not the messages that are already in pending.
Outdate(p) ==
    /\ p \in paused
    /\ \E i \in (batch + 1)..Len(queue) :
        /\ queue[i].partition = p
        /\ queue' = RemoveAt(queue, i)
    /\ UNCHANGED <<logVars, rangeVars, phase, fetchVars, pollVars>>

-----------------------------------------------------------------------------
\* poll_with_timeout, while partitions remain.

\* FetchConsumer::poll: the next message of pending, which is refilled when
\* it is empty, by one message if the poll had to wait for it.
Take(kind) ==
    /\ Polling /\ remaining > 0 /\ queue # <<>>
    /\ Head(queue).kind = kind
    /\ queue' = Tail(queue)
    /\ batch' \in IF batch > 0 THEN {batch - 1}
                  ELSE {0, (IF Len(queue) < BatchSize THEN Len(queue) ELSE BatchSize) - 1}

\* Mutant: finish does not look at done.
FinishUnguarded(p) ==
    /\ remaining' = remaining - 1
    /\ done' = done \union {p}
    /\ paused' = paused \union {p}
    /\ UNCHANGED phase

\* finish: once per partition; then it is paused.
Finish(p) ==
    \/ p \in done /\ UNCHANGED <<done, remaining, paused, phase>>
    \/ /\ p \notin done
       /\ remaining' = remaining - 1
       /\ done' = done \union {p}
       /\ \/ paused' = paused \union {p} /\ UNCHANGED phase
          \/ CallsFail /\ Fail /\ UNCHANGED paused

Stay == UNCHANGED <<done, remaining, paused, phase>>

\* Mutants: the end is judged by the log as it is now; an end event does not
\* count for a range with an end of its own.
EofFinishesByWatermark(m) ==
    IF end[m.partition] # NoEnd THEN high[m.partition] >= end[m.partition]
                                ELSE request.exitAtEnd

EofFinishesOpenRanges(m) == end[m.partition] = NoEnd /\ request.exitAtEnd

\* handle_eof: the offset is the one the event carries. An end of the command
\* line implies exit_at_end, and takes its place.
EofFinishes(m) ==
    IF end[m.partition] # NoEnd THEN m.offset >= end[m.partition]
                                ELSE request.exitAtEnd

PollEof ==
    /\ Take("eof")
    /\ LET m == Head(queue) IN
       \/ EofFinishes(m) /\ Finish(m.partition)
       \/ ~EofFinishes(m) /\ Stay
    /\ UNCHANGED <<logVars, rangeVars, fetchVars, errors, delivered>>

\* Mutant: a record before the range is not dropped.
NeverEarly(m) == FALSE

Beyond(m) == end[m.partition] # NoEnd /\ m.offset >= end[m.partition]
Early(m) == start[m.partition] # Beginning /\ m.offset < start[m.partition]

\* A record that was fetched before its partition was paused, or that comes
\* before the range, is dropped.
PollIgnored ==
    /\ Take("record")
    /\ LET m == Head(queue) IN
       m.partition \in done \/ (~Beyond(m) /\ Early(m))
    /\ Stay
    /\ UNCHANGED <<logVars, rangeVars, fetchVars, errors, delivered>>

PollBeyond ==
    /\ Take("record")
    /\ LET m == Head(queue) IN
       m.partition \notin done /\ Beyond(m) /\ Finish(m.partition)
    /\ UNCHANGED <<logVars, rangeVars, fetchVars, errors, delivered>>

\* Mutant: the partition of a record is not looked up.
PollRecordOfAny ==
    /\ Take("record")
    /\ LET m == Head(queue)
           p == m.partition IN
       /\ ~Beyond(m) /\ ~Early(m)
       /\ delivered' = [delivered EXCEPT ![p] = Append(@, m.offset)]
       /\ Stay
    /\ UNCHANGED <<logVars, rangeVars, fetchVars, errors>>

\* The caller admits the record, which may be the last of its partition's count
\* (poll_loop in src/src/runtime.rs), before it polls again.
PollRecord ==
    /\ Take("record")
    /\ LET m == Head(queue)
           p == m.partition IN
       /\ p \notin done /\ ~Beyond(m) /\ ~Early(m)
       /\ delivered' = [delivered EXCEPT ![p] = Append(@, m.offset)]
       /\ IF request.count # NoCount /\ Len(delivered[p]) + 1 >= request.count
          THEN Finish(p) ELSE Stay
    /\ UNCHANGED <<logVars, rangeVars, fetchVars, errors>>

\* An error in place of a record: only --on-kafka-error continue goes on.
PollError ==
    /\ Take("error")
    /\ UNCHANGED <<done, remaining, paused>>
    /\ IF request.continue THEN UNCHANGED phase ELSE Fail
    /\ UNCHANGED <<logVars, rangeVars, fetchVars, errors, delivered>>

\* An offset out of range always ends the run.
PollReset ==
    /\ Take("reset")
    /\ Fail
    /\ UNCHANGED <<done, remaining, paused>>
    /\ UNCHANGED <<logVars, rangeVars, fetchVars, errors, delivered>>

\* The client's own errors come before a batch is extracted.
PollClientError ==
    /\ Polling /\ remaining > 0 /\ batch = 0 /\ errors < MaxErrors
    /\ errors' = errors + 1
    /\ \/ Fail
       \/ request.continue /\ UNCHANGED phase
    /\ UNCHANGED <<logVars, rangeVars, fetchVars, queue, done, remaining, paused,
                   batch, delivered>>

PollDone ==
    /\ Polling /\ remaining = 0
    /\ phase' = "done"
    /\ UNCHANGED <<logVars, rangeVars, fetchVars, queue, pollVars>>

\* There is nothing to poll, or the run has ended.
Idle ==
    /\ queue = <<>> \/ phase \in {"done", "failed"}
    /\ UNCHANGED vars

-----------------------------------------------------------------------------

Prepare == FetchWatermarks \/ ResolveStarts \/ ResolveEnds \/ Assign
Poll == PollEof \/ PollIgnored \/ PollBeyond \/ PollRecord \/ PollError \/ PollReset
          \/ PollDone

Next ==
    \/ Prepare \/ PrepareFails
    \/ \E p \in Partitions :
          \/ Produce(p) \/ Expire(p)
          \/ PauseEmpty(p) \/ Locate(p) \/ Fetch(p) \/ Outdate(p)
    \/ Poll \/ PollClientError \/ Idle

Spec == Init /\ [][Next]_vars

\* The main thread prepares and polls, the client fetches what there is, and
\* the logs grow to their bound.
FairSpec ==
    /\ Spec
    /\ WF_vars(Prepare) /\ WF_vars(Poll)
    /\ \A p \in Partitions :
          /\ WF_vars(Produce(p))
          /\ WF_vars(PauseEmpty(p)) /\ WF_vars(Locate(p)) /\ WF_vars(Fetch(p))

-----------------------------------------------------------------------------

\* Every value has its type, and a partition is paused only when it is done.
TypeOK ==
    /\ request \in Requests
    /\ low \in [Partitions -> Nat] /\ high \in [Partitions -> Nat]
    /\ \A p \in Partitions : low[p] <= high[p] /\ high[p] <= MaxHigh[p]
    /\ phase \in {"preparing", "starts", "ends", "ranges", "assigned", "done", "failed"}
    /\ marks \in [Partitions -> [low : Nat, high : Nat]]
    /\ start \in [Partitions -> Int] /\ end \in [Partitions -> Int]
    /\ done \subseteq Partitions /\ paused \subseteq done
    /\ remaining \in Nat
    /\ position \in [Partitions -> Int] /\ eofAt \in [Partitions -> Int]
    /\ queue \in Seq([kind : Kinds, partition : Partitions, offset : Int])
    /\ batch \in 0..Len(queue)
    /\ errors \in 0..MaxErrors
    /\ delivered \in [Partitions -> Seq(Nat)]
    /\ first \in [Partitions -> Int] /\ opened \in [Partitions -> Nat]

\* The records of a partition that are to be delivered below a limit.
Wanted(p, limit) ==
    {o \in 0..(high[p] - 1) : first[p] <= o /\ o < limit
        /\ <<p, o>> \notin Invisible /\ <<p, o>> \notin Bad}

\* remaining_partitions counts the partitions that are not done, however often
\* an end, a record beyond it and the count each finish the same partition; and
\* only partitions that are done are paused.
RemainingIsExact ==
    /\ TypeOK
    /\ phase = "assigned" => remaining = Cardinality(Partitions \ done)

\* poll returns the records of the range, in order and without a gap: no record
\* before the start or at the end, none twice, none skipped although the client
\* hands over older offsets, fetches ahead and is paused late.
DeliversTheRange ==
    \A p \in Partitions :
        /\ \A i, j \in DOMAIN delivered[p] : i < j => delivered[p][i] < delivered[p][j]
        /\ \A i \in DOMAIN delivered[p] :
              Wanted(p, delivered[p][i] + 1) = {delivered[p][j] : j \in 1..i}
        /\ end[p] # NoEnd => \A o \in Range(delivered[p]) : o < end[p]

\* A partition that is done has delivered its count, or every record below its
\* end, or, without an end, every record that was there when it was assigned.
\* An end event is used as of its own offset, so records appended after it do
\* not finish a range early (the test
\* a_delayed_eof_does_not_use_a_later_broker_high_watermark).
DoneDeliversAll ==
    \A p \in done :
        \/ request.count # NoCount /\ Len(delivered[p]) = request.count
        \/ EmptyRange(p)
        \/ Wanted(p, IF end[p] # NoEnd THEN end[p] ELSE opened[p])
              \subseteq Range(delivered[p])

\* A range between timestamps loses no record late enough for its start and
\* holds none late enough for its end, even when records are appended between
\* the watermarks, the lookups and the assignment.
TimestampsBoundTheRange ==
    phase = "assigned" =>
        \A p \in Partitions : \A o \in low[p]..(high[p] - 1) :
            /\ request.start.kind = "timestamp" /\ Time[p][o] >= request.start.at
                  => start[p] <= o
            /\ request.end.kind = "timestamp" /\ Time[p][o] >= request.end.at
                  => end[p] <= o

\* poll returns nothing of a partition that is done, although messages of it
\* may still be in pending.
DoneStaysSilent ==
    [][\A p \in done : delivered'[p] = delivered[p]]_delivered

\* A run with an end comes to it when the log has grown that far, even if no
\* record lies at or after the end: the event that ends the partition tells.
RangesEnd ==
    (request.end.kind # "none" \/ request.exitAtEnd) ~> phase \in {"done", "failed"}
=============================================================================
