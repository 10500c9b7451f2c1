------------------------------ MODULE Pipeline ------------------------------
(***************************************************************************)
(* run_pipeline (src/src/runtime.rs): poller threads read Kafka records and*)
(* admit them against the budget, worker threads transform them, and the   *)
(* writer, on the main thread, puts them back in partition order and       *)
(* writes them. Batches of records move through two bounded channels, work *)
(* and completion, and the credits of written records return to their      *)
(* poller through a bounded release channel.                               *)
(*                                                                         *)
(* A record is <<p, s>>: partition p, and the dense sequence s its poller  *)
(* gave it. What the transform decides about it, its fate, is Log[p][s+1]. *)
(***************************************************************************)
EXTENDS Integers, SequencesExt

CONSTANTS
    NumPollers, NumWorkers,  \* threads of each kind
    Log,                \* what each partition holds, as fates
    Assigned,           \* the poller each partition is assigned to
    Heavy,              \* records that fill a batch by their bytes
    BatchRecords,       \* BATCH_RECORDS
    MaxRecords,         \* limits.max_inflight_records
    MaxPerPartition,    \* limits.max_inflight_per_partition
    CountLimit,         \* --count, or NoCount
    CountPerPartition,  \* --count-per-partition, or NoCount
    NoCount,
    Modes,              \* how the command line lets records flow
    Follow,             \* no partition has a fixed end
    Faults              \* what the environment may do

Pollers == 1..NumPollers
Workers == 1..NumWorkers
Partitions == DOMAIN Log
Fates == {"emit", "drop", "fatal"}
AllFaults == {"spawn", "kafka", "output", "panic", "signal"}
None == "none"
NoPartition == 0

ASSUME PipelineAssumption ==
    /\ NumPollers \in Nat \ {0} /\ NumWorkers \in Nat \ {0}
    /\ Partitions \subseteq Nat \ {0} /\ IsFiniteSet(Partitions)
    /\ Log \in [Partitions -> Seq(Fates)]
    /\ Assigned \in [Partitions -> Pollers]
    /\ Heavy \subseteq Partitions \X Nat
    /\ {BatchRecords, MaxRecords, MaxPerPartition} \subseteq Nat \ {0}
    /\ {CountLimit, CountPerPartition} \subseteq (Nat \ {0}) \union {NoCount}
    /\ Modes \subseteq {"direct", "ordered", "unordered"}
    /\ Follow \in BOOLEAN
    /\ Faults \subseteq AllFaults
    \* Only the transform can fail, and the CLI takes one kind of count.
    /\ "direct" \in Modes => \A p \in Partitions : "fatal" \notin Range(Log[p])
    /\ CountLimit = NoCount \/ CountPerPartition = NoCount

VARIABLES
    mode,        \* "direct" when nothing is parsed, so that no workers run
    shutdown, firstFailure,  \* shared by all threads
    signal,      \* what the signal handler has done: it claims, then publishes
    records, admitted,       \* SharedAdmission, the count once it is limited
    next, inflight,          \* Admission, per partition
    finished,    \* partitions whose KafkaInput state is done
    poller,      \* where each poll_loop is
    after,       \* where it goes when the batch it flushes is sent
    pending,     \* the partition of its pending record, or none
    stopping, open, buf,     \* its other locals; open: it still has a sender
    worker, hold,            \* each worker_loop, and the batch it works on
    main, spawned, result,   \* run_pipeline, the threads started, its result
    wbatch, ready, returned, \* write_completions: rest of the batch, ordered
                             \* records to write, credits to return
    frontier, reorder,       \* Orderer: next_sequence, and pending records
    wfail,       \* write_completions' own failure
    written,     \* per partition, the sequences written or dropped, in order
    work, completion, releases  \* the channels

failVars == <<shutdown, firstFailure>>
admissionVars == <<records, admitted, next, inflight>>
loopVars == <<pending, stopping, open, buf, finished>>
pollerVars == <<poller, after, loopVars>>
workerVars == <<worker, hold>>
mainVars == <<main, spawned, result>>
writerVars == <<wbatch, ready, returned, frontier, reorder, wfail, written>>
runVars == <<failVars, signal, admissionVars, pollerVars, workerVars, mainVars,
          writerVars, work, completion, releases>>
vars == <<mode, runVars>>

-----------------------------------------------------------------------------
ParsesJson == mode # "direct"
Ordered == mode = "ordered"
Fate(r) == Log[r[1]][r[2] + 1]
PartitionsOf(c) == {p \in Partitions : Assigned[p] = c}
Idle(c) == \A p \in PartitionsOf(c) : inflight[p] = 0
\* Mutant: one record more than the count.
CountExceeded == CountLimit # NoCount /\ admitted > CountLimit

CountReached == CountLimit # NoCount /\ admitted >= CountLimit
BatchCapacity == (MaxRecords + BatchRecords - 1) \div BatchRecords

\* Channel ends. A thread's ends go when it exits or unwinds; the main thread
\* drops its own copies once every thread is started, and the writer's when it
\* returns.
Started == main \notin {"pollers", "workers"}
Over(state) == state \in {"exit", "panicked", "unstarted"}
WorkClosed == main # "pollers" /\ \A c \in Pollers : ~open[c]
WorkersGone == Started /\ \A w \in Workers : Over(worker[w])
CompletionClosed ==
    Started /\ IF ParsesJson THEN WorkersGone ELSE \A c \in Pollers : ~open[c]
WriterGone == main \in {"joining", "finished"}

\* record_failure keeps the first, and every caller then sets shutdown.
Fail(kind) ==
    /\ firstFailure' = IF firstFailure = None THEN kind ELSE firstFailure
    /\ shutdown' = TRUE

Goto(c, pc) == poller' = [poller EXCEPT ![c] = pc]

Init ==
    /\ mode \in Modes
    /\ shutdown = FALSE /\ firstFailure = None /\ signal = None
    /\ records = 0 /\ admitted = 0
    /\ next = [p \in Partitions |-> 0]
    /\ inflight = [p \in Partitions |-> 0]
    /\ finished = {}
    /\ poller = [c \in Pollers |-> "unborn"]
    /\ after = [c \in Pollers |-> "top"]
    /\ pending = [c \in Pollers |-> NoPartition]
    /\ stopping = [c \in Pollers |-> FALSE]
    /\ open = [c \in Pollers |-> TRUE]
    /\ buf = [c \in Pollers |-> <<>>]
    /\ worker = [w \in Workers |-> "unborn"]
    /\ hold = [w \in Workers |-> <<>>]
    /\ main = "pollers" /\ spawned = 0 /\ result = None
    /\ wbatch = <<>> /\ ready = <<>> /\ returned = <<>>
    /\ frontier = [p \in Partitions |-> 0]
    /\ reorder = {}
    /\ wfail = None
    /\ written = [p \in Partitions |-> <<>>]
    /\ work = <<>> /\ completion = <<>>
    /\ releases = [c \in Pollers |-> <<>>]

-----------------------------------------------------------------------------
\* The poller: poll_loop.

PollerOnly == UNCHANGED <<signal, workerVars, mainVars, writerVars>>

\* release_batch: return a batch of credits to both budgets.
TakeCredits(c) ==
    LET batch == Head(releases[c]) IN
    /\ releases' = [releases EXCEPT ![c] = Tail(@)]
    /\ inflight' = [p \in Partitions |->
            inflight[p] - Cardinality({i \in DOMAIN batch : batch[i][1] = p})]
    /\ records' = records - Len(batch)
    /\ UNCHANGED <<admitted, next>>

\* The top of the loop drains the release channel ...
DrainRelease(c) ==
    /\ poller[c] = "top" /\ releases[c] # <<>>
    /\ TakeCredits(c)
    /\ PollerOnly /\ UNCHANGED <<failVars, pollerVars, work, completion>>

\* Mutants: a stopping poller drops what it has buffered; a shutdown does not
\* stop it; it keeps its sender until it exits.
CheckStopDropping(c) ==
    /\ poller[c] = "top" /\ releases[c] = <<>>
    /\ IF stopping[c] \/ shutdown \/ CountReached
       THEN /\ stopping' = [stopping EXCEPT ![c] = TRUE]
            /\ pending' = [pending EXCEPT ![c] = NoPartition]
            /\ buf' = [buf EXCEPT ![c] = <<>>]
            /\ open' = [open EXCEPT ![c] = FALSE]
            /\ Goto(c, IF Idle(c) THEN "exit" ELSE "wait")
       ELSE /\ Goto(c, IF pending[c] = NoPartition THEN "poll" ELSE "reserve")
            /\ UNCHANGED <<stopping, pending, open, buf>>
    /\ PollerOnly
    /\ UNCHANGED <<failVars, admissionVars, after, finished, work, completion, releases>>

CheckStopDeaf(c) ==
    /\ poller[c] = "top" /\ releases[c] = <<>> /\ ~stopping[c]
    /\ Goto(c, IF pending[c] = NoPartition THEN "poll" ELSE "reserve")
    /\ PollerOnly
    /\ UNCHANGED <<failVars, admissionVars, after, loopVars, work, completion, releases>>

CheckStopHolding(c) ==
    /\ poller[c] = "top" /\ releases[c] = <<>>
    /\ IF stopping[c] \/ shutdown \/ CountReached
       THEN /\ stopping' = [stopping EXCEPT ![c] = TRUE]
            /\ pending' = [pending EXCEPT ![c] = NoPartition]
            /\ IF open[c] /\ buf[c] # <<>>
               THEN /\ Goto(c, "flush")
                    /\ after' = [after EXCEPT ![c] = "drain"]
                    /\ UNCHANGED open
               ELSE /\ open' = [open EXCEPT ![c] = @ /\ ~Idle(c)]
                    /\ Goto(c, IF Idle(c) THEN "exit" ELSE "wait")
                    /\ UNCHANGED after
       ELSE /\ Goto(c, IF pending[c] = NoPartition THEN "poll" ELSE "reserve")
            /\ UNCHANGED <<stopping, pending, open, after>>
    /\ PollerOnly
    /\ UNCHANGED <<failVars, admissionVars, buf, finished, work, completion, releases>>

\* ... and then decides whether to stop. A stopping poller flushes, drops its
\* sender and its pending record, and stays until its credits are back.
CheckStop(c) ==
    /\ poller[c] = "top" /\ releases[c] = <<>>
    /\ IF stopping[c] \/ shutdown \/ CountReached
       THEN /\ stopping' = [stopping EXCEPT ![c] = TRUE]
            /\ pending' = [pending EXCEPT ![c] = NoPartition]
            /\ IF open[c] /\ buf[c] # <<>>
               THEN /\ Goto(c, "flush")
                    /\ after' = [after EXCEPT ![c] = "drain"]
                    /\ UNCHANGED open
               ELSE /\ open' = [open EXCEPT ![c] = FALSE]
                    /\ Goto(c, IF Idle(c) THEN "exit" ELSE "wait")
                    /\ UNCHANGED after
       ELSE /\ Goto(c, IF pending[c] = NoPartition THEN "poll" ELSE "reserve")
            /\ UNCHANGED <<stopping, pending, open, after>>
    /\ PollerOnly
    /\ UNCHANGED <<failVars, admissionVars, buf, finished, work, completion, releases>>

\* What the steps that only poll leave alone.
PollOnly ==
    /\ PollerOnly
    /\ UNCHANGED <<admissionVars, open, buf, work, completion, releases>>

\* The input is polled only while a partition is unfinished.
Polling(c) == poller[c] = "poll" /\ PartitionsOf(c) \ finished # {}

PollRecord(c) ==
    /\ poller[c] = "poll"
    /\ \E p \in PartitionsOf(c) \ finished :
        /\ next[p] < Len(Log[p])
        /\ pending' = [pending EXCEPT ![c] = p]
    /\ Goto(c, "reserve")
    /\ PollOnly /\ UNCHANGED <<failVars, after, stopping, finished>>

\* An idle poll sends what is buffered before it polls again.
GoIdle(c) ==
    IF buf[c] = <<>>
    THEN Goto(c, "top") /\ UNCHANGED after
    ELSE Goto(c, "flush") /\ after' = [after EXCEPT ![c] = "top"]

\* A partition reached its end: it is finished, and the poll is idle.
PollEnd(c) ==
    /\ poller[c] = "poll" /\ ~Follow
    /\ \E p \in PartitionsOf(c) \ finished :
        /\ next[p] = Len(Log[p])
        /\ finished' = finished \union {p}
    /\ GoIdle(c)
    /\ PollOnly /\ UNCHANGED <<failVars, pending, stopping>>

\* The broker had nothing in time.
PollTimeout(c) ==
    /\ Polling(c)
    /\ GoIdle(c)
    /\ PollOnly /\ UNCHANGED <<failVars, pending, stopping, finished>>

PollDone(c) ==
    /\ poller[c] = "poll" /\ PartitionsOf(c) \subseteq finished
    /\ stopping' = [stopping EXCEPT ![c] = TRUE]
    /\ Goto(c, "top")
    /\ PollOnly /\ UNCHANGED <<failVars, after, pending, finished>>

\* The poll fails; or it finishes a partition at its end and fails to pause it.
PollError(c) ==
    /\ "kafka" \in Faults
    /\ Polling(c)
    /\ \/ UNCHANGED finished
       \/ \E p \in PartitionsOf(c) \ finished :
            /\ ~Follow /\ next[p] = Len(Log[p])
            /\ finished' = finished \union {p}
    /\ Fail("runtime")
    /\ Goto(c, "top")
    /\ PollOnly /\ UNCHANGED <<after, pending, stopping>>

\* Mutant: no shared limit.
CanReserveLocal(p) == inflight[p] < MaxPerPartition /\ ~CountReached

\* can_reserve and try_reserve. SharedAdmission decides atomically, which
\* AdmissionSpec justifies.
CanReserve(p) ==
    /\ inflight[p] < MaxPerPartition
    /\ records < MaxRecords
    /\ ~CountReached

\* Mutant: one record more than the partition's count.
CountOverspent(p) == CountPerPartition # NoCount /\ next[p] + 1 > CountPerPartition

\* The partition's count is spent by the record being admitted.
CountSpent(p) == CountPerPartition # NoCount /\ next[p] + 1 >= CountPerPartition

\* admit: the record gets its partition's next sequence, and joins the batch,
\* which is flushed when it is full. Pausing a finished partition may fail.
Admit(c) ==
    /\ poller[c] = "reserve"
    /\ LET p == pending[c]
           record == <<p, next[p]>>
           batch == Append(buf[c], record)
       IN
       /\ CanReserve(p)
       /\ next' = [next EXCEPT ![p] = @ + 1]
       /\ inflight' = [inflight EXCEPT ![p] = @ + 1]
       /\ records' = records + 1
       /\ admitted' = IF CountLimit = NoCount THEN admitted ELSE admitted + 1
       /\ buf' = [buf EXCEPT ![c] = batch]
       /\ IF Len(batch) >= BatchRecords \/ record \in Heavy
          THEN Goto(c, "flush") /\ after' = [after EXCEPT ![c] = "top"]
          ELSE Goto(c, "top") /\ UNCHANGED after
       /\ finished' = IF CountSpent(p) THEN finished \union {p} ELSE finished
       /\ \/ UNCHANGED failVars
          \/ CountSpent(p) /\ "kafka" \in Faults /\ Fail("runtime")
    /\ pending' = [pending EXCEPT ![c] = NoPartition]
    /\ PollerOnly
    /\ UNCHANGED <<stopping, open, work, completion, releases>>

\* Mutant: what is buffered is kept while the poller waits.
RefuseUnflushed(c) ==
    /\ poller[c] = "reserve"
    /\ ~CanReserve(pending[c])
    /\ Goto(c, "wait")
    /\ PollOnly /\ UNCHANGED <<failVars, after, pending, stopping, finished>>

\* No capacity: the record stays pending, and what is buffered is sent before
\* the poller waits for credits.
Refuse(c) ==
    /\ poller[c] = "reserve"
    /\ ~CanReserve(pending[c])
    /\ IF buf[c] = <<>>
       THEN Goto(c, "wait") /\ UNCHANGED after
       ELSE Goto(c, "flush") /\ after' = [after EXCEPT ![c] = "wait"]
    /\ PollOnly /\ UNCHANGED <<failVars, pending, stopping, finished>>

\* PollerBuffer::flush sends the batch to the workers, or to the writer when
\* nothing has to be parsed. The last flush drops the sender.
FlushSent(c) ==
    /\ buf' = [buf EXCEPT ![c] = <<>>]
    /\ IF after[c] = "drain"
       THEN /\ open' = [open EXCEPT ![c] = FALSE]
            /\ Goto(c, IF Idle(c) THEN "exit" ELSE "wait")
       ELSE Goto(c, after[c]) /\ UNCHANGED open
    /\ PollerOnly
    /\ UNCHANGED <<failVars, admissionVars, after, pending, stopping, finished, releases>>

FlushWork(c) ==
    /\ poller[c] = "flush" /\ ParsesJson
    /\ ~WorkersGone /\ Len(work) < BatchCapacity
    /\ work' = Append(work, buf[c])
    /\ FlushSent(c) /\ UNCHANGED completion

FlushCompletion(c) ==
    /\ poller[c] = "flush" /\ ~ParsesJson
    /\ ~WriterGone /\ Len(completion) < BatchCapacity
    /\ completion' = Append(completion, buf[c])
    /\ FlushSent(c) /\ UNCHANGED work

\* Leaving the loop on an error drops the sender and everything else.
Leave(c) ==
    /\ Fail("runtime")
    /\ Goto(c, "exit")
    /\ open' = [open EXCEPT ![c] = FALSE]
    /\ PollerOnly
    /\ UNCHANGED <<admissionVars, after, pending, stopping, buf, finished,
                   work, completion, releases>>

FlushFails(c) ==
    /\ poller[c] = "flush"
    /\ IF ParsesJson THEN WorkersGone ELSE WriterGone
    /\ Leave(c)

\* recv_timeout on the release channel.
WaitCredits(c) ==
    /\ poller[c] = "wait" /\ releases[c] # <<>>
    /\ TakeCredits(c)
    /\ Goto(c, "top")
    /\ PollerOnly /\ UNCHANGED <<failVars, after, loopVars, work, completion>>

WaitTimeout(c) ==
    /\ poller[c] = "wait" /\ releases[c] = <<>> /\ ~WriterGone
    /\ Goto(c, "top")
    /\ PollOnly /\ UNCHANGED <<failVars, after, pending, stopping, finished>>

WaitDisconnected(c) ==
    /\ poller[c] = "wait" /\ releases[c] = <<>> /\ WriterGone
    /\ Leave(c)

\* A panic unwinds the thread, its channel ends included, before guard_thread
\* records the failure.
PollerPanic(c) ==
    /\ "panic" \in Faults
    /\ Polling(c)
    /\ Goto(c, "panicked")
    /\ open' = [open EXCEPT ![c] = FALSE]
    /\ PollerOnly
    /\ UNCHANGED <<failVars, admissionVars, after, pending, stopping, buf, finished,
                   work, completion, releases>>

PollerGuard(c) ==
    /\ poller[c] = "panicked"
    /\ Fail("runtime")
    /\ Goto(c, "exit")
    /\ PollOnly /\ UNCHANGED <<after, pending, stopping, finished>>

-----------------------------------------------------------------------------
\* The workers: worker_loop.

WorkerOnly == UNCHANGED <<signal, admissionVars, pollerVars, mainVars, writerVars, releases>>

SetWorker(w, pc, batch) ==
    /\ worker' = [worker EXCEPT ![w] = pc]
    /\ hold' = [hold EXCEPT ![w] = batch]

TakeWork(w) ==
    /\ worker[w] = "recv" /\ work # <<>>
    /\ work' = Tail(work)
    /\ SetWorker(w, "busy", Head(work))
    /\ WorkerOnly /\ UNCHANGED <<failVars, completion>>

\* Every record of the batch has an outcome, a fatal one included; the batch
\* goes on as one.
SendCompletion(w) ==
    /\ worker[w] = "busy" /\ ~WriterGone
    /\ Len(completion) < BatchCapacity
    /\ completion' = Append(completion, hold[w])
    /\ SetWorker(w, "recv", <<>>)
    /\ WorkerOnly /\ UNCHANGED <<failVars, work>>

SendCompletionFails(w) ==
    /\ worker[w] = "busy" /\ WriterGone
    /\ SetWorker(w, "exit", <<>>)
    /\ WorkerOnly /\ UNCHANGED <<failVars, work, completion>>

WorkEnds(w) ==
    /\ worker[w] = "recv" /\ work = <<>> /\ WorkClosed
    /\ SetWorker(w, "exit", <<>>)
    /\ WorkerOnly /\ UNCHANGED <<failVars, work, completion>>

WorkerPanic(w) ==
    /\ "panic" \in Faults
    /\ worker[w] = "busy"
    /\ SetWorker(w, "panicked", <<>>)
    /\ WorkerOnly /\ UNCHANGED <<failVars, work, completion>>

WorkerGuard(w) ==
    /\ worker[w] = "panicked"
    /\ Fail("runtime")
    /\ SetWorker(w, "exit", <<>>)
    /\ WorkerOnly /\ UNCHANGED <<work, completion>>

-----------------------------------------------------------------------------
\* The main thread starts the pollers and then the workers. When a thread
\* cannot be started the rest of its kind is not, and what those threads would
\* have owned is dropped.

Starting == UNCHANGED <<signal, admissionVars, writerVars, result, work, completion, releases>>

StartPoller ==
    /\ main = "pollers"
    /\ spawned' = (spawned + 1) % NumPollers
    /\ Goto(spawned + 1, "top")
    /\ main' = IF spawned + 1 < NumPollers THEN "pollers"
               ELSE IF ParsesJson THEN "workers" ELSE "started"
    /\ Starting /\ UNCHANGED <<failVars, after, loopVars, workerVars>>

PollerFailsToStart ==
    /\ "spawn" \in Faults
    /\ main = "pollers"
    /\ Fail("startup")
    /\ poller' = [c \in Pollers |-> IF c > spawned THEN "unstarted" ELSE poller[c]]
    /\ open' = [c \in Pollers |-> c <= spawned /\ open[c]]
    /\ spawned' = 0
    /\ main' = IF ParsesJson THEN "workers" ELSE "started"
    /\ Starting /\ UNCHANGED <<after, pending, stopping, buf, finished, workerVars>>

StartWorker ==
    /\ main = "workers"
    /\ spawned' = (spawned + 1) % NumWorkers
    /\ worker' = [worker EXCEPT ![spawned + 1] = "recv"]
    /\ main' = IF spawned + 1 < NumWorkers THEN "workers" ELSE "started"
    /\ Starting /\ UNCHANGED <<failVars, pollerVars, hold>>

WorkerFailsToStart ==
    /\ "spawn" \in Faults
    /\ main = "workers"
    /\ Fail("startup")
    /\ worker' = [w \in Workers |-> IF w > spawned THEN "unstarted" ELSE worker[w]]
    /\ spawned' = 0
    /\ main' = "started"
    /\ Starting /\ UNCHANGED <<pollerVars, hold>>

-----------------------------------------------------------------------------
\* The writer: write_completions, on the main thread. It writes nothing after
\* its own failure, but goes on ordering and returning credits.

WriterOnly == UNCHANGED <<signal, admissionVars, pollerVars, workerVars, spawned, work>>

\* Its failure starts as a failure to start a thread, if that came first.
BeginWriting ==
    /\ main = "started"
    /\ main' = "writer"
    /\ wfail' = IF firstFailure = "startup" THEN "startup" ELSE None
    /\ WriterOnly
    /\ UNCHANGED <<failVars, result, wbatch, ready, returned, frontier, reorder,
                   written, completion, releases>>

\* writer_failure
WriterFails(kind) ==
    /\ Fail(kind)
    /\ wfail' = IF wfail = None THEN kind ELSE wfail

Resting == main = "writer" /\ wbatch = <<>> /\ ready = <<>> /\ returned = <<>>

\* Mutant: the credits of a batch are returned when it arrives.
TakeCompletionReleasing ==
    /\ Resting /\ completion # <<>>
    /\ wbatch' = Head(completion)
    /\ returned' = Head(completion)
    /\ completion' = Tail(completion)
    /\ WriterOnly
    /\ UNCHANGED <<failVars, main, result, ready, frontier, reorder, wfail, written, releases>>

TakeCompletion ==
    /\ Resting /\ completion # <<>>
    /\ wbatch' = Head(completion)
    /\ completion' = Tail(completion)
    /\ WriterOnly
    /\ UNCHANGED <<failVars, main, result, ready, returned, frontier, reorder, wfail,
                   written, releases>>

\* Mutants: everything of the partition is drained, gaps or not; what is
\* drained stays in the pool.
DrainAll(p, pool) == SetToSeq({r \in pool : r[1] = p})
RemainAll(run, pool) == pool

\* Orderer::insert: the run of records in the pool that starts at the frontier
\* of their partition becomes ready, and leaves the pool.
Drain(p, pool) ==
    LET end == CHOOSE e \in frontier[p]..(frontier[p] + Cardinality(pool)) :
                    /\ <<p, e>> \notin pool
                    /\ \A s \in frontier[p]..(e - 1) : <<p, s>> \in pool
    IN [i \in 1..(end - frontier[p]) |-> <<p, frontier[p] + i - 1>>]
Remain(run, pool) == pool \ Range(run)

\* The next completion of the batch joins the records ahead of the frontier; a
\* sequence seen before is an error.
Order ==
    /\ main = "writer" /\ wbatch # <<>> /\ ready = <<>> /\ Ordered
    /\ LET record == Head(wbatch)
           p == record[1]
           pool == reorder \union {record}
       IN
       IF record[2] < frontier[p] \/ record \in reorder
       THEN /\ WriterFails("runtime")
            /\ returned' = Append(returned, record)
            /\ UNCHANGED <<ready, frontier, reorder>>
       ELSE /\ ready' = Drain(p, pool)
            /\ reorder' = Remain(ready', pool)
            /\ frontier' = [frontier EXCEPT ![p] = @ + Len(ready')]
            /\ UNCHANGED <<failVars, wfail, returned>>
    /\ wbatch' = Tail(wbatch)
    /\ WriterOnly /\ UNCHANGED <<main, result, written, completion, releases>>

\* --unordered, or nothing to parse: completions are written as they arrive.
Direct ==
    /\ main = "writer" /\ wbatch # <<>> /\ ready = <<>> /\ ~Ordered
    /\ ready' = <<Head(wbatch)>>
    /\ wbatch' = Tail(wbatch)
    /\ WriterOnly
    /\ UNCHANGED <<failVars, main, result, returned, frontier, reorder, wfail, written,
                   completion, releases>>

\* Mutants: the writer goes on after its failure; it also falls silent when the
\* run is told to stop.
SilentNever == FALSE
SilentOnStop == wfail # None \/ shutdown

Silent == wfail # None

\* A ready record is written, dropped, fatal, or comes after a failure. Its
\* credit is returned whatever becomes of it.
Write ==
    /\ main = "writer" /\ ready # <<>>
    /\ LET record == Head(ready)
           p == record[1]
           done == written' = [written EXCEPT ![p] = Append(@, record[2])]
       IN
       /\ \/ /\ Silent
             /\ UNCHANGED <<failVars, wfail, written>>
          \/ /\ ~Silent /\ Fate(record) = "fatal"
             /\ WriterFails("runtime") /\ UNCHANGED written
          \/ /\ ~Silent /\ Fate(record) # "fatal"
             /\ done /\ UNCHANGED <<failVars, wfail>>
          \/ /\ ~Silent /\ Fate(record) = "emit" /\ "output" \in Faults
             /\ WriterFails("output") /\ UNCHANGED written
       /\ returned' = Append(returned, record)
    /\ ready' = Tail(ready)
    /\ WriterOnly
    /\ UNCHANGED <<main, result, wbatch, frontier, reorder, completion, releases>>

\* After a batch, its credits go back to the poller, if that is still there.
ReturnCredits ==
    /\ main = "writer" /\ wbatch = <<>> /\ ready = <<>> /\ returned # <<>>
    /\ LET c == Assigned[Head(returned)[1]] IN
       \/ /\ Over(poller[c])
          /\ UNCHANGED releases
       \/ /\ ~Over(poller[c])
          /\ Len(releases[c]) < MaxRecords
          /\ releases' = [releases EXCEPT ![c] = Append(@, returned)]
    /\ returned' = <<>>
    /\ WriterOnly
    /\ UNCHANGED <<failVars, main, result, wbatch, ready, frontier, reorder, wfail,
                   written, completion>>

\* Every sender is gone. Records still ahead of the frontier mean a gap: their
\* credits are returned, and the gap is a failure.
Credits(c) ==
    LET mine == {r \in reorder : Assigned[r[1]] = c} IN
    IF mine = {} \/ Over(poller[c]) THEN <<>>
    ELSE <<SetToSeq(mine)>>

CloseWriter ==
    /\ Resting /\ completion = <<>> /\ CompletionClosed
    /\ \A c \in Pollers : Len(releases[c] \o Credits(c)) <= MaxRecords
    /\ releases' = [c \in Pollers |-> releases[c] \o Credits(c)]
    /\ IF reorder # {} THEN WriterFails("runtime") ELSE UNCHANGED <<failVars, wfail>>
    /\ reorder' = {}
    /\ main' = "flushing"
    /\ WriterOnly
    /\ UNCHANGED <<result, wbatch, ready, returned, frontier, written, completion>>

\* The output is flushed unless it has failed already.
FlushOutput ==
    /\ main = "flushing"
    /\ \/ UNCHANGED <<failVars, wfail>>
       \/ "output" \in Faults /\ wfail # "output" /\ WriterFails("output")
    /\ main' = "joining"
    /\ WriterOnly
    /\ UNCHANGED <<result, wbatch, ready, returned, frontier, reorder, written,
                   completion, releases>>

\* A panic is recorded while the channels are still open.
WriterPanic ==
    /\ "panic" \in Faults
    /\ main = "writer" /\ ready # <<>>
    /\ Fail("runtime")
    /\ main' = "joining"
    /\ WriterOnly /\ UNCHANGED <<result, writerVars, completion, releases>>

Outcome ==
    IF firstFailure # None THEN firstFailure
    ELSE IF signal # None THEN "signal" ELSE "complete"

\* run_pipeline joins every thread and reports the first failure, or else the
\* signal received.
Join ==
    /\ main = "joining"
    /\ \A c \in Pollers : poller[c] \in {"exit", "unstarted"}
    /\ ParsesJson => \A w \in Workers : worker[w] \in {"exit", "unstarted"}
    /\ main' = "finished"
    /\ result' = Outcome
    /\ WriterOnly /\ UNCHANGED <<failVars, writerVars, completion, releases>>

-----------------------------------------------------------------------------
\* The first termination signal of a run that is not stopping yet: the handler
\* records it, and then publishes the shutdown.

HandlerOnly ==
    UNCHANGED <<firstFailure, admissionVars, pollerVars, workerVars, mainVars, writerVars,
                work, completion, releases>>

ClaimSignal ==
    /\ "signal" \in Faults /\ signal = None /\ ~shutdown /\ main # "finished"
    /\ signal' = "claimed"
    /\ HandlerOnly /\ UNCHANGED shutdown

PublishShutdown ==
    /\ signal = "claimed"
    /\ signal' = "published"
    /\ shutdown' = TRUE
    /\ HandlerOnly

-----------------------------------------------------------------------------
Deliver(c) == PollRecord(c) \/ PollEnd(c) \/ PollDone(c)

PollLoop(c) ==
    \/ DrainRelease(c) \/ CheckStop(c)
    \/ Deliver(c) \/ PollTimeout(c)
    \/ Admit(c) \/ Refuse(c)
    \/ FlushWork(c) \/ FlushCompletion(c) \/ FlushFails(c)
    \/ WaitCredits(c) \/ WaitTimeout(c) \/ WaitDisconnected(c)
    \/ PollerGuard(c)

WorkerLoop(w) ==
    \/ TakeWork(w) \/ SendCompletion(w) \/ SendCompletionFails(w)
    \/ WorkEnds(w) \/ WorkerGuard(w)

RunPipeline ==
    \/ StartPoller \/ StartWorker \/ BeginWriting
    \/ TakeCompletion \/ Order \/ Direct \/ Write \/ ReturnCredits
    \/ CloseWriter \/ FlushOutput \/ Join

Fault ==
    \/ PollerFailsToStart \/ WorkerFailsToStart \/ WriterPanic
    \/ \E c \in Pollers : PollError(c) \/ PollerPanic(c)
    \/ \E w \in Workers : WorkerPanic(w)

Step ==
    \/ \E c \in Pollers : PollLoop(c)
    \/ \E w \in Workers : WorkerLoop(w)
    \/ RunPipeline
    \/ Fault
    \/ ClaimSignal \/ PublishShutdown
    \/ main = "finished" /\ UNCHANGED runVars

Next == Step /\ UNCHANGED mode

(***************************************************************************)
(* Every thread that can take a step takes one in the end, a handler that  *)
(* has started finishes, and a partition that keeps being polled delivers  *)
(* what it has (the broker answers). Faults need not happen.               *)
(***************************************************************************)
Fairness ==
    /\ \A c \in Pollers : WF_runVars(PollLoop(c)) /\ SF_runVars(Deliver(c))
    /\ \A w \in Workers : WF_runVars(WorkerLoop(w))
    /\ WF_runVars(RunPipeline)
    /\ WF_runVars(PublishShutdown)

Spec == Init /\ [][Next]_vars
FairSpec == Spec /\ Fairness

-----------------------------------------------------------------------------
RecordType == Partitions \X Nat

\* Every value has its type: in particular no poller's in-flight count, and
\* not the shared one, is ever released below zero.
TypeOK ==
    /\ mode \in Modes
    /\ shutdown \in BOOLEAN
    /\ {firstFailure, wfail} \subseteq {None, "startup", "runtime", "output"}
    /\ signal \in {None, "claimed", "published"}
    /\ records \in 0..MaxRecords /\ admitted \in Nat
    /\ next \in [Partitions -> Nat]
    /\ inflight \in [Partitions -> 0..MaxPerPartition]
    /\ finished \subseteq Partitions
    /\ poller \in [Pollers -> {"unborn", "top", "poll", "reserve", "flush", "wait",
                               "panicked", "exit", "unstarted"}]
    /\ after \in [Pollers -> {"top", "wait", "drain"}]
    /\ pending \in [Pollers -> Partitions \union {NoPartition}]
    /\ stopping \in [Pollers -> BOOLEAN] /\ open \in [Pollers -> BOOLEAN]
    /\ \A c \in Pollers : buf[c] \in Seq(RecordType)
    /\ worker \in [Workers -> {"unborn", "recv", "busy", "panicked", "exit", "unstarted"}]
    /\ \A w \in Workers : hold[w] \in Seq(RecordType)
    /\ main \in {"pollers", "workers", "started", "writer", "flushing", "joining", "finished"}
    /\ spawned \in Nat
    /\ result \in {None, "startup", "runtime", "output", "signal", "complete"}
    /\ {wbatch, ready, returned} \subseteq Seq(RecordType)
    /\ frontier \in [Partitions -> Nat] /\ reorder \subseteq RecordType
    /\ \A p \in Partitions : written[p] \in Seq(Nat)
    /\ {work, completion} \subseteq Seq(Seq(RecordType))
    /\ \A c \in Pollers : releases[c] \in Seq(Seq(RecordType))

\* Where an admitted record is, until its poller has taken its credit back.
In(r, seqs) == {i \in DOMAIN seqs : r \in Range(seqs[i])}
Stations(r) ==
    ({"buf"} \X In(r, buf)) \union ({"work"} \X In(r, work))
    \union ({"hold"} \X In(r, hold)) \union ({"completion"} \X In(r, completion))
    \union ({"wbatch"} \X {i \in DOMAIN wbatch : wbatch[i] = r})
    \union ({"reorder"} \X ({r} \intersect reorder))
    \union ({"ready"} \X {i \in DOMAIN ready : ready[i] = r})
    \union ({"returned"} \X {i \in DOMAIN returned : returned[i] = r})
    \union ({"releases"} \X {c \in Pollers : In(r, releases[c]) # {}})

Held(p) == {s \in 0..(next[p] - 1) : Stations(<<p, s>>) # {}}
HeldAll == UNION {{p} \X Held(p) : p \in Partitions}

\* No failure has been recorded, and no thread has unwound without recording it.
Unbroken ==
    /\ firstFailure = None
    /\ \A c \in Pollers : poller[c] # "panicked"
    /\ \A w \in Workers : worker[w] # "panicked"

\* A record is in one batch, channel or buffer at a time, and holds exactly one
\* credit in its partition's count and one in the shared budget until that
\* place is left: batching, reordering and failures neither lose a credit nor
\* return one twice, and no counter is ever released below zero. (A failure may
\* lose records with a thread, never credits that were returned twice.)
CreditsConserved ==
    /\ TypeOK
    /\ \A p \in Partitions :
        /\ \A s \in 0..(next[p] - 1) : Cardinality(Stations(<<p, s>>)) <= 1
        /\ Cardinality(Held(p)) <= inflight[p]
    /\ Unbroken =>
        /\ \A p \in Partitions : Cardinality(Held(p)) = inflight[p]
        /\ records = Cardinality(HeldAll)

\* A credit is returned only once its record has been written or dropped,
\* unless the run has failed: slow output holds the pollers back.
CreditsOutliveWrites ==
    Unbroken =>
        \A p \in Partitions : \A s \in 0..(next[p] - 1) :
            LET places == {station[1] : station \in Stations(<<p, s>>)} IN
            places = {} \/ places \intersect {"returned", "releases"} # {}
                => s \in Range(written[p])

\* The writer never waits for a poller: whenever it still has records of a
\* poller, that poller's release channel has room. Without this a poller that
\* is blocked sending work, and the writer, would wait for each other.
WriterNeverWaits ==
    \A c \in Pollers :
        (\E r \in Range(wbatch) \union Range(ready) \union Range(returned) \union reorder :
            Assigned[r[1]] = c)
        => Len(releases[c]) < MaxRecords

\* Without a fault of the environment or a fatal record, no thread ever
\* reports a failure: no poller finds its release channel closed or its
\* destination gone, and the writer finds no gap and no duplicate.
HealthyRunsSucceed ==
    (Faults \subseteq {"signal"} /\ \A p \in Partitions : "fatal" \notin Range(Log[p]))
        => firstFailure = None

\* A run that completes without a signal has processed its whole input: every
\* record, or as many as the count allows.
Smaller(a, b) == IF a < b THEN a ELSE b
Total(seqs) == Cardinality(UNION {{p} \X DOMAIN seqs[p] : p \in Partitions})
CompleteCoversInput ==
    result = "complete" =>
        IF CountLimit # NoCount THEN Total(written) = Smaller(CountLimit, Total(Log))
        ELSE \A p \in Partitions :
            Len(written[p]) = IF CountPerPartition = NoCount THEN Len(Log[p])
                              ELSE Smaller(CountPerPartition, Len(Log[p]))

\* The output follows the abstract specification: in order and once, nothing
\* from a fatal record on, and a successful result only if all of it is there.
Output == INSTANCE OutputSpec WITH
    keepsOrder <- mode # "unordered",
    taken <- next,
    output <- written,
    status <- IF result \in {"complete", "signal"} THEN "complete"
              ELSE IF wfail # None \/ result # None THEN "failed" ELSE "running"
ImplementsOutput == Output!Spec

\* A run with fixed ends, and any run that is told to stop, ends, whatever
\* threads fail: no stage is left blocked on another.
RunsEnd == (~Follow \/ shutdown \/ CountReached) ~> (main = "finished")

\* "A startup failure cannot produce partial record output."
\* (src/docs/architecture.md:87)
NoOutputAfterStartupFailure ==
    (\E c \in Pollers : poller[c] = "unstarted") \/ (\E w \in Workers : worker[w] = "unstarted")
        => \A p \in Partitions : written[p] = <<>>
=============================================================================
