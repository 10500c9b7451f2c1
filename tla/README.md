# A TLA+ model of jkq

jkq reads a topic of Kafka, transforms each record with a JSONata program and
writes the results to stdout. This directory models the part of it whose
correctness is a matter of ordering and accounting: the admission budget shared
by the poller threads, the pipeline of pollers, workers and writer, the Kafka
input that feeds it, the division of offset ranges among consumers and the life
of their clients, the way of a record through transform, storage and output, the
handling of termination signals, and the path from the command line to the exit
status. Line numbers refer to the sources under `src/`
of the repository, so `src/src/runtime.rs` is the crate's `src/runtime.rs`.

## Inventory of the system

| Component | Source | State it keeps | Operations | Interacts with |
|---|---|---|---|---|
| Shared admission budget | `runtime/state.rs` `SharedAdmission` | three atomic counters | `try_reserve`, `release`, `count_reached` | every poller thread, no lock |
| Poller thread | `runtime.rs` `poll_loop` | buffered batch, pending record, local `Admission` | poll, admit, flush, wait for credits, stop | sends to workers (or the writer), receives credits |
| Worker thread | `runtime.rs` `worker_loop` | the batch it works on | transform a batch, send it on | work and completion channels |
| Writer (main thread) | `runtime.rs` `write_completions`, `state.rs` `Orderer` | frontier and pending records per partition, first failure | order, write, return credits, flush | completion channel, release channels, stdout |
| Run | `runtime.rs` `run_pipeline` | threads, channels, first failure | start threads, join, decide the result | all of the above |
| Termination signals | `runtime.rs` `SignalControl` | `shutdown`, `received` | handler, `begin_processing` | runs on any thread at any moment |
| Application | `app.rs`, `main.rs` | none | prepare, consume, exit | signals, run |
| Kafka input | `kafka.rs` `KafkaInput` | done flag and range per partition | poll, `handle_eof`, `finish`, pause | owned by one poller |
| Assignment and sharding | `kafka.rs` `consumer_assignments` | none | divide ranges among consumers | at start-up |
| Fetch adapter | `kafka/fetch.rs` | native queue and message | poll, extract | librdkafka |
| Payload pool | `kafka.rs` `PayloadBuffers` | free buffers, capacity | `copy`, `recycle` | poller; buffers travel through the pipeline |
| Transform | `transform/jsonata.rs`, `transform/mod.rs` | scratch per worker | `execute_report` | worker |
| Output format | `output.rs` | none; the writer keeps a buffer for `--payload-format` | compile, requirements, write a record | command line, poller (which metadata to keep), writer |
| Command line | `cli.rs` | none | `resolve` | at start-up |
| Statistics | `runtime.rs` `Stats` | relaxed counters | add, snapshot, window | all threads, reporter thread |
| Installation | `scripts/install.sh` | files | install | none at run time |

Where it is hard:

* **Concurrency.** Pollers change three counters, each atomically but not
  together. Four bounded channels form a cycle: poller, work, completion,
  release and back to the poller.
* **Ordering.** Workers finish in any order; output is per partition in order,
  unless `--unordered`.
* **Failure.** Kafka, the transform, stdout, a panic in any thread and a thread
  that cannot be started each have their own path; all must lead to an end of
  the run and to the first failure as its result.
* **Signals.** A handler is not atomic, and interrupts anything.

What makes each component correct:

* budget: counters equal the reservations there are; limits hold; a refusal is
  never final; together it acts like one atomic budget;
* pipeline: each record in one place with one credit; credits follow writes;
  the writer never waits for a poller; no false failure; the run ends; the
  output is what the abstract specification says;
* signals: a signal before the handoff prevents processing, the first one after
  it drains, a second exits, and the result tells;
* Kafka input: it delivers the range of each partition, in order and whole; a
  partition is finished once, at its end and not from a stale EOF; timestamps
  bound the range although the log grows meanwhile; a bounded run ends;
* sharding: shards partition the range, allowances sum to at most the
  partition's, and no shard is empty unless its range is;
* payload pool: the capacity counted is that of the spare vectors, within its
  limits;
* transform: the first deciding predicate decides, a record is written with its
  own bytes whatever vectors are reused, and storage comes back once;
* output: a line is its format filled in from its own record, although only the
  metadata the format needs is kept;
* consumers: no queue or message outlives its client, and no record goes to the
  queue of events;
* command line: what it accepts can be run, limits are what was written, and each
  client property has the value of the source that comes first;
* statistics: the counters account for each record and byte once, and so do the
  windows of the reporter;
* exit: the process ends, and its status tells what became of the records.

`PROJECT.json` lists the hazards one by one, each at its line with the
properties that cover it.

## Modules

| Module | What it is |
|---|---|
| `AdmissionBase` | records, sizes and limits, and the byte limit as a predicate on sets of records |
| `AdmissionSpec` | abstract: a budget that admits and releases atomically |
| `Admission` | `SharedAdmission`, one action per atomic access |
| `AdmissionProofs` | the theorems about `Admission` |
| `OutputSpec` | abstract: what the output of a run may be |
| `Pipeline` | `run_pipeline` with its threads, channels, faults and result |
| `PipelineProofs` | the theorems about `Pipeline`: credits, failures, and the refinement to `OutputSpec` |
| `Signals` | `SignalControl`, one action per atomic access, and the run around it |
| `SignalsProofs` | the theorems about `Signals` |
| `KafkaInput` | `KafkaInput` and `FetchConsumer` of one consumer, against logs that grow and expire |
| `KafkaInputProofs` | the theorems about `KafkaInput` |
| `Sharding` | `consumer_assignments`, one step per turn of its loops |
| `Consumers` | extends `Sharding`: how `prepare` goes on, the construction, use and drop of each `FetchConsumer` |
| `ShardingProofs` | the theorems about `Sharding` and `Consumers` |
| `PayloadPool` | `PayloadBuffers`, under any copies and returns |
| `Format` | operators: compiling a format, its requirements, the line it writes of a record, the JSON envelope |
| `Payloads` | extends `PayloadPool` and `Format`: a record from the copy through `execute_report` and `write_action` back to the pool, and the counters of `Stats` |
| `PayloadsProofs` | the theorems about `PayloadPool`, `Format` and `Payloads` |
| `Resolve` | operators: which command lines `resolve` accepts, and the configuration that follows |
| `Application` | extends `Resolve`: a run from `main` to its exit status, with the writer's buffer and the reporter thread |
| `ApplicationProofs` | the theorems about `Application` and `Resolve` |
| `ListTheorems` | lemmas on lists: induction along one, folds over one, lists of lists |
| `MCAdmission`, `MCPipeline`, `MCSignals`, `MCKafkaInput`, `MCSharding`, `MCPayloads`, `MCApplication` | instances for TLC |

### Admission

`records`, `bytes` and `admitted` are the three counters. `stage` is where each
record is in its poller's loop: a call of `try_reserve` takes it from `pending`
through `slot` and `charged` to `held`, or back through `refund` and `unslot`;
`release` takes it through `leaving` to `gone`. Each stage ends at an atomic
access of the code, so every interleaving of the pollers' accesses is a
behaviour. A poller makes one call at a time (`Busy`). `fetch_sub` wraps
(`WrappingSub`), `checked_add` and `checked_sub` do not, and their failures are
modelled. The accesses are `Relaxed`, but each action reads and writes one
counter only, and one atomic variable has one modification order, so stale
reads matter only to `count_reached`, whose counter only grows: a stale read is
an earlier step.

Refinement: `inFlight` is the records in `held`, `done` those in `leaving` or
`gone`. A record enters `inFlight` at its last step, the count; at that moment
it already has its slot and its bytes, which is why the abstract `Fits` holds.

### Pipeline

A record is its partition and its dense sequence; `Log` gives its fate, one of
`emit`, `drop` (the transform or a tombstone decides so) and `fatal`. A poller
is at `top` (drain credits, decide whether to stop), `poll`, `reserve`, `flush`
or `wait`; `after` says where a flush leads. `open` tells whether it still has
its sender, which is what closes the work channel. A worker holds one batch.
`main` follows `run_pipeline`: starting pollers, then workers, writing,
flushing, joining. Channels are sequences of batches with the code's
capacities. A channel end goes when its thread exits or unwinds, and a panic is
recorded in a step after the unwinding (`PollerGuard`, `WorkerGuard`), except for
the writer, which keeps its channels until it is recorded.

With range sharding a partition of the model is one shard: sequences and
allowances are per consumer, and the command line demands `--unordered` then
(`src/src/cli.rs:308`).

`mode` is the plan: `ordered` and `unordered` have workers, with `direct`
nothing is parsed and pollers send to the writer. It is chosen once (`Next` is
`Step` with `mode` unchanged).

What it abstracts:

* `try_reserve` is one step on `records` and `admitted`. `Admission` implements
  an atomic budget, and a refusal caused by another call's momentary
  reservation takes the same path as a full budget (`Refuse`, then a wait that
  times out).
* The byte limit is left to `Admission`; `Heavy` records fill a batch by bytes.
* `record_failure` and the store to `shutdown` are one step. Between the two a
  thread could only begin work it would be allowed to begin before both.
* `CheckStop` reads `shutdown` in the step that finds the release channel empty.
  Credits that arrive between the two commute with the reading.
* Only the first signal of a run is here; `Signals` has the others. What a
  signal does to a run that is stopping already is left to `Signals`.
* Kafka delivers a partition's records in order, then its end; it may be silent
  at any time. Offsets, EOF events and pausing are left to `KafkaInput`.
* Statistics and recycled payloads do not influence the flow of records;
  `Application` and `Payloads` have them.

### Signals

Each handler reads `shutdown`, swaps `received`, and then either exits or sets
`shutdown`; `BeginProcessing` is the compare-and-exchange of the handoff. The
main thread is a phase: starting, processing, stopped, leaving (the handlers are
unregistered, and a further signal has no effect), exited. `failed` stands
for any failure the pipeline records.

### KafkaInput

`request` is what the command line asks for: start, end, exit at end, count per
partition and whether errors are skipped. `prepare` is a phase per request to
the broker (`FetchWatermarks`, `ResolveStarts`, `ResolveEnds`), then `Assign`,
and `PauseEmpty` for each partition whose range is empty. Between any two steps
the logs may grow (`Produce`) or lose their oldest record (`Expire`). Partitions
do not influence each other in `prepare`, so one step reads the logs of all.

`queue` is what the client has fetched and `poll` has not returned, of which the
first `batch` messages are already in `pending`; `Take` refills and takes one.
Each disjunct of `Poll` is one way through `poll_with_timeout`. The caller
admits a record before it polls again, so `PollRecord` includes the `finish`
that the count per partition makes of it in `poll_loop`. `delivered` is what
`poll` has returned; `first` and `opened` only serve the properties.

External, as far as `kafka.rs` relies on it: a fetch starts at the offset
assigned, perhaps with records before it (`Locate`); an EOF event is reported
once per end, with the offset of that end; an offset out of range is an error,
since `auto.offset.reset` is set to that; pausing stops fetches and may drop
any message of the partition that is not in `pending`, one at a time (`Outdate`). The client may fetch between the
assignment and the pause of an empty range. `high` stands for the last stable
offset under `read_committed`; an open transaction is a log that does not grow.

Several consumers are instances with disjoint partitions or, with range
sharding, disjoint ranges, and share nothing here.

### Sharding

`input` is the call: consumers, whether ranges may be sharded, the ranges in the
order of their partitions, and the limit per partition. `AssignRange` is a turn
of the loop that gives whole ranges to consumers, `AssignShard` a turn of the
one that cuts them. `pieces` is what has been given so far: which part of which
partition, to which consumer, with which allowance of records in flight.
`Count` is the number of shards of a range and `ShardEnd` where one ends.

The ranges are resolved ones, which is what sharding demands. The width of `i64`
is left out, since offsets are not negative.

### Consumers

The steps of `prepare` around the division: the first client (`Open`), the check
of sharded ranges against the watermarks (`Check`), one more client per consumer
(`CreateConsumer`), and `FetchConsumer::new` for each (`NewQueue`,
`GetPartition`, `Forward`, `Assign`), followed by the pauses of empty ranges. Each
call into the client library may fail; `Abort` then leaves what exists to be
dropped, in the model one part at a time: `DropOrder` is the body of
`FetchConsumer::drop` and then the fields in the order of their declaration. A
consumer that is being polled extracts a batch of up to `BATCH_SIZE` messages and
hands them out one by one; it may be dropped between any two of them, except
while a message is borrowed. `Fetch` is the client library, which may deliver
from the moment partitions are assigned; `combined` records that it delivered
into the queue of events. Only the calls in `Built` go on to create consumers,
the others are just divided. The clients do not influence the division, and
`Sharding` is extended, not changed, so its theorems hold of it as before.

### PayloadPool and Payloads

A vector is its capacity and the data in it, a sequence of chunks: a vector that
is not cleared before it is reused has two. `Filled` is appending to a vector,
which leaves the capacity or lets the allocator choose a larger one; a new
vector starts with capacity 0. `MaxRecords`, `MaxBytes` and `MaxBuffer` are
`max_records`, `max_bytes` and `max_buffer_capacity`, the last of which is also
the workers' `max_recycled_capacity`.

`PayloadPool` allows any copies and returns, which is what the proof is about.
`Payloads` restricts them to what a pipeline does: `Poll` copies, `AdmitToWorker`
and `AdmitToWriter` are the two destinations of a poller, a worker goes through
`execute_report` with a step per predicate, `Write` is `write_action` and
`release`, and `RecycleReleased` is `release_batch`. The options decide the plan
as `RawCli::resolve` and `build_plan` do (`Accepts`, `ParsesJson`). `Poll` keeps
of a record's metadata what the plan's requirements name (`Metadata`) and
computes the charge apart from it, as `retained_bytes` does (`Charge`). `Write`
fills in the inner format, staged in the writer's own buffer, and then the outer
one, and may fail in the output, or because a length does not fit `%R`.

What expressions evaluate to is given per record in `Log`: a verdict per
predicate (`error` also stands for a result that is no Boolean) and the result
of the projection. A serialization that fails may have written or not.
`Promised` says in closed form what the documentation promises for a record, and
`OutputAsPromised` compares it with what the steps have written: the action
(`ActionsAsPromised`), the line (`LinesAsPromised`) and the bytes that are charged
and counted (`BytesAddUp`).

`PromisedLine` is the line read off the source of the format and the record as it
is in the log, without compiling, requirements, or a buffer.

What it abstracts: there is one worker, and no batches; `Write` may take any
completion, as further workers and partitions in order would let it. Pollers go
on after a failure, which `Pipeline` forbids; nothing is written then. The
counters of one update change in one step, since their sum is looked at when the
run is over. A record counts as output when its line is written to the buffer, as
in the code; that a later flush may fail is in `Application`.

### Format

A line is a sequence of pieces, a piece being what one call writes: a literal, a
number, bytes with their encoding. The source of a format is the sequence of
what the scanner takes per turn (a placeholder, an escape, a character), so
splitting it is left out; that `%%` starts a literal of its own, and what each
placeholder writes of absent keys, values and payloads is not. `reported` is the
length that `%S` and `%R` give, which for compacted JSON is that of its source.

### Resolve

A command line is a record of options, with text already split: a partition
selection is its bounds, a property its key and value, a size its number and
unit. `Refused` collects every way in which `resolve` (or `clap`, for values it
parses with `parse_size` and `parse_duration`) refuses it, `Config` is the
configuration otherwise. The widths of the machine are constants, so that the
checks of overflow meet their bounds. `ClientSettings` is `consumer_config`.
`WatermarksFetched` and `WatermarksExpected` are the two sides of what `prepare`
relies on: the first from its one condition, the second from the places where it
`expect`s them.

### Application

`phase` is how far `main` has come. The stages of the pipeline are counters of
the records they have handled (`admitted`, `transformed`, `handled`), in order,
which is what `Pipeline` shows of one partition; `written` counts what is in the
writer's buffer and `delivered` what has left it. `sink` is stdout, which may
break at any moment (`SinkFails`); a write then fails at once or stays in the
buffer, and it is the final `Flush` that fails. The reporter waits, reads one
counter per step (`ReadCounter`), and reports the difference to its last snapshot
(`Report`). Four counters stand for the eleven: each kind of update is there, of
the poller, the workers (two) and the writer.

What it abstracts: a signal is recorded at once (`Signals` has the steps between),
failures of Kafka may come at any moment, workers finish in order. eprintln! to a
stderr that cannot be written to panics; this is left out.

## Runs

| Run | Bounds | Shows |
|---|---|---|
| `admission` | 3 pollers, 4 records of sizes 2, 7, 5, 1; 2 slots, byte limit 3, count 3, counter maximum 7 | the races for the last slot, bytes and count; byte limit, oversize record, overflow, underflow |
| `pipeline_ordered` | 2 partitions of 1 poller with 4 and 2 records, count 3 per partition, 3 workers, batches of 3, 3 records in flight | completions in all orders, batches across partitions, full budget and channels |
| `pipeline_faults` | 2 pollers, a fatal record, count 2 per partition, threads that fail to start, Kafka and output errors, panics of each kind of thread | the run ends and fails |
| `pipeline_signal` | 2 pollers, unordered through workers or sending to the writer, a count limit they share, one signal | the drain after a signal, exact count |
| `pipeline_startup` | 2 pollers, 1 worker, a thread fails to start, Kafka errors | **violation**, see below |
| `signals` | 3 signals | all properties of signals |
| `signals_lone` | 3 signals | **violation**, see below |
| `kafka_input` | 2 partitions of 2 and 1 offsets that grow by one, one record that expires, one invisible offset at an end, one bad record, 8 requests, batches of 2, 2 messages fetched ahead, 1 client error | ranges against growth, late EOF events, read-ahead and errors |
| `sharding` | up to 3 ranges out of 6 (uneven, of one offset, reversed), up to 7 consumers, limits up to 4, with and without sharding; consumers created for 2 ranges and up to 3 consumers | each offset once, allowances, no idle consumer; nothing outlives its client |
| `payloads` | 5 records with all kinds of metadata under 12 accepted command lines (2 more are refused), up to 3 predicates, 2 records in flight; capacities up to 3, of which 2 are reusable; `i32::MAX` is 2; panics, output errors | actions, lines, storage, counters |
| `application` | 13,830 command lines: pairs of partition selections, pairs of offsets with each end and sharding, limits around their bounds, sizes and durations around their widths, pairs of properties and files; 9 of them run with 2 records, one of them dropped, a reporter or none, an output that breaks or fails, two signals | see the sections above |
| `exit_config` | the 9 command lines that run | **violation**, see below |

Why these bounds are enough. Two pollers already meet in every pair of
atomic steps; the third adds the case where one rollback makes two others fail,
and two records of one poller the order of its own calls. A reordering needs at least three batches at once: one at the
frontier, two ahead of it. A channel of capacity 1 and batches of 2 make every
sender block. Three signals are the fewest with which two handlers overlap
after one has let the run drain. One record that is appended is enough to make
a watermark, a lookup or an EOF event stale, and two messages ahead to leave one
behind when a partition is finished. The counter maximum 7 makes the sum of the two
largest sizes overflow. Seven consumers over three ranges leave a remainder of
consumers, widths of 1 to 7 leave remainders of offsets, and ranges narrower and
limits lower than the consumers bound the shards. The records of `payloads` are
one for each way through `execute_report`, an oversized source and an oversized
result among them, and two in flight are enough to hand one's vector to the
next; with `i32::MAX` at 2 their sizes lie on both sides of it. A line needs every
placeholder once and each pair of formats whose requirements differ. The rules of
`resolve` compare two options, or two entries of a list, so pairs of values around
each bound meet every rule; the rule for the total number of partitions needs two
selections. For the reporter two records suffice: one counted before and one
between two of its loads. A single client suffices for what a drop may outlive,
two for a failure while another is already there. Constants bound the input, so
no state constraint is needed.

`NoUnderflow` of `Admission`, `OneSignalDrains` and the type invariants of
`Signals` and `Sharding` are proved, and no run repeats them. The type invariants
of `Pipeline` and `KafkaInput` are the first conjunct of `CreditsConserved` and
`RemainingIsExact`.

Deadlock is checked in `Pipeline`, `Signals`, `KafkaInput`, `Consumers`,
`Payloads` and `Application`, where the end is a step that repeats. It is not in `Admission`: pollers that have served all their
records, or reached the count, stop.

### Fairness

* `Pipeline`: every thread that can go on goes on (weak fairness per thread).
  Strong fairness of `Deliver` says that a broker that is polled again and again
  answers in the end; without it a poll may time out for ever, which is what
  jkq then does too. Faults are never forced. A handler that has started
  finishes.
* `Admission`: calls in progress go on (weak). A held record is released and a
  reached count is noticed even by a poller that keeps retrying, because every
  turn of `poll_loop` drains its release channel and reads `count_reached`
  before it reserves again (strong).
* `KafkaInput`: the main thread prepares and polls, the client fetches what there
  is, and the logs grow to their bound: a range that ends ahead of the log ends
  only if they do. Errors and expiry are never forced.
* `Application`: the main thread and the stages go on (weak), and so does a
  reporter that has begun a snapshot. Ticks, failures and signals are never
  forced. `ProcessExits` makes an exception of a run that follows its input, is
  not told to stop and does not fail.
* `Signals`: only that a handler which started finishes. Nothing is assumed of
  the main thread, since a second signal is there for a run that hangs.

### Three disagreements with the documentation

* `pipeline_startup` / `NoOutputAfterStartupFailure`. `docs/architecture.md:87`
  says "A startup failure cannot produce partial record output." Pollers run
  before the last thread is started. If one of them has recorded a Kafka error
  by then, the start-up failure is not the first, `write_completions` looks for
  a start-up failure only in the first (`src/src/runtime.rs:984`), and the
  records already admitted are written.
* `signals_lone` / `FirstSignalDrains`. `docs/usage.md:637` says "Once processing
  begins, the first termination signal stops admission, drains admitted
  records, and flushes stdout." When the run has already failed and is
  draining, `shutdown` is set, and the first signal exits at once
  (`src/src/runtime.rs:101`). `LoneSignalDrains` states what does hold: so it is
  only then.
* `exit_config` / `ConfigurationErrorsExitTwo`. `docs/usage.md:646` gives the exit
  code 2 for a "command-line, configuration, or expression error". A client
  property that librdkafka refuses is found by `create_consumer` within the run,
  whose errors exit with 1 (`src/src/main.rs:29`); only `--check` exits with 2.

## Proofs

`AdmissionProofs` proves, for any finite set of records, any pollers, sizes and
limits that satisfy the assumptions of `AdmissionBase`:

* `TypeCorrect`: no counter leaves its range, so none ever wraps;
* `CountersAreExact`: the counters count the reservations;
* `ByteLimitHolds`: the bytes charged fit;
* `ReleaseNeverUnderflows`: `release` reports no error;
* `BudgetImplemented`: `Admission` implements `AdmissionSpec`.

The invariant `IInv` is the conjunction of `TypeOK`, `CountersExact`,
`ChargedFits` and `NoUnderflow`. None is inductive alone: that a subtraction
does not wrap needs that the counter covers the record being given back
(`CountersExact`), which in turn needs that earlier subtractions did not wrap;
`ChargedFits` decides the byte limit from the counter and so needs it exact; and
the bound of `records` in `TypeOK` needs the limit check of `ReserveRecord`. The
proof has one step per action, and rests on lemmas on `Bytes` (adding, removing
and comparing sets of records), which come from the laws of `Cardinality`
because `Bytes` counts pairs of a record and the number of a byte. The
refinement is a step of its own: `ReserveCount` is `Admit`, `ReleaseRecords` is
`Release`, every other step stutters.

Assumptions: the records are finitely many, sizes and limits fit the machine
type, limits are positive (the command line checks that), and each record has
one owner.

`SignalsProofs` proves, for any finite number of signals:

* `TypeCorrect`, `StartupSignalPreventsProcessing`, `OnlyOneDrains`,
  `LoneSignalNeverForces` and the action property `ResultTellsSignal`.

Its invariant says what the shared values tell about the handlers. `received`
holds a signal exactly if some handler has recorded one, and then that of one
of them (`GateTells`); so the handoff, and a handler that finds nothing, find
that nobody was there before, which makes the one that drains unique
(`DrainsAlone`). `shutdown` means a failure or a handler that has published it
(`FlagMeans`), which is never the one that reads it; so who is forced to exit
by the flag knows another signal (`ForcedByOther`).

`ShardingProofs` proves, for any number of partitions and consumers, any ranges
and any limit:

* `TypeCorrect`: the loops keep their types and stop when a range is assigned;
* `OffsetsPartitioned`: the pieces hold each offset of the ranges once;
* `AllowancesShared`: every shard has an allowance, together at most the limit.

That the last shard ends where its range does is not a property of one step:
each takes a quotient, and some of the remainder. The invariant therefore gives
the start of shard `k` in closed form (`Aligned`, from `StartOf`), which at
`k = Count` is the end of the range. `Tiled` says that the offsets before `next`
are held once and those after it by nobody, `Shared` how many pieces each
partition has; allowances then fit because a quotient times its divisor is at
most the dividend. Assumptions: at least one consumer, one range and a positive
limit, and offsets that are not negative.

It also proves of the finished division, by the second invariant `Dealt`,

* `EveryConsumerWorks`: no consumer and no shard is without offsets, and shards of
  one range differ by one offset at most. `Dealt` says which consumer each piece
  has: pieces are numbered in order when ranges are divided, and go in turn to
  consumers otherwise, so that every number below the count of consumers occurs;

and of `Consumers`, for clients that fail or are dropped at any moment,

* `PrepareDivides`: every step of `prepare` is one of `Sharding` or leaves its
  state alone, so the theorems above hold of it;
* `ClientsGoLast`: nothing outlives its client. Its invariant follows one client
  through its life (`Nested`, `Used`): what refers to it is built from the queue
  up and dropped from the messages down, and `PhaseWell` adds that no queue
  exists before each consumer has its client.

`PipelineProofs` proves, for any finite number of pollers, workers, partitions
and records of any fate, any capacities and limits, and any set of faults:

* `EveryCreditIsHeld`: `CreditsConserved`, the type invariant included;
* `WritesComeFirst`: `CreditsOutliveWrites`;
* `ReleaseHasRoom`: `WriterNeverWaits`;
* `HealthyRunsDoNotFail`: `HealthyRunsSucceed`;
* `CompleteRunsCoverTheInput`: `CompleteCoversInput`;
* `OutputIsImplemented`: `Pipeline` implements `OutputSpec`.

The counters of a poller do not say where the records are that they count, so
the first invariant, `IInv`, is about places: `Apart` says that the nine places
of a record share none, `BatchesWell` that no batch holds one twice or mixes
pollers, `CreditsWell` that a poller's counters are the cardinality of what is
located, or above it once a thread is broken, and `WritesWell` that without a
failure what was admitted is upstream or written. That the release channel has
room then follows by counting: its batches are not empty, disjoint and within the
credits of one poller.

The second, `OInv`, is about order and rests on the first. With ordered output
the frontier of a partition separates what is ready or written from what is
ahead of it (`OrderedWell`). Without workers nothing is reordered, and the
records of a partition stand in one line from the buffer to the output
(`DirectWell`), rising and without gaps. `OpenWell` tells which senders are open
and hence that a channel which is found closed and empty stays so; `HealthWell`
that nothing fails by itself; `FinishWell` why a poller stops and what it has
read by then. The refinement goes action by action: an admission is `Take`, a
write `Put`, or `Fail` if the output fails, the end of the run `Complete` or
`Fail`, and every other step stutters.

`KafkaInputProofs` proves, for any logs that grow and expire, any requests and
any batch size:

* `RemainingStaysExact`: `RemainingIsExact`, the type invariant included;
* `RangeIsDelivered`, `DoneIsComplete`: `DeliversTheRange`, `DoneDeliversAll`;
* `TimestampsBound`: `TimestampsBoundTheRange`;
* `DoneIsSilent`: the action property `DoneStaysSilent`.

The invariant has a part per partition (`PartitionInv`), since partitions share
only the queue. `DeliversTheRange` speaks of what was delivered; that it stays
true needs to know what is still to come. So `NoGap` says that every wanted
record below the offset of a queued message, or below the one that is fetched
next, is delivered or queued before it, and that for an EOF event it holds up to
the event's offset; `QueuedWell` that queued offsets rise and an event was true of
the log when it was reported, which is why one that is late finishes nothing it
should not. `Located` keeps what a lookup said about a log which has
grown since. That `Fresh`, `Untouched` and `Reading` are needed shows in the
steps before the client has located the start.

`PayloadsProofs` proves of `PayloadPool`, for any limits, any allocator and any
copies and returned vectors,

* `PoolStaysExact`: `PoolExact`. The sum of capacities is the number of pairs of a
  vector and a unit of it (`Units`): a copy takes away the pairs of the last
  vector, a return adds those of a new one. That the counter never wraps follows
  from its being exact;

and of `Payloads`, for any log, accepted command lines and faults,

* `PipelineUsesPool`: every step copies, returns or leaves the pool alone, so that
  `PoolExact` holds of it too;
* `StorageComesBack`: `StorageReturns`;
* `ActionsAreAsPromised`: `ActionsAsPromised`, the first part of
  `OutputAsPromised`;
* `RecordsAddUp`: `StatsAddUp`;
* `OutputIsAsPromised`: all of `OutputAsPromised`, with the lines and the bytes.

Records enter, reach the worker and are decided in the order of the log, so the
record in each place is a matter of arithmetic (`Placed`), and what the worker
has found out of it so far a prefix of its verdicts (`Evaluated`). A completion
then has the promised action, its own bytes, and its storage in one of two places
(`CompletedWell`); a line is a function of its record (`WrittenWell`), so lines
count records; and counters are cardinalities of sets of decided records
(`Counts`) while nobody panicked and nothing failed.

That a line is also the one promised is about formats of any length and takes
three arguments. Compiling: after each turn of the scanner, what its tokens and
its literal so far write is the source read up to there (`ScanAdds`, `ScanRun`),
so a compiled format writes what its source says (`FormatIsText`). Requirements:
a line does not change with metadata that no token of the format reads
(`PiecesAgree`), so the record as it was kept writes what the record in the log
does (`OwnLineIsPromised`). Lengths: unless `Overflows` says otherwise no piece
holds a length above `I32Max` (`Proper`, `LineIn`). With this the invariant needs
one more part, `BytesCounted`: nothing is written that overflows, and the
counters are the sums of the payloads admitted and of the lines written. A sum
over the set of lines is the number of pairs of a line and a unit of it
(`WrittenInAll`), so it does not depend on the order of the fold and grows by a
line's own length; `ChargedIsHeld` adds up the headers of one record.

`ApplicationProofs` proves

* `WindowsAddUpAlways`: `WindowsAddUp`. What the reporter has read lies between its
  last snapshot and the present values (`Watched`);
* `StatusTellsOutcome`: the action property `ExitTellsOutcome`. While the writer
  is not silent, what is written is what has been handled and not dropped
  (`Accounted`);
* `AcceptedRuns`: `AcceptedIsRunnable`, for every command line;
* `SettingsAreLayered`: `SettingsLayered`, for every command line.

The last two are about folds over lists of options of any length, as the lines
above are about folds over formats. `ListTheorems` carries induction along them: a set of naturals that is not empty has a least
element (`LeastNatural`, from the well-foundedness of `<`), hence what holds of
place 0, and of each place if of the one before, holds of all (`Climbs`, where
"what" is a set instead of an operator). `Iterates` and `SameFold` give existence
and uniqueness of a fold, and with them `Runs` turns a fold of the model into a
sequence of values, one per place, whose steps are the fold's. The theorems say
by `Climbs` what each value is: in which ranges a partition has been seen, which
properties are set, and by whom last.

Assumptions. Each is in the module that declares the constants and evaluated in
every run: `KafkaAssumption` (finitely many partitions, positive batches, logs that grow to a bound),
`PipelineAssumption` (finitely many pollers, workers, partitions and records,
positive capacities and batch size, limits that are positive or absent),
`PoolAssumption`, and in `Payloads` and `Application` that the data have the types
that the parser gives them. The last of those, `RequestsAssumption`, says of a
command line no more than `clap` does.

Only model-checked: liveness (`EveryRecordServed`, `RunsEnd`, `TwoSignalsExit`,
`RangesEnd`, `ProcessExits`), which the proof system does not reach; the three
violations. Every other property of a passing run is stated by a theorem.

## Plan

In this order, most important first:

1. *Done:* `AdmissionSpec`, `Admission`, its proofs; `OutputSpec`, `Pipeline`;
   `Signals` and its proofs.
2. *Done:* `KafkaInput`; `Sharding` and its proofs; `PayloadPool` and its proof;
   `Payloads` with `Format`; `Consumers`; `Resolve` and `Application`.
3. *Done:* theorems about `Pipeline` (types, credits, `WriterNeverWaits`, the
   refinement to `OutputSpec`), `KafkaInput`, `Consumers`, `Payloads`,
   `Resolve` and `Application`.
4. *Done:* the lines and the bytes of `OutputAsPromised`.

## Not modelled

The evaluation of JSONata expressions (a library; its results are data of the
models), librdkafka and the broker (external, modelled as far as the code relies
on them), the characters of numbers, strings and base64, the text of errors and
reports, splitting command-line text, `--vars-file`, the list of partitions that
the broker gives when none are selected, a stderr that cannot be written to, and
the second attempt of a dropped `BufWriter` to write what a failed flush left,
whose result the process does not look at.

Not planned either: packaging and installation, which are around the program.
