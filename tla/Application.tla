---------------------------- MODULE Application -----------------------------
(***************************************************************************)
(* A run of the program from its command line to its exit status: main     *)
(* (src/src/main.rs), run and consume (src/src/app.rs), and of             *)
(* run_pipeline (src/src/runtime.rs) the writer's buffer, the reporter     *)
(* thread and the result. The stages in between are in Pipeline; here each *)
(* is a counter of the records it has handled, in order. Signal handlers   *)
(* are in Signals; here a signal is recorded atomically.                   *)
(***************************************************************************)
EXTENDS Resolve

CONSTANTS
    Requests,      \* the command lines
    Records,       \* bound: the records of the input
    Dropped,       \* those that the transform drops
    Unknown,       \* keys of properties that the client library refuses
    Parallelism,   \* available_parallelism
    Sinks          \* what may happen to stdout

ASSUME RunAssumption ==
    /\ Records \in Nat
    /\ Dropped \subseteq 1..Records
    /\ Parallelism \in Nat \ {0}
    /\ Sinks \subseteq {"brokenPipe", "output"}
    \* None is neither a failure nor the status of a signal.
    /\ None \notin {"brokenPipe", "output", "runtime"} /\ None \notin {130, 143}

IsList(s) == s \in Seq(Range(s))

ASSUME RequestsAssumption ==
    \A request \in Requests :
        /\ {request.consumers, request.maxRecords, request.maxPerPartition} \subseteq Nat
        /\ IsList(request.properties) /\ (request.file # None => IsList(request.file.lines))
        /\ IsList(request.partitions)
        /\ \A i \in DOMAIN request.partitions : IsList(request.partitions[i])

\* The counters a snapshot reads, one by one; the others are alike.
Counters == <<"admitted", "dropped", "passed", "outputRecords">>

VARIABLES
    raw,        \* the command line
    phase,      \* of the program
    status,     \* the exit status, or None
    admitted, transformed, handled,  \* records that passed each stage
    written,    \* records the writer has put into its buffer
    delivered,  \* records on stdout
    sink,       \* stdout: open, or how writes to it fail
    shutdown,
    silent,     \* the writer's failure
    firstFailure,
    signal,     \* the signal recorded while processing
    reporter,   \* the statistics thread
    current,    \* the snapshot it is taking
    previous,   \* the last one it took
    windows     \* the sums of the windows it reported

progress == <<admitted, transformed, handled, written>>
reporting == <<reporter, current, previous, windows>>
outcome == <<shutdown, silent, firstFailure, signal>>
\* All but what happens to stdout and the reporter.
runVars == <<phase, status, progress, delivered, outcome>>
vars == <<raw, runVars, sink, reporting>>

config == Config(raw)
Zero == [c \in Range(Counters) |-> 0]

Init ==
    /\ raw \in Requests
    /\ phase = "parsing" /\ status = None
    /\ admitted = 0 /\ transformed = 0 /\ handled = 0
    /\ written = 0 /\ delivered = 0
    /\ sink = "open"
    /\ shutdown = FALSE /\ silent = FALSE /\ firstFailure = None /\ signal = None
    /\ reporter = "none" /\ current = <<>> /\ previous = Zero /\ windows = Zero

Exit(code) ==
    /\ phase' = "exited" /\ status' = code
    /\ UNCHANGED <<progress, delivered, outcome>>

Goto(next) ==
    /\ phase' = next
    /\ UNCHANGED <<status, progress, delivered, outcome>>

-----------------------------------------------------------------------------
\* main.

\* The client library judges the configuration when it is asked for one.
ClientAccepts == DOMAIN ClientSettings(config.properties) \cap Unknown = {}

Parse ==
    /\ phase = "parsing"
    /\ IF Refused(raw) THEN Exit(2)
       ELSE Goto(IF config.check THEN "checking" ELSE "preparing")
    /\ UNCHANGED <<raw, sink, reporting>>

Check ==
    /\ phase = "checking"
    /\ Exit(IF ClientAccepts THEN 0 ELSE 2)
    /\ UNCHANGED <<raw, sink, reporting>>

\* SignalControl::install, and the clients, metadata and assignment of prepare.
Prepare ==
    /\ phase = "preparing"
    /\ \/ ClientAccepts /\ Goto("starting")
       \/ Exit(1)
    /\ UNCHANGED <<raw, sink, reporting>>

StartupSignal(code) ==
    /\ phase = "preparing"
    /\ Exit(code)
    /\ UNCHANGED <<raw, sink, reporting>>

-----------------------------------------------------------------------------
\* run_pipeline.

\* record_failure and shutdown
Fail(failure) ==
    /\ firstFailure' = IF firstFailure = None THEN failure ELSE firstFailure
    /\ shutdown' = TRUE

StartReporter ==
    /\ phase = "starting"
    /\ \/ /\ reporter' = IF config.interval = None THEN "none" ELSE "waiting"
          /\ UNCHANGED <<silent, firstFailure, shutdown>>
       \/ \* The thread cannot be started, and the writer finds that out first.
          /\ config.interval # None
          /\ Fail("runtime") /\ silent' = TRUE
          /\ UNCHANGED reporter
    /\ phase' = "processing"
    /\ UNCHANGED <<raw, status, progress, delivered, sink, signal, current, previous, windows>>

Processing == phase = "processing"

Admit ==
    /\ Processing /\ ~shutdown /\ admitted < Records
    /\ admitted' = admitted + 1
    /\ UNCHANGED <<raw, phase, status, transformed, handled, written, delivered, sink,
                   outcome, reporting>>

KafkaFails ==
    /\ Processing
    /\ Fail("runtime")
    /\ UNCHANGED <<raw, phase, status, progress, delivered, sink, silent, signal, reporting>>

Transform ==
    /\ Processing /\ transformed < admitted
    /\ transformed' = transformed + 1
    /\ UNCHANGED <<raw, phase, status, admitted, handled, written, delivered, sink,
                   outcome, reporting>>

\* The writer takes a record. The buffer may be full, or is never used.
Write ==
    /\ Processing /\ handled < transformed
    /\ handled' = handled + 1
    /\ \/ /\ silent \/ handled' \in Dropped
          /\ UNCHANGED <<written, delivered, silent, firstFailure, shutdown>>
       \/ \* A fatal record.
          /\ ~silent
          /\ Fail("runtime") /\ silent' = TRUE
          /\ UNCHANGED <<written, delivered>>
       \/ /\ ~silent /\ handled' \notin Dropped /\ sink = "open"
          /\ written' = written + 1
          /\ delivered' \in IF config.unbuffered THEN {written'} ELSE {delivered, written'}
          /\ UNCHANGED <<silent, firstFailure, shutdown>>
       \/ /\ ~silent /\ handled' \notin Dropped /\ sink # "open"
          /\ \/ /\ ~config.unbuffered
                /\ written' = written + 1
                /\ UNCHANGED <<silent, firstFailure, shutdown>>
             \/ /\ Fail(sink) /\ silent' = TRUE
                /\ UNCHANGED written
          /\ UNCHANGED delivered
    /\ UNCHANGED <<raw, phase, status, admitted, transformed, sink, signal, reporting>>

\* A poller also ends at the end of its ranges.
PollersEnd == shutdown \/ (config.exitAtEnd /\ admitted = Records)

\* Mutant: the result of the last flush is not looked at.
FlushUnchecked ==
    /\ Processing /\ PollersEnd /\ handled = admitted
    /\ phase' = "joining"
    /\ delivered' = IF sink = "open" THEN written ELSE delivered
    /\ UNCHANGED <<raw, status, progress, sink, outcome, reporting>>

\* The end of the writer. A sink that has failed is not flushed again.
Flush ==
    /\ Processing /\ PollersEnd /\ handled = admitted
    /\ phase' = "joining"
    /\ IF sink = "open" \/ delivered = written
       THEN /\ delivered' = written
            /\ UNCHANGED <<firstFailure, shutdown>>
       ELSE Fail(sink) /\ UNCHANGED delivered
    /\ UNCHANGED <<raw, status, progress, sink, silent, signal, reporting>>

\* Mutant: the reporter is joined before its channel is dropped.
JoinReporterOpen ==
    /\ phase = "joining"
    /\ reporter \in {"none", "stopped"}
    /\ Goto("returned")
    /\ UNCHANGED <<raw, sink, reporting>>

\* Its channel is dropped, the reporter stops when it sees that.
JoinReporter ==
    /\ phase = "joining"
    /\ \/ reporter = "waiting" /\ reporter' = "stopped" /\ UNCHANGED runVars
       \/ reporter \in {"none", "stopped"} /\ Goto("returned") /\ UNCHANGED reporter
    /\ UNCHANGED <<raw, sink, current, previous, windows>>

\* The result of run_pipeline, then of consume, then of main.
Return ==
    /\ phase = "returned"
    /\ Exit(CASE firstFailure = "brokenPipe" -> 0
              [] firstFailure \in {"output", "runtime"} -> 1
              [] firstFailure = None -> IF signal = None THEN 0 ELSE signal)
    /\ UNCHANGED <<raw, sink, reporting>>

-----------------------------------------------------------------------------
\* The reporter.

Enabled(count) == IF config.stats THEN count ELSE 0
DroppedOf(count) == Cardinality(Dropped \cap 1..count)

\* The counters as they are.
Value(counter) ==
    Enabled(CASE counter = "admitted" -> admitted
              [] counter = "dropped" -> DroppedOf(transformed)
              [] counter = "passed" -> transformed - DroppedOf(transformed)
              [] counter = "outputRecords" -> written)

\* recv_timeout has timed out. Once the channel is dropped it no longer does; between
\* the end of the writer and that no counter changes, so such a tick is an earlier one.
Tick ==
    /\ Processing /\ reporter = "waiting"
    /\ reporter' = "reading"
    /\ current' = <<>>
    /\ UNCHANGED <<raw, runVars, sink, previous, windows>>

ReadCounter ==
    /\ reporter = "reading" /\ Len(current) < Len(Counters)
    /\ current' = Append(current, Value(Counters[Len(current) + 1]))
    /\ UNCHANGED <<raw, runVars, sink, reporter, previous, windows>>

Snapshot == [c \in Range(Counters) |-> current[CHOOSE n \in DOMAIN Counters : Counters[n] = c]]

\* StatsSnapshot::since
Since(snapshot) == [c \in DOMAIN snapshot |-> Less(snapshot[c], previous[c])]

\* Mutant: the next window starts from the counters as they are by now.
ReportFromNow ==
    /\ reporter = "reading" /\ Len(current) = Len(Counters)
    /\ windows' = [c \in DOMAIN windows |-> windows[c] + Since(Snapshot)[c]]
    /\ previous' = [c \in DOMAIN previous |-> Value(c)]
    /\ reporter' = "waiting" /\ current' = <<>>
    /\ UNCHANGED <<raw, runVars, sink>>

Report ==
    /\ reporter = "reading" /\ Len(current) = Len(Counters)
    /\ windows' = [c \in DOMAIN windows |-> windows[c] + Since(Snapshot)[c]]
    /\ previous' = Snapshot
    /\ reporter' = "waiting" /\ current' = <<>>
    /\ UNCHANGED <<raw, runVars, sink>>

-----------------------------------------------------------------------------
\* The environment.

\* The reader of stdout goes, or its device fails; it stays so.
SinkFails ==
    /\ phase \in {"processing", "joining"} /\ sink = "open"
    /\ sink' \in Sinks
    /\ UNCHANGED <<raw, runVars, reporting>>

\* The first signal of a run that is not stopping yet lets it drain.
Signal(code) ==
    /\ phase \in {"starting", "processing", "joining"}
    /\ IF signal = None /\ ~shutdown
       THEN /\ signal' = code /\ shutdown' = TRUE
            /\ UNCHANGED <<phase, status, progress, delivered, silent, firstFailure>>
       ELSE Exit(code)
    /\ UNCHANGED <<raw, sink, reporting>>

Exited == phase = "exited" /\ UNCHANGED vars

Run ==
    \/ Parse \/ Check \/ Prepare \/ StartReporter
    \/ Admit \/ Transform \/ Write \/ Flush \/ JoinReporter \/ Return

ReporterRuns == phase # "exited" /\ (ReadCounter \/ Report)

Next ==
    \/ Run
    \/ ReporterRuns
    \/ Tick \/ KafkaFails \/ SinkFails
    \/ \E code \in {130, 143} : StartupSignal(code) \/ Signal(code)
    \/ Exited

Spec == Init /\ [][Next]_vars

\* Threads that can run do; nothing has to fail, and no signal has to come.
Fairness == WF_vars(Run) /\ WF_vars(ReporterRuns)
FairSpec == Spec /\ Fairness

-----------------------------------------------------------------------------

Accepted == phase \in {"checking", "preparing"}

\* A command line that resolve accepts can be run: the partitions are the selected
\* ones, each once, the limits are what was written and large enough for the
\* channels and the workers, prepare never expects watermarks that it has not
\* fetched, and shards always have fixed bounds. prepare would panic at the former,
\* and reports the latter as an error.
AcceptedIsRunnable ==
    Accepted =>
        /\ Cardinality(Range(config.partitions)) = Len(config.partitions)
        /\ Range(config.partitions) =
              UNION {UNION {arg[i].from..arg[i].to : i \in DOMAIN arg} : arg \in Range(raw.partitions)}
        /\ Len(config.partitions) <= MaxPartitions
        /\ config.maxBytes = raw.maxBytes.number * Bytes[raw.maxBytes.unit]
        /\ config.maxBytes \in 1..UsizeMax
        /\ config.interval # None =>
              /\ config.interval = raw.interval.number * Milliseconds[raw.interval.unit]
              /\ config.interval \in 1..U64Max
        /\ config.maxPerPartition \in 1..config.maxRecords
        /\ config.consumers \in 1..MaxConsumers
        /\ \A pollers \in 1..config.consumers :
              EvaluatorCount(Parallelism, pollers, config.maxRecords) \in 1..config.maxRecords
        /\ WatermarksExpected(config) => WatermarksFetched(config)
        /\ config.sharding => StartIsFixed(config) /\ config.end # None

\* The value given last for a key, a property before a line of the file.
LastWord(key) ==
    LET last(list) == list[CHOOSE i \in DOMAIN list : list[i].key = key
                             /\ \A j \in DOMAIN list : list[j].key = key => j <= i].value IN
    IF \E i \in DOMAIN raw.properties : raw.properties[i].key = key
    THEN last(raw.properties) ELSE last(Lines(raw))

UserKeys == {Lines(raw)[i].key : i \in DOMAIN Lines(raw)}
              \cup {raw.properties[i].key : i \in DOMAIN raw.properties}

\* What the client is configured with: brokers from -b, or under whichever of their
\* two names they are given; each other key as -X says, or else the file, the last
\* one of each; jkq's defaults only where nothing is given; and what jkq relies on
\* as it needs it.
SettingsLayered ==
    Accepted =>
        LET settings == ClientSettings(config.properties) IN
        /\ DOMAIN settings =
              Managed \cup (UserKeys \ {Alias}) \cup {Servers, "group.id", "fetch.queue.backoff.ms"}
        /\ settings[Servers] =
              IF raw.brokers # None THEN raw.brokers
              ELSE LastWord(IF Alias \in UserKeys THEN Alias ELSE Servers)
        /\ \A key \in UserKeys \ {Alias, Servers} : settings[key] = LastWord(key)
        /\ settings["auto.offset.reset"] = <<"error">>
        /\ settings["enable.partition.eof"] = <<"true">>
        /\ settings["enable.auto.commit"] = <<"false">>

Emitted(count) == count - DroppedOf(count)

\* The exit status tells what became of the records: 0 means that all were emitted
\* to stdout, unless its reader went first; 1 a failure; 2 that nothing was started;
\* that of a signal, that the admitted records were emitted, unless a second signal
\* came or the run had failed before (docs/usage.md, exit status).
ExitTellsOutcome ==
    [][status' # status =>
        \/ status' = 2 /\ phase \in {"parsing", "checking"}
        \/ /\ status' = 0
           /\ \/ phase = "checking"
              \/ firstFailure = "brokenPipe"
              \/ firstFailure = None /\ delivered = Emitted(Records)
        \/ status' = 1 /\ (phase = "preparing" \/ firstFailure \in {"output", "runtime"})
        \/ /\ status' \in {130, 143}
           /\ \/ phase = "preparing"
              \/ phase # "returned" /\ shutdown
              \/ status' = signal /\ firstFailure = None /\ delivered = Emitted(admitted)
      ]_vars

\* The windows together are the last snapshot, although its counters are read one
\* after the other while threads add to them: no window counts what another has
\* counted, none leaves out what came between two, and none is ahead of the total.
WindowsAddUp ==
    /\ windows = previous
    /\ phase \notin {"parsing", "exited"} => \A c \in DOMAIN previous : previous[c] <= Value(c)

\* The process ends, with a reporter or without one, unless it follows its input
\* and is neither told to stop nor fails.
ProcessExits ==
    <>(phase = "exited") \/ <>[](Processing /\ ~config.exitAtEnd /\ ~shutdown)

\* What docs/usage.md says of errors of the configuration, which the code only
\* does when asked to --check.
ConfigurationErrorsExitTwo == status = 1 => ClientAccepts
=============================================================================
