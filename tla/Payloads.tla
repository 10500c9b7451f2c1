----------------------------- MODULE Payloads ------------------------------
(***************************************************************************)
(* A record on its way from the poller's copy through a worker             *)
(* (execute_report in src/src/transform/jsonata.rs, worker_loop in         *)
(* src/src/runtime.rs), the writer (write_action) and the release back to  *)
(* the poller's pool: which of its metadata is kept, which action is       *)
(* decided, what is written and where the vectors go. Each predicate a     *)
(* worker evaluates is a step.                                             *)
(***************************************************************************)
EXTENDS PayloadPool, Format

CONSTANTS
    Log,         \* the records: payload, metadata, verdicts of predicates, result
    HeaderSlot,  \* size_of::<Header>()
    Requests     \* the command lines

ASSUME LogAssumption ==
    /\ Len(Log) \in Nat /\ DOMAIN Log = 1..Len(Log)
    /\ (DOMAIN Log) \X {"source", "result"} \subseteq Chunks
    /\ \A i \in DOMAIN Log :
          /\ Log[i].payload \in {None, "invalid", "valid"} /\ Log[i].size \in Nat
          \* What parses is UTF-8.
          /\ Log[i].payload = "valid" => Log[i].utf8
          /\ \A v \in DOMAIN Log[i].verdicts : Log[i].verdicts[v] \in {"true", "false", "error"}
          \* A result that is not published may be partly written.
          /\ Log[i].result \in {"value", "empty", "error"} /\ Log[i].resultSize \in Nat
          /\ IsBytes(Log[i].key)
          /\ Log[i].headers # None =>
                /\ IsList(Log[i].headers)
                /\ \A h \in DOMAIN Log[i].headers : IsBytes(Log[i].headers[h].value)

ASSUME HeaderSlotAssumption == HeaderSlot \in Nat

ASSUME RequestsAssumption ==
    \A request \in Requests :
        /\ request.drops \in Nat /\ request.tombstones \in Nat
        /\ request.onInvalidJson \in {None, "fail", "pass", "drop", "tombstone"}
        /\ request.onEvalError \in {"fail", "drop", "tombstone"}
        /\ IsList(request.output.format)
        /\ request.output.payloadFormat = None \/ IsList(request.output.payloadFormat)
        /\ \A i \in DOMAIN Log : Log[i].payload = "valid" =>
              1..(request.drops + request.tombstones) \subseteq DOMAIN Log[i].verdicts

VARIABLES
    options,    \* the command line
    polled,     \* records polled so far
    pending,    \* the record polled and not admitted
    work,       \* to the worker
    current,    \* the record the worker executes
    index,      \* the predicate it evaluates next
    scratch,    \* its output vector
    completed,  \* to the writer
    written,    \* what the writer has written
    staged,     \* payload_buffer, where --payload-format writes
    failure,    \* the first failure of the writer
    released,   \* back to the poller
    stats       \* the counters of Stats

pollerVars == <<polled, pending>>
workerVars == <<current, index, scratch>>
writerVars == <<written, staged, failure, released>>
vars == <<poolVars, options, pollerVars, work, workerVars, completed, writerVars, stats>>

SourceOf(i) == <<i, "source">>
ResultOf(i) == <<i, "result">>

-----------------------------------------------------------------------------
\* The plan that follows from the options.

Accepts(request) ==
    /\ ~(request.embedsJson /\ request.onInvalidJson = "pass")
    /\ PlanCompiles(request.output)

ParsesJson ==
    \/ options.onInvalidJson # None \/ options.embedsJson
    \/ options.drops > 0 \/ options.tombstones > 0 \/ options.projects

InvalidPolicy == IF options.onInvalidJson = None THEN "fail" ELSE options.onInvalidJson

Predicates == options.drops + options.tombstones
Serializes == options.projects \/ options.embedsJson

TombstoneAction == IF options.dropTombstones THEN "drop" ELSE "tombstone"

Init ==
    /\ PoolInit
    /\ options \in {request \in Requests : Accepts(request)}
    /\ polled = 0 /\ pending = None
    /\ work = <<>> /\ current = None /\ index = 1 /\ scratch = NewBuffer
    /\ completed = {} /\ written = {} /\ staged = <<>> /\ failure = None /\ released = <<>>
    /\ stats = [admitted |-> 0, sourceTombstones |-> 0, drop |-> 0, tombstone |-> 0,
                pass |-> 0, project |-> 0, invalid |-> 0, evaluation |-> 0, output |-> 0,
                inputBytes |-> 0, outputBytes |-> 0]

-----------------------------------------------------------------------------
\* The poller.

Kept(need, value, otherwise) ==
    IF need \in PlanRequirements(options.output) THEN value ELSE otherwise

\* NativeMessage::timestamp and timestamp
TimestampOf(native) ==
    IF native.value = -1 \/ native.kind = "notAvailable" THEN None ELSE native

HeadersOf(i) == IF Log[i].headers = None THEN <<>> ELSE Log[i].headers

SizeOf(bytes) == IF bytes = None THEN 0 ELSE bytes.length

HeaderBytes(i) ==
    Len(HeadersOf(i)) * HeaderSlot
      + Sum([h \in DOMAIN HeadersOf(i) |-> 1 + SizeOf(HeadersOf(i)[h].value)])

\* retained_bytes
Charge(i) ==
    Log[i].size + Kept("key", SizeOf(Log[i].key), 0) + Kept("headers", HeaderBytes(i), 0)

\* What is kept of a record beside its payload.
Metadata(i) ==
    [timestamp |-> Kept("timestamp", TimestampOf(Log[i].timestamp), None),
     key |-> Kept("key", Log[i].key, None),
     headers |-> Kept("headers", HeadersOf(i), <<>>),
     retained |-> Charge(i)]

\* A record on its way, with any part of its metadata.
Items ==
    [record : DOMAIN Log,
     metadata :
        [timestamp : {None} \union {Log[i].timestamp : i \in DOMAIN Log},
         key : {None} \union {Log[i].key : i \in DOMAIN Log},
         headers : {<<>>} \union {HeadersOf(i) : i \in DOMAIN Log},
         retained : {Log[i].size + key + headers :
                        i \in DOMAIN Log, key \in {0} \union {SizeOf(Log[j].key) : j \in DOMAIN Log},
                        headers \in {0} \union {HeaderBytes(j) : j \in DOMAIN Log}}],
     payload : Buffer \union {None}]

\* None is nothing else.
ASSUME NoneAssumption ==
    /\ None \notin Buffer /\ None \notin Items
    \* neither a kind of payload, a policy, a failure, nor a counter
    /\ None \notin {"invalid", "valid"} \union {"fail", "pass", "drop", "tombstone"}
    /\ None \notin {"fatal", "form", "overflow", "output"}
    /\ None \notin {"admitted", "sourceTombstones", "project", "inputBytes", "outputBytes"}

\* Payloads are copied before their record is admitted.
Poll ==
    /\ pending = None /\ polled < Len(Log)
    /\ LET i == polled + 1 IN
       /\ polled' = i
       /\ IF Log[i].payload = None
          THEN /\ pending' = [record |-> i, metadata |-> Metadata(i), payload |-> None]
               /\ UNCHANGED poolVars
          ELSE /\ Copy(Log[i].size)
               /\ \E buffer \in Filled(Spare(Log[i].size), SourceOf(i), Log[i].size) :
                     pending' = [record |-> i, metadata |-> Metadata(i), payload |-> buffer]
    /\ UNCHANGED <<options, work, workerVars, completed, writerVars, stats>>

\* Mutant: a tombstone of the source counts as generated.
CountedBlindly(counters, i, action, issue) ==
    LET counter == CASE action \in {"exact", "json"} -> "pass" [] OTHER -> action IN
    [c \in DOMAIN counters |-> counters[c] + IF c \in {issue, counter} THEN 1 ELSE 0]

\* Stats::transformed, for an action of a record.
Counted(counters, i, action, issue) ==
    LET counter == CASE action \in {"exact", "json"} -> "pass" [] OTHER -> action IN
    [c \in DOMAIN counters |->
        counters[c] + IF \/ c = issue
                         \/ c = counter /\ (action = "tombstone" => Log[i].payload # None)
                      THEN 1 ELSE 0]

Admitted(counters, i) ==
    [counters EXCEPT !.admitted = @ + 1, !.inputBytes = @ + Log[i].size,
                     !.sourceTombstones = @ + IF Log[i].payload = None THEN 1 ELSE 0]

InFlight ==
    Len(work) + (IF current = None THEN 0 ELSE 1) + Cardinality(completed) + Len(released)

Completion(item, action, bytes, spare) ==
    [record |-> item.record, metadata |-> item.metadata, action |-> action,
     bytes |-> bytes, spare |-> spare]

MayAdmit == pending # None /\ InFlight < MaxRecords

AdmitToWorker ==
    /\ MayAdmit /\ ParsesJson
    /\ work' = Append(work, pending)
    /\ pending' = None
    /\ stats' = Admitted(stats, pending.record)
    /\ UNCHANGED <<poolVars, options, polled, workerVars, completed, writerVars>>

\* Without anything to parse the poller completes the record itself.
AdmitToWriter ==
    /\ MayAdmit /\ ~ParsesJson
    /\ LET action == IF pending.payload = None THEN TombstoneAction ELSE "exact" IN
       /\ completed' = completed \cup {Completion(pending, action, pending.payload, None)}
       /\ stats' = Counted(Admitted(stats, pending.record), pending.record, action, None)
    /\ pending' = None
    /\ UNCHANGED <<poolVars, options, polled, work, workerVars, writerVars>>

RecycleReleased ==
    /\ released # <<>>
    /\ IF Head(released) = None THEN UNCHANGED poolVars ELSE Recycle(Head(released))
    /\ released' = Tail(released)
    /\ UNCHANGED <<options, pollerVars, work, workerVars, completed, written, staged, failure,
                   stats>>

-----------------------------------------------------------------------------
\* A worker.

Take ==
    /\ current = None /\ work # <<>>
    /\ current' = Head(work)
    /\ work' = Tail(work)
    /\ index' = 1
    /\ UNCHANGED <<poolVars, options, pollerVars, scratch, completed, writerVars, stats>>

Complete(action, bytes, spare, issue) ==
    /\ completed' = completed \cup {Completion(current, action, bytes, spare)}
    /\ stats' = Counted(stats, current.record, action, issue)
    /\ current' = None
    /\ UNCHANGED <<poolVars, options, pollerVars, work, index, writerVars>>

\* The source stays with the completion as spare storage.
Decide(action, issue) == Complete(action, None, current.payload, issue)

Fail(policy, issue) == Decide(IF policy = "fail" THEN "fatal" ELSE policy, issue)

ExecuteTombstone ==
    /\ current # None /\ current.payload = None
    /\ Decide(TombstoneAction, None)
    /\ UNCHANGED scratch

RejectJson ==
    /\ current # None /\ Log[current.record].payload = "invalid"
    /\ IF InvalidPolicy = "pass"
       THEN Complete("exact", current.payload, None, "invalid")
       ELSE Fail(InvalidPolicy, "invalid")
    /\ UNCHANGED scratch

Parsed == current # None /\ Log[current.record].payload = "valid"
Verdict == Log[current.record].verdicts[index]

\* A result that is not one Boolean is an error.
EvaluatePredicate ==
    /\ Parsed /\ index <= Predicates
    /\ CASE Verdict = "true" ->
              Decide(IF index <= options.drops THEN "drop" ELSE TombstoneAction, None)
         [] Verdict = "error" -> Fail(options.onEvalError, "evaluation")
         [] Verdict = "false" ->
              /\ index' = index + 1
              /\ UNCHANGED <<poolVars, options, pollerVars, work, current, completed,
                             writerVars, stats>>
    /\ UNCHANGED scratch

\* The output vector once the result is written.
Outputs == Filled(Cleared(scratch), ResultOf(current.record), Log[current.record].resultSize)

Serializing == Parsed /\ index > Predicates /\ Serializes
HasResult == options.projects => Log[current.record].result = "value"

\* The next output vector is the source's, unless it is too large to keep.
Swap(source) == IF source.capacity <= MaxBuffer THEN Cleared(source) ELSE NewBuffer

Serialize ==
    /\ Serializing /\ HasResult
    /\ \E output \in Outputs :
          Complete(IF options.projects THEN "project" ELSE "json", output, None, None)
    /\ scratch' = Swap(current.payload)

SerializeFails ==
    /\ Serializing /\ ~HasResult
    /\ Fail(options.onEvalError, "evaluation")
    /\ \E output \in Outputs \cup {Cleared(scratch)} :
          scratch' = IF output.capacity > MaxBuffer THEN NewBuffer ELSE Cleared(output)

\* Mutant: the payload passes on and stays as spare storage too.
PassExactTwice ==
    /\ Parsed /\ index > Predicates /\ ~Serializes
    /\ Complete("exact", current.payload, current.payload, None)
    /\ scratch' = Cleared(scratch)

PassExact ==
    /\ Parsed /\ index > Predicates /\ ~Serializes
    /\ Complete("exact", current.payload, None, None)
    /\ scratch' = Cleared(scratch)

\* The evaluator may panic anywhere; the worker catches it, the record becomes
\* fatal, uncounted, and the output vector stays as it is.
Panic ==
    /\ current # None /\ current.payload # None
    /\ completed' = completed \cup {Completion(current, "panic", None, current.payload)}
    /\ current' = None
    /\ scratch' \in IF Serializing THEN Outputs \cup {Cleared(scratch)} ELSE {scratch}
    /\ UNCHANGED <<poolVars, options, pollerVars, work, index, writerVars, stats>>

-----------------------------------------------------------------------------
\* The writer.

\* Whether write_action finds the payload in the form the output demands.
Fits(action) ==
    /\ action = "exact" => ~options.embedsJson
    /\ action = "json" => options.embedsJson

SourceLength(i) == IF Log[i].payload = None THEN -1 ELSE Log[i].size

Emits(action) ==
    CASE action \in {"exact", "json"} -> "pass" [] OTHER -> action

\* The payload of an action whose vector holds the given data. Compacted JSON keeps
\* the length of its source; a projection has no other.
PayloadOf(i, action, data) ==
    LET length == IF action = "exact" THEN Log[i].size ELSE Log[i].resultSize IN
    IF action = "tombstone" THEN None
    ELSE [data |-> data, length |-> length,
          utf8 |-> action = "exact" => Log[i].utf8,
          reported |-> IF action = "json" THEN Log[i].size ELSE length,
          json |-> options.embedsJson]

OutputRecord(i, metadata, action, payload) ==
    [offset |-> i, timestamp |-> metadata.timestamp, key |-> metadata.key,
     headers |-> metadata.headers, sourceLength |-> SourceLength(i),
     payload |-> payload, action |-> Emits(action)]

\* Text the inner format has written, as the payload of the outer one.
Staged(text) ==
    [data |-> text, length |-> Written(text), utf8 |-> TRUE, reported |-> Written(text),
     json |-> FALSE]

RecordOf(c) ==
    OutputRecord(c.record, c.metadata, c.action,
                 PayloadOf(c.record, c.action, IF c.bytes = None THEN <<>> ELSE c.bytes.data))

Stages(r) ==
    ~options.output.envelope /\ options.output.payloadFormat # None /\ r.payload # None

InnerOverflows(r) == Stages(r) /\ Overflows(Compile(options.output.payloadFormat), r)

\* What the buffer holds after the inner format.
Stage(r) ==
    IF ~Stages(r) THEN staged
    ELSE IF InnerOverflows(r) THEN <<>>
    ELSE Line(Compile(options.output.payloadFormat), r)

\* The record that the outer format gets.
Outer(r) == IF Stages(r) THEN [r EXCEPT !.payload = Staged(Stage(r))] ELSE r

Unwritable(r) ==
    ~options.output.envelope
      /\ (InnerOverflows(r) \/ Overflows(Compile(options.output.format), Outer(r)))

LineOf(r) ==
    IF options.output.envelope THEN Envelope(r)
                               ELSE Line(Compile(options.output.format), Outer(r))

\* After a failure nothing more is written, and storage still goes back. Other
\* workers and the order of partitions may put any completion first. What a failed
\* output has taken of a line is not counted.
Write ==
    \E c \in completed :
        /\ completed' = completed \ {c}
        /\ released' = Append(released, IF c.bytes = None THEN c.spare ELSE c.bytes)
        /\ \/ /\ failure # None \/ c.action = "drop"
              /\ UNCHANGED <<written, staged, failure, stats>>
           \/ /\ failure = None /\ (c.action \in {"fatal", "panic"} \/ ~Fits(c.action))
              /\ failure' = IF Fits(c.action) THEN "fatal" ELSE "form"
              /\ UNCHANGED <<written, staged, stats>>
           \/ /\ failure = None /\ c.action \notin {"drop", "fatal", "panic"} /\ Fits(c.action)
              /\ staged' = Stage(RecordOf(c))
              /\ \/ /\ failure' = IF Unwritable(RecordOf(c)) THEN "overflow" ELSE "output"
                    /\ UNCHANGED <<written, stats>>
                 \/ /\ ~Unwritable(RecordOf(c))
                    /\ written' = written \cup {[record |-> c.record, action |-> c.action,
                                                 line |-> LineOf(RecordOf(c))]}
                    /\ stats' = [stats EXCEPT !.output = @ + 1,
                                             !.outputBytes = @ + Written(LineOf(RecordOf(c)))]
                    /\ UNCHANGED failure
        /\ UNCHANGED <<poolVars, options, pollerVars, work, workerVars>>

Done == polled = Len(Log) /\ pending = None /\ InFlight = 0

End == Done /\ UNCHANGED vars

Worker ==
    \/ Take \/ ExecuteTombstone \/ RejectJson \/ EvaluatePredicate
    \/ Serialize \/ SerializeFails \/ PassExact \/ Panic

Next ==
    \/ Poll \/ AdmitToWorker \/ AdmitToWriter \/ RecycleReleased
    \/ Worker \/ Write \/ End

Spec == Init /\ [][Next]_vars

-----------------------------------------------------------------------------
\* What the documentation promises for a record (docs/usage.md, Transforms).

ErrorAction == IF options.onEvalError = "fail" THEN "fatal" ELSE options.onEvalError

\* The predicates that do not let the record pass; the first one decides.
Deciding(i) == {p \in 1..Predicates : Log[i].verdicts[p] # "false"}

Promised(i) ==
    LET first == CHOOSE p \in Deciding(i) : \A q \in Deciding(i) : p <= q IN
    CASE Log[i].payload = None -> TombstoneAction
      [] Log[i].payload = "invalid" /\ ParsesJson ->
            (IF InvalidPolicy = "fail" THEN "fatal"
             ELSE IF InvalidPolicy = "pass" THEN "exact" ELSE InvalidPolicy)
      [] Log[i].payload = "valid" /\ Deciding(i) # {} ->
            (IF Log[i].verdicts[first] = "error" THEN ErrorAction
             ELSE IF first <= options.drops THEN "drop" ELSE TombstoneAction)
      [] Log[i].payload = "valid" /\ Deciding(i) = {} /\ options.projects ->
            (IF Log[i].result = "value" THEN "project" ELSE ErrorAction)
      [] OTHER -> IF options.embedsJson THEN "json" ELSE "exact"

PromisedData(i) ==
    CASE Promised(i) = "exact" -> <<SourceOf(i)>>
      [] Promised(i) \in {"json", "project"} -> <<ResultOf(i)>>
      [] OTHER -> <<>>

Emitted == {i \in DOMAIN Log : Promised(i) \notin {"drop", "fatal"}}

\* The record that is promised, with the metadata the log has.
PromisedRecord(i) ==
    OutputRecord(i, [timestamp |-> TimestampOf(Log[i].timestamp), key |-> Log[i].key,
                     headers |-> HeadersOf(i)],
                 Promised(i), PayloadOf(i, Promised(i), PromisedData(i)))

\* A format read from left to right, without compiling it.
Text(source, r) ==
    FlattenSeq([x \in DOMAIN source |->
        IF source[x] \in Placeholders THEN Pieces(Token(source[x], <<>>), r)
                                      ELSE <<Literal(Escaped(source[x]))>>])

PromisedLine(i) ==
    LET r == PromisedRecord(i)
        inner == options.output.payloadFormat IN
    IF options.output.envelope THEN Envelope(r)
    ELSE Text(options.output.format,
              IF inner = None \/ r.payload = None THEN r
              ELSE [r EXCEPT !.payload = Staged(Text(inner, r))])

\* Each record is written with the action the first deciding expression gives, and
\* a run that does not fail writes every record that is not dropped. No record
\* fails because its payload has a form the output cannot take, which write_action
\* reports as an error.
ActionsAsPromised ==
    /\ \A w \in written : w.record \in Emitted /\ w.action = Promised(w.record)
    /\ failure # "form"
    /\ Done /\ failure = None => {w.record : w \in written} = Emitted

\* A line is the format filled in from this record's own metadata and bytes, although
\* only the metadata the format asks for was kept; and %R never meets a length it
\* cannot hold, which write_to would panic at.
LinesAsPromised ==
    \A w \in written :
        /\ w.line = PromisedLine(w.record)
        /\ \A n \in DOMAIN w.line : w.line[n].is = "int32" => w.line[n].of <= I32Max

Held(metadata) ==
    SizeOf(metadata.key) + Sum([h \in DOMAIN metadata.headers |->
                                   HeaderSlot + 1 + SizeOf(metadata.headers[h].value)])

AddWritten(w, n) == n + Written(w.line)

\* A record is charged for what is kept of it, no more and no less; the counters of
\* bytes hold every byte once, those of an admitted payload and those of a line
\* that was written whole.
BytesAddUp ==
    /\ pending # None =>
          pending.metadata.retained = Log[pending.record].size + Held(pending.metadata)
    /\ stats.outputBytes = FoldSet(AddWritten, 0, written)
    /\ Done => stats.inputBytes = Sum([i \in DOMAIN Log |-> Log[i].size])

\* Whatever vectors a worker, the writer and the pool reuse, and whatever failed
\* in them before, the output has the records, the lines and the bytes it should.
OutputAsPromised == ActionsAsPromised /\ LinesAsPromised /\ BytesAddUp

\* The storage of a payload comes back exactly once: it is in the action or
\* spare, never lost and never in both. Between two records a worker holds no data
\* and no vector above the limit, as long as its evaluator has not panicked, which
\* ends the run.
StorageReturns ==
    /\ \A c \in completed :
          IF Log[c.record].payload = None THEN c.bytes = None /\ c.spare = None
                                          ELSE (c.bytes = None) # (c.spare = None)
    /\ current = None /\ failure = None /\ (\A c \in completed : c.action # "panic") =>
          scratch.data = <<>> /\ scratch.capacity <= MaxBuffer

\* The counters that three threads keep account for every record once: each
\* admitted one was dropped, or is a source tombstone kept, or generated, passed
\* or projected, and then it was written.
StatsAddUp ==
    LET kept == IF options.dropTombstones THEN 0 ELSE stats.sourceTombstones IN
    /\ stats.output = Cardinality(written)
    /\ Done /\ failure = None =>
          /\ stats.output = stats.pass + stats.project + stats.tombstone + kept
          /\ stats.admitted = stats.output + stats.drop
=============================================================================
