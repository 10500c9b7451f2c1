------------------------- MODULE ApplicationProofs --------------------------
(***************************************************************************)
(* Proofs about Application: what the exit status says of the records,     *)
(* what the windows of the statistics add up to, and what an accepted      *)
(* command line gives the run and its client, for any command lines, any   *)
(* records and any faults of stdout.                                       *)
(***************************************************************************)
EXTENDS Application, ListTheorems

-----------------------------------------------------------------------------
\* The counts.

LEMMA DroppedCounts ==
    ASSUME NEW n \in Nat
    PROVE  /\ DroppedOf(n) \in Nat
           /\ DroppedOf(n + 1) = DroppedOf(n) + (IF n + 1 \in Dropped THEN 1 ELSE 0)
<1> DEFINE D == Dropped \cap 1..n
           E == Dropped \cap 1..(n + 1)
<1>1. IsFiniteSet(1..n) /\ D \subseteq 1..n
  BY FS_Interval
<1>2. IsFiniteSet(D)
  BY <1>1, FS_Subset
<1>3. Cardinality(D) \in Nat
  BY <1>2, FS_CardinalityType
<1>4. E = IF n + 1 \in Dropped THEN D \cup {n + 1} ELSE D
  BY RunAssumption
<1>5. n + 1 \notin D
  OBVIOUS
<1> HIDE DEF D, E
<1>6. n + 1 \in Dropped => Cardinality(E) = Cardinality(D) + 1
  BY <1>2, <1>4, <1>5, FS_AddElement
<1>7. Cardinality(E) = Cardinality(D) + (IF n + 1 \in Dropped THEN 1 ELSE 0)
  BY <1>3, <1>4, <1>6
<1> QED
  BY <1>3, <1>7 DEF DroppedOf, D, E

LEMMA NoneDropped == DroppedOf(0) = 0
<1>1. Dropped \cap 1..0 = {}
  OBVIOUS
<1> QED
  BY <1>1, FS_EmptySet DEF DroppedOf

LEMMA CounterNames ==
    /\ Range(Counters) = {"admitted", "dropped", "passed", "outputRecords"}
    /\ DOMAIN Counters = 1..4 /\ Len(Counters) = 4
    /\ \A i \in 1..4 : Counters[i] \in Range(Counters)
    /\ \A i, j \in 1..4 : Counters[i] = Counters[j] => i = j
<1>1. DOMAIN Counters = 1..4 /\ Len(Counters) = 4
  BY DEF Counters
<1>2. /\ Counters[1] = "admitted" /\ Counters[2] = "dropped" /\ Counters[3] = "passed"
      /\ Counters[4] = "outputRecords"
  BY DEF Counters
<1>3. \A i \in 1..4 : i = 1 \/ i = 2 \/ i = 3 \/ i = 4
  OBVIOUS
<1> HIDE DEF Counters
<1>4. Range(Counters) = {"admitted", "dropped", "passed", "outputRecords"}
  BY <1>1, <1>2, <1>3 DEF Range
<1> QED
  BY <1>1, <1>2, <1>3, <1>4

\* Where a run can be.
Phases == {"parsing", "checking", "preparing", "starting", "processing", "joining",
           "returned", "exited"}
Typed ==
    /\ phase \in Phases
    /\ admitted \in Nat /\ transformed \in Nat /\ handled \in Nat
    /\ handled <= transformed /\ transformed <= admitted
    /\ written \in Nat
    /\ sink \in {"open"} \cup Sinks
    /\ firstFailure \in {None, "brokenPipe", "output", "runtime"}
    /\ signal \in {None, 130, 143}

\* Unless the writer has failed, and then the run has, it has written what is to
\* be emitted; only a failure or a signal ends a run before its input; and what
\* is joined has emitted what it wrote, or failed.
Accounted ==
    /\ IF silent THEN firstFailure # None ELSE written = Emitted(handled)
    /\ shutdown <=> firstFailure # None \/ signal # None
    /\ phase \in {"joining", "returned"} =>
          /\ handled = admitted
          /\ shutdown \/ admitted = Records
          /\ firstFailure = None => delivered = written

\* The counters that the reporter has read lie between its last snapshot and the
\* values by now.
Watched ==
    /\ previous \in [Range(Counters) -> Int] /\ windows = previous
    /\ current \in Seq(Int) /\ Len(current) <= Len(Counters)
    /\ \A c \in Range(Counters) : previous[c] <= Value(c)
    /\ \A i \in DOMAIN current :
          /\ previous[Counters[i]] <= current[i]
          /\ current[i] <= Value(Counters[i])

IInv == Typed /\ Accounted /\ Watched

-----------------------------------------------------------------------------
\* What a step does to the counters.

LEMMA Grows ==
    ASSUME Typed, [Next]_vars
    PROVE  /\ raw' = raw
           /\ admitted' \in {admitted, admitted + 1}
           /\ transformed' \in {transformed, transformed + 1}
           /\ written' \in {written, written + 1}
<1>1. CASE UNCHANGED vars
  BY <1>1 DEF vars, runVars, progress
<1>2. CASE Parse \/ Check \/ Prepare \/ StartReporter \/ Admit \/ Transform
  BY <1>2 DEF Parse, Check, Prepare, StartReporter, Admit, Transform, Exit, Goto, progress
<1>3. CASE Write
  BY <1>3 DEF Write
<1>4. CASE Flush \/ JoinReporter \/ Return
  BY <1>4 DEF Flush, JoinReporter, Return, Exit, Goto, runVars, progress
<1>5. CASE ReporterRuns \/ Tick \/ KafkaFails \/ SinkFails
  BY <1>5 DEF ReporterRuns, ReadCounter, Report, Tick, KafkaFails, SinkFails, runVars, progress
<1>6. CASE \E code \in {130, 143} : StartupSignal(code) \/ Signal(code)
  BY <1>6 DEF StartupSignal, Signal, Exit, progress
<1> QED
  BY <1>1, <1>2, <1>3, <1>4, <1>5, <1>6 DEF Next, Run, Exited

\* No counter that is reported ever goes down.
LEMMA ValueGrows ==
    ASSUME Typed, raw' = raw, NEW c \in Range(Counters),
           admitted' \in {admitted, admitted + 1},
           transformed' \in {transformed, transformed + 1},
           written' \in {written, written + 1}
    PROVE  Value(c) \in Int /\ Value(c)' \in Int /\ Value(c) <= Value(c)'
<1> DEFINE On == config.stats
<1>1. config' = config
  BY DEF config
<1>2. transformed \in Nat /\ admitted \in Nat /\ written \in Nat
  BY DEF Typed
<1>3. /\ DroppedOf(transformed) \in Nat
      /\ DroppedOf(transformed') \in {DroppedOf(transformed), DroppedOf(transformed) + 1}
      /\ transformed' = transformed => DroppedOf(transformed') = DroppedOf(transformed)
  BY <1>2, DroppedCounts
<1>4. DroppedOf(transformed)' = DroppedOf(transformed')
  BY DEF DroppedOf
<1> DEFINE v == CASE c = "admitted" -> admitted
                  [] c = "dropped" -> DroppedOf(transformed)
                  [] c = "passed" -> transformed - DroppedOf(transformed)
                  [] c = "outputRecords" -> written
           w == CASE c = "admitted" -> admitted'
                  [] c = "dropped" -> DroppedOf(transformed')
                  [] c = "passed" -> transformed' - DroppedOf(transformed')
                  [] c = "outputRecords" -> written'
<1>5. v \in Int /\ w \in Int /\ v <= w
  <2>1. c \in {"admitted", "dropped", "passed", "outputRecords"}
    BY CounterNames
  <2> QED
    BY <1>2, <1>3, <2>1
<1>6. Value(c) = (IF On THEN v ELSE 0) /\ Value(c)' = (IF On THEN w ELSE 0)
  BY <1>1, <1>4 DEF Value, Enabled
<1> HIDE DEF v, w, On
<1> QED
  BY <1>5, <1>6

-----------------------------------------------------------------------------
\* The invariant.

LEMMA InitIInv == Init => IInv
<1> SUFFICES ASSUME Init PROVE IInv
  OBVIOUS
<1>1. Typed
  BY RunAssumption DEF Init, Typed, Phases
<1>2. Accounted
  BY NoneDropped, RunAssumption DEF Init, Accounted, Emitted
<1>3. Watched
  <2>1. \A c \in Range(Counters) : Value(c) = 0
    BY CounterNames, NoneDropped DEF Init, Value, Enabled
  <2>2. previous \in [Range(Counters) -> Int] /\ windows = previous
        /\ \A c \in Range(Counters) : previous[c] = 0
    BY DEF Init, Zero
  <2>3. current \in Seq(Int) /\ Len(current) = 0 /\ DOMAIN current = {}
    BY DEF Init
  <2> QED
    BY <2>1, <2>2, <2>3, CounterNames DEF Watched
<1> QED
  BY <1>1, <1>2, <1>3 DEF IInv

LEMMA TypedStays ==
    ASSUME IInv, [Next]_vars
    PROVE  Typed'
<1>0. Typed /\ Accounted
  BY DEF IInv
<1>1. CASE UNCHANGED vars
  BY <1>0, <1>1 DEF Typed, vars, runVars, progress, outcome
<1>2. CASE Parse \/ Check \/ Prepare \/ StartReporter
  BY <1>0, <1>2 DEF Typed, Phases, Parse, Check, Prepare, StartReporter, Exit, Goto, progress,
                    outcome, Fail
<1>3. CASE Admit \/ Transform
  BY <1>0, <1>3 DEF Typed, Admit, Transform, outcome
<1>4. CASE Write
  <2>1. sink # "open" => sink \in {"brokenPipe", "output"}
    BY <1>0, RunAssumption DEF Typed
  <2>2. firstFailure' \in {None, "brokenPipe", "output", "runtime"}
    BY <1>0, <1>4, <2>1 DEF Typed, Write, Fail
  <2>3. UNCHANGED <<phase, admitted, transformed, sink, signal>>
    BY <1>4 DEF Write
  <2>4. /\ handled' \in Nat /\ handled' <= transformed' /\ transformed' <= admitted'
        /\ written' \in Nat
    BY <1>0, <1>4, <2>3 DEF Typed, Write
  <2> QED
    BY <1>0, <2>2, <2>3, <2>4 DEF Typed
<1>5. CASE Flush \/ JoinReporter \/ Return
  <2>1. sink # "open" => sink \in {"brokenPipe", "output"}
    BY <1>0, RunAssumption DEF Typed
  <2> QED
    BY <1>0, <1>5, <2>1 DEF Typed, Phases, Flush, JoinReporter, Return, Exit, Goto, Fail,
                            runVars, progress, outcome
<1>6. CASE ReporterRuns \/ Tick \/ KafkaFails \/ SinkFails
  BY <1>0, <1>6 DEF Typed, ReporterRuns, ReadCounter, Report, Tick, KafkaFails, SinkFails, Fail,
                    runVars, progress, outcome
<1>7. CASE \E code \in {130, 143} : StartupSignal(code) \/ Signal(code)
  BY <1>0, <1>7 DEF Typed, Phases, StartupSignal, Signal, Exit, progress, outcome
<1> QED
  BY <1>1, <1>2, <1>3, <1>4, <1>5, <1>6, <1>7 DEF Next, Run, Exited

LEMMA AccountedStays ==
    ASSUME IInv, [Next]_vars
    PROVE  Accounted'
<1>0. Typed /\ Accounted
  BY DEF IInv
<1> DEFINE Same == UNCHANGED <<silent, firstFailure, written, handled, shutdown, signal>>
<1>1. ASSUME Same, \/ phase' \notin {"joining", "returned"}
                   \/ /\ phase \in {"joining", "returned"}
                      /\ UNCHANGED <<admitted, delivered>>
      PROVE  Accounted'
  <2>1. Emitted(handled)' = Emitted(handled)
    BY <1>1 DEF Emitted, DroppedOf
  <2> QED
    BY <1>0, <1>1, <2>1 DEF Accounted
<1>2. CASE UNCHANGED vars
  BY <1>1, <1>2 DEF vars, runVars, progress, outcome
<1>3. CASE Parse \/ Check \/ Prepare
  BY <1>1, <1>3 DEF Parse, Check, Prepare, Exit, Goto, progress, outcome
<1>4. CASE StartReporter
  <2>1. CASE UNCHANGED <<silent, firstFailure, shutdown>>
    BY <1>1, <1>4, <2>1 DEF StartReporter, progress
  <2>2. CASE Fail("runtime") /\ silent' = TRUE
    <3>1. phase' = "processing"
      BY <1>4 DEF StartReporter
    <3>2. firstFailure' # None /\ shutdown' = TRUE
      BY <2>2, RunAssumption DEF Fail
    <3> QED
      BY <2>2, <3>1, <3>2 DEF Accounted
  <2> QED
    BY <1>4, <2>1, <2>2 DEF StartReporter
<1>5. CASE Admit \/ Transform
  BY <1>1, <1>5 DEF Admit, Transform, Processing, outcome
<1>6. CASE Write
  <2>0. /\ phase' = "processing" /\ signal' = signal /\ handled' = handled + 1 /\ handled \in Nat
        /\ written \in Nat
    BY <1>0, <1>6 DEF Write, Processing, Typed
  <2>1. Emitted(handled)' = Emitted(handled) + (IF handled + 1 \in Dropped THEN 0 ELSE 1)
    <3>1. Emitted(handled)' = (handled + 1) - DroppedOf(handled + 1)
      BY <2>0 DEF Emitted, DroppedOf
    <3>2. /\ DroppedOf(handled) \in Nat
          /\ DroppedOf(handled + 1) = DroppedOf(handled) + (IF handled + 1 \in Dropped THEN 1 ELSE 0)
      BY <2>0, DroppedCounts
    <3> QED
      BY <2>0, <3>1, <3>2 DEF Emitted
  <2>2. CASE \E failure \in {"runtime", sink} : Fail(failure) /\ silent' = TRUE /\ sink # "open"
    <3>1. firstFailure' # None /\ shutdown' = TRUE
      BY <1>0, <2>2, RunAssumption DEF Fail, Typed
    <3> QED
      BY <2>0, <2>2, <3>1 DEF Accounted
  <2>3. CASE Fail("runtime") /\ silent' = TRUE
    <3>1. firstFailure' # None /\ shutdown' = TRUE
      BY <2>3, RunAssumption DEF Fail
    <3> QED
      BY <2>0, <2>3, <3>1 DEF Accounted
  <2>4. CASE /\ UNCHANGED <<silent, firstFailure, shutdown>>
             /\ \/ silent \/ (handled' \in Dropped /\ written' = written)
                \/ (handled' \notin Dropped /\ written' = written + 1)
    BY <1>0, <2>0, <2>1, <2>4 DEF Accounted
  <2> QED
    BY <1>6, <2>2, <2>3, <2>4 DEF Write
<1>7. CASE Flush
  <2>1. /\ phase' = "joining" /\ UNCHANGED <<silent, written, handled, admitted, signal>>
        /\ handled = admitted /\ PollersEnd /\ Emitted(handled)' = Emitted(handled)
    BY <1>7 DEF Flush, progress, Emitted, DroppedOf
  <2>2. CASE delivered' = written /\ UNCHANGED <<firstFailure, shutdown>>
    BY <1>0, <2>1, <2>2 DEF Accounted, PollersEnd
  <2>3. CASE Fail(sink) /\ sink # "open"
    <3>1. firstFailure' # None /\ shutdown' = TRUE
      BY <1>0, <2>3, RunAssumption DEF Fail, Typed
    <3> QED
      BY <1>0, <2>1, <3>1 DEF Accounted
  <2> QED
    BY <1>7, <2>2, <2>3 DEF Flush
<1>8. CASE JoinReporter \/ Return
  BY <1>1, <1>8 DEF JoinReporter, Return, Exit, Goto, runVars, progress, outcome
<1>9. CASE ReporterRuns \/ Tick \/ SinkFails
  BY <1>1, <1>9 DEF ReporterRuns, ReadCounter, Report, Tick, SinkFails, runVars, progress, outcome
<1>10. CASE KafkaFails
  <2>1. firstFailure' # None /\ shutdown' = TRUE
    BY <1>10, RunAssumption DEF KafkaFails, Fail
  <2>2. phase' = "processing" /\ UNCHANGED <<silent, written, handled>>
        /\ Emitted(handled)' = Emitted(handled)
    BY <1>10 DEF KafkaFails, Processing, progress, Emitted, DroppedOf
  <2> QED
    BY <1>0, <2>1, <2>2 DEF Accounted
<1>11. ASSUME NEW code \in {130, 143}, StartupSignal(code) \/ Signal(code)
       PROVE  Accounted'
  <2>1. CASE Exit(code)
    BY <1>1, <2>1 DEF Exit, progress, outcome
  <2>2. CASE /\ signal' = code /\ shutdown' = TRUE
             /\ UNCHANGED <<phase, status, progress, delivered, silent, firstFailure>>
    <3>1. UNCHANGED <<phase, admitted, handled, written, delivered, silent, firstFailure>>
          /\ Emitted(handled)' = Emitted(handled)
      BY <2>2 DEF progress, Emitted, DroppedOf
    <3>2. signal' # None
      BY <2>2, RunAssumption
    <3> QED
      BY <1>0, <2>2, <3>1, <3>2 DEF Accounted
  <2> QED
    BY <1>11, <2>1, <2>2 DEF StartupSignal, Signal
<1> QED
  BY <1>2, <1>3, <1>4, <1>5, <1>6, <1>7, <1>8, <1>9, <1>10, <1>11 DEF Next, Run, Exited

\* The snapshot is what was read.
LEMMA SnapshotIsRead ==
    ASSUME current \in Seq(Int), Len(current) = Len(Counters)
    PROVE  /\ Snapshot \in [Range(Counters) -> Int]
           /\ \A i \in 1..4 : Snapshot[Counters[i]] = current[i]
<1>1. /\ DOMAIN Counters = 1..4 /\ Len(current) = 4
      /\ \A i \in 1..4 : Counters[i] \in Range(Counters)
      /\ \A i, j \in 1..4 : Counters[i] = Counters[j] => i = j
  BY CounterNames
<1>2. \A c \in Range(Counters) : \E n \in DOMAIN Counters : Counters[n] = c
  BY DEF Range
<1>3. \A i \in 1..4 : current[i] \in Int
  <2> SUFFICES ASSUME NEW i \in 1..4 PROVE current[i] \in Int
    OBVIOUS
  <2> QED
    BY <1>1, ElementOfSeq
<1>4. \A i \in 1..4 : (CHOOSE n \in DOMAIN Counters : Counters[n] = Counters[i]) = i
  BY <1>1
<1> HIDE DEF Counters
<1>5. \A i \in 1..4 : Snapshot[Counters[i]] = current[i]
  BY <1>1, <1>4 DEF Snapshot
<1>6. ASSUME NEW c \in Range(Counters)
      PROVE  current[CHOOSE n \in DOMAIN Counters : Counters[n] = c] \in Int
  BY <1>1, <1>2, <1>3
<1> QED
  BY <1>5, <1>6 DEF Snapshot

\* Nothing that the reporter has read is overtaken.
LEMMA WatchedKept ==
    ASSUME IInv, [Next]_vars, UNCHANGED <<current, previous, windows>>
    PROVE  Watched'
<1>1. Typed /\ Watched
  BY DEF IInv
<1>2. \A c \in Range(Counters) : Value(c) \in Int /\ Value(c)' \in Int /\ Value(c) <= Value(c)'
  BY <1>1, Grows, ValueGrows
<1>3. previous' = previous /\ windows' = windows /\ current' = current
  OBVIOUS
<1>4. \A c \in Range(Counters) : previous[c] \in Int
  BY <1>1 DEF Watched
<1>5. ASSUME NEW c \in Range(Counters) PROVE previous'[c] <= Value(c)'
  BY <1>1, <1>2, <1>3, <1>4 DEF Watched
<1>6. ASSUME NEW i \in DOMAIN current
      PROVE  /\ previous'[Counters[i]] <= current'[i]
             /\ current'[i] <= Value(Counters[i])'
  <2>1. Counters[i] \in Range(Counters) /\ current[i] \in Int
    BY <1>1, CounterNames, ElementOfSeq DEF Watched
  <2>2. previous[Counters[i]] <= current[i] /\ current[i] <= Value(Counters[i])
    BY <1>1 DEF Watched
  <2>3. current[i] <= Value(Counters[i])'
    <3> DEFINE v == Value(Counters[i])
               w == Value(Counters[i])'
    <3>1. v \in Int /\ w \in Int /\ v <= w /\ current[i] <= v
      BY <1>2, <2>1, <2>2
    <3> HIDE DEF v, w
    <3>2. current[i] <= w
      BY <2>1, <3>1
    <3> QED
      BY <3>2 DEF w
  <2> QED
    BY <1>3, <2>2, <2>3
<1> HIDE DEF Counters
<1> QED
  BY <1>1, <1>3, <1>5, <1>6 DEF Watched

LEMMA ReadCounterWatched ==
    ASSUME IInv, ReadCounter
    PROVE  Watched'
<1> DEFINE n == Len(current) + 1
           v == Value(Counters[n])
<1>1. Typed /\ Watched
  BY DEF IInv
<1>2. /\ Len(current) \in Nat /\ n \in 1..4 /\ Counters[n] \in Range(Counters)
      /\ current \in Seq(Int) /\ DOMAIN current = 1..Len(current)
  BY <1>1, CounterNames DEF Watched, ReadCounter
<1>3. /\ previous' = previous /\ windows' = windows /\ current' = Append(current, v)
      /\ UNCHANGED <<raw, runVars>>
  BY DEF ReadCounter
<1>4. \A c : Value(c)' = Value(c)
  BY <1>3 DEF runVars, progress, Value, Enabled, config, DroppedOf
<1>5. v \in Int /\ previous[Counters[n]] <= v
  <2>1. v \in Int
    BY <1>1, <1>2, <1>3, <1>4, ValueGrows DEF runVars, progress
  <2> QED
    BY <1>1, <1>2, <2>1 DEF Watched
<1> HIDE DEF v
<1>6. /\ current' \in Seq(Int) /\ Len(current') = n /\ current'[n] = v
      /\ \A i \in 1..Len(current) : current'[i] = current[i]
  BY <1>2, <1>3, <1>5, AppendProperties
<1>7. ASSUME NEW i \in DOMAIN current'
      PROVE  /\ previous'[Counters[i]] <= current'[i]
             /\ current'[i] <= Value(Counters[i])'
  <2>1. CASE i \in 1..Len(current)
    BY <1>1, <1>2, <1>3, <1>4, <1>6, <2>1 DEF Watched
  <2>2. CASE i = n
    BY <1>3, <1>4, <1>5, <1>6, <2>2 DEF v
  <2>3. i \in 1..n
    BY <1>2, <1>6
  <2> QED
    BY <1>2, <2>1, <2>2, <2>3
<1>8. Len(current') <= Len(Counters)
  BY <1>2, <1>6, CounterNames
<1> HIDE DEF n
<1> QED
  BY <1>1, <1>3, <1>4, <1>6, <1>7, <1>8 DEF Watched

\* A window is added up to its snapshot, which becomes the last one.
LEMMA ReportWatched ==
    ASSUME IInv, Report
    PROVE  Watched'
<1>1. Watched /\ Len(current) = Len(Counters)
  BY DEF IInv, Report
<1>2. /\ windows' = [c \in DOMAIN windows |-> windows[c] + Since(Snapshot)[c]]
      /\ previous' = Snapshot /\ current' = <<>> /\ UNCHANGED <<raw, runVars>>
  BY DEF Report
<1>3. \A c : Value(c)' = Value(c)
  BY <1>2 DEF runVars, progress, Value, Enabled, config, DroppedOf
<1>4. Snapshot \in [Range(Counters) -> Int]
  BY <1>1, SnapshotIsRead DEF Watched
<1>5. ASSUME NEW c \in Range(Counters)
      PROVE  previous[c] <= Snapshot[c] /\ Snapshot[c] <= Value(c)
  <2>1. PICK i \in 1..4 : c = Counters[i]
    BY CounterNames DEF Range
  <2>2. i \in DOMAIN current /\ Snapshot[c] = current[i]
    BY <1>1, <2>1, CounterNames, SnapshotIsRead DEF Watched
  <2> QED
    BY <1>1, <2>1, <2>2 DEF Watched
<1>6. ASSUME NEW c \in Range(Counters)
      PROVE  windows[c] + Since(Snapshot)[c] = Snapshot[c]
  <2>1. /\ previous[c] \in Int /\ Snapshot[c] \in Int /\ windows[c] = previous[c]
        /\ DOMAIN Snapshot = Range(Counters)
    BY <1>1, <1>4 DEF Watched
  <2>2. Since(Snapshot)[c] = Less(Snapshot[c], previous[c])
    BY <2>1 DEF Since
  <2> QED
    BY <1>5, <2>1, <2>2 DEF Less
<1>7. windows' = Snapshot
  <2>1. DOMAIN windows = Range(Counters)
    BY <1>1 DEF Watched
  <2> QED
    BY <1>2, <1>4, <1>6, <2>1
<1>8. current' \in Seq(Int) /\ Len(current') = 0 /\ DOMAIN current' = {}
  BY <1>2
<1>9. 0 <= Len(Counters)
  BY CounterNames
<1> HIDE DEF Counters
<1> QED
  BY <1>2, <1>3, <1>4, <1>5, <1>7, <1>8, <1>9 DEF Watched

LEMMA TickWatched ==
    ASSUME IInv, Tick
    PROVE  Watched'
<1>1. Watched /\ previous' = previous /\ windows' = windows /\ current' = <<>>
  BY DEF IInv, Tick
<1>2. \A c : Value(c)' = Value(c)
  BY DEF Tick, runVars, progress, Value, Enabled, config, DroppedOf
<1>3. current' \in Seq(Int) /\ Len(current') = 0 /\ DOMAIN current' = {} /\ 0 <= Len(Counters)
  BY <1>1, CounterNames
<1> HIDE DEF Counters
<1> QED
  BY <1>1, <1>2, <1>3 DEF Watched

LEMMA WatchedStays ==
    ASSUME IInv, [Next]_vars
    PROVE  Watched'
<1>1. CASE ReadCounter \/ Report \/ Tick
  BY <1>1, ReadCounterWatched, ReportWatched, TickWatched
<1>2. ASSUME ~(ReadCounter \/ Report \/ Tick)
      PROVE  UNCHANGED <<current, previous, windows>>
  <2>1. CASE UNCHANGED vars
    BY <2>1 DEF vars, reporting
  <2>2. CASE Run
    BY <2>2 DEF Run, Parse, Check, Prepare, StartReporter, Admit, Transform, Write, Flush,
                JoinReporter, Return, reporting
  <2>3. CASE KafkaFails \/ SinkFails
    BY <2>3 DEF KafkaFails, SinkFails, reporting
  <2>4. CASE \E code \in {130, 143} : StartupSignal(code) \/ Signal(code)
    BY <2>4 DEF StartupSignal, Signal, reporting
  <2> QED
    BY <1>2, <2>1, <2>2, <2>3, <2>4 DEF Next, ReporterRuns, Exited
<1> QED
  BY <1>1, <1>2, WatchedKept

LEMMA Invariant == Spec => []IInv
<1>1. IInv /\ [Next]_vars => IInv'
  BY TypedStays, AccountedStays, WatchedStays DEF IInv
<1> QED
  BY <1>1, InitIInv, PTL DEF Spec

-----------------------------------------------------------------------------
\* The theorems.

\* The windows that report_periodically has reported add up to its last
\* snapshot, and no counter of that is ahead of the counter it was read from.
THEOREM WindowsAddUpAlways == Spec => []WindowsAddUp
<1>1. IInv => WindowsAddUp
  BY DEF IInv, Watched, WindowsAddUp
<1> QED
  BY <1>1, Invariant, PTL

\* The result of a run says what became of its records.
LEMMA ReturnTells ==
    ASSUME IInv, Return
    PROVE  \/ /\ status' = 0
              /\ \/ firstFailure = "brokenPipe"
                 \/ firstFailure = None /\ delivered = Emitted(Records)
           \/ status' = 1 /\ firstFailure \in {"output", "runtime"}
           \/ /\ status' \in {130, 143} /\ status' = signal
              /\ firstFailure = None /\ delivered = Emitted(admitted)
<1>1. /\ phase = "returned" /\ Typed /\ Accounted
      /\ firstFailure \in {None, "brokenPipe", "output", "runtime"} /\ signal \in {None, 130, 143}
  BY DEF Return, IInv, Typed
<1>2. status' = CASE firstFailure = "brokenPipe" -> 0
                  [] firstFailure \in {"output", "runtime"} -> 1
                  [] firstFailure = None -> IF signal = None THEN 0 ELSE signal
  BY DEF Return, Exit
<1>3. CASE firstFailure = "brokenPipe"
  BY <1>2, <1>3, RunAssumption
<1>4. CASE firstFailure \in {"output", "runtime"}
  BY <1>2, <1>4, RunAssumption
<1>5. CASE firstFailure = None
  <2>1. status' = IF signal = None THEN 0 ELSE signal
    BY <1>2, <1>5, RunAssumption
  <2>2. delivered = Emitted(admitted) /\ (signal = None => admitted = Records)
    BY <1>1, <1>5 DEF Accounted
  <2>3. CASE signal = None
    <3>1. status' = 0 /\ delivered = Emitted(Records)
      BY <2>1, <2>2, <2>3
    <3> QED
      BY <1>5, <3>1
  <2>4. CASE signal # None
    <3>1. status' = signal /\ signal \in {130, 143}
      BY <1>1, <2>1, <2>4
    <3> QED
      BY <1>5, <2>2, <3>1
  <2> QED
    BY <2>3, <2>4
<1> QED
  BY <1>1, <1>3, <1>4, <1>5

\* The exit status tells what became of the records (docs/usage.md): 0 only if
\* all were emitted or their reader went first, that of a signal only if the
\* admitted ones were, unless a second one came or the run had failed.
THEOREM StatusTellsOutcome == Spec => ExitTellsOutcome
<1> DEFINE Told ==
             \/ status' = 2 /\ phase \in {"parsing", "checking"}
             \/ /\ status' = 0
                /\ \/ phase = "checking"
                   \/ firstFailure = "brokenPipe"
                   \/ firstFailure = None /\ delivered = Emitted(Records)
             \/ status' = 1 /\ (phase = "preparing" \/ firstFailure \in {"output", "runtime"})
             \/ /\ status' \in {130, 143}
                /\ \/ phase = "preparing"
                   \/ phase # "returned" /\ shutdown
                   \/ status' = signal /\ firstFailure = None /\ delivered = Emitted(admitted)
<1>1. ASSUME IInv, [Next]_vars, status' # status
      PROVE  Told
  <2>1. CASE Parse \/ Check \/ Prepare
    BY <1>1, <2>1 DEF Parse, Check, Prepare, Exit, Goto
  <2>2. CASE Return
    BY <1>1, <2>2, ReturnTells
  <2>3. ASSUME NEW code \in {130, 143}, StartupSignal(code) PROVE Told
    BY <2>3 DEF StartupSignal, Exit
  <2>4. ASSUME NEW code \in {130, 143}, Signal(code) PROVE Told
    <3>1. /\ phase # "returned" /\ status' = code /\ ~(signal = None /\ ~shutdown)
      BY <1>1, <2>4 DEF Signal, Exit
    <3>2. shutdown
      BY <1>1, <3>1 DEF IInv, Accounted
    <3> QED
      BY <2>4, <3>1, <3>2
  <2>5. CASE StartReporter \/ Admit \/ Transform \/ Write \/ Flush \/ JoinReporter
    BY <1>1, <2>5 DEF StartReporter, Admit, Transform, Write, Flush, JoinReporter, Goto, runVars
  <2>6. CASE ReporterRuns \/ Tick \/ KafkaFails \/ SinkFails \/ UNCHANGED vars
    BY <1>1, <2>6 DEF ReporterRuns, ReadCounter, Report, Tick, KafkaFails, SinkFails, runVars, vars
  <2> QED
    BY <1>1, <2>1, <2>2, <2>3, <2>4, <2>5, <2>6 DEF Next, Run, Exited
<1>2. IInv /\ [Next]_vars => [status' # status => Told]_vars
  BY <1>1
<1>3. ExitTellsOutcome <=> [][status' # status => Told]_vars
  BY PTL DEF ExitTellsOutcome
<1> QED
  BY <1>2, <1>3, Invariant, PTL DEF Spec

-----------------------------------------------------------------------------
\* The partitions.

\* A selection's bounds as partitions.
Spread(s) == s.from..s.to

\* Selections are taken one after the other.
LEMMA SelectionRuns ==
    ASSUME NEW list, IsList(list), NEW n, n = Len(list)
    PROVE  \E g \in [0..n -> Seq(Int) \cup {None}] :
              /\ g[0] = <<>>
              /\ \A k \in 1..n : g[k] = AddSelection(g[k - 1], list[k])
              /\ FoldLeft(AddSelection, <<>>, list) = g[n]
<1> DEFINE V == Seq(Int) \cup {None}
           F == [a \in V \X (1..n) |-> AddSelection(a[1], list[a[2]])]
<1>1. n \in Nat /\ DOMAIN list = 1..n /\ <<>> \in V
  BY DEF IsList
<1>2. ASSUME NEW a \in V, NEW s PROVE AddSelection(a, s) \in V
  <2>1. CASE AddSelection(a, s) = None
    BY <2>1
  <2>2. CASE AddSelection(a, s) # None
    <3>1. a \in Seq(Int) /\ SelectionParses(s)
      BY <2>2 DEF AddSelection
    <3>2. s.from \in Nat /\ s.to \in Nat /\ s.from <= s.to
      BY <3>1, WidthsAssumption DEF SelectionParses, IsPartition
    <3>3. AddSelection(a, s) = a \o [i \in 1..(s.to - s.from + 1) |-> s.from + i - 1]
      BY <2>2 DEF AddSelection
    <3>4. [i \in 1..(s.to - s.from + 1) |-> s.from + i - 1] \in Seq(Int)
      <4> DEFINE m == s.to - s.from + 1
      <4>1. m \in Nat /\ [i \in 1..m |-> s.from + i - 1] \in [1..m -> Int]
        BY <3>2
      <4> QED
        BY <4>1, SeqDef
    <3> QED
      BY <3>1, <3>3, <3>4
  <2> QED
    BY <2>1, <2>2
<1>3. F \in Steps(V, n) /\ \A a \in V, k \in 1..n : F[<<a, k>>] = AddSelection(a, list[k])
  <2> HIDE DEF V
  <2> QED
    BY <1>2 DEF Steps
<1>4. PICK h \in [SUBSET (1..n) -> V] : IsFold(h, <<>>, n, F)
  <2> HIDE DEF V, F
  <2> QED
    BY <1>1, <1>3, Iterates
<1>5. PICK g \in [0..n -> V] : IsRun(g, <<>>, n, F, h[1..n])
  <2> HIDE DEF V, F
  <2> QED
    BY <1>1, <1>4, Runs
<1>6. ASSUME NEW k \in 1..n PROVE g[k] = AddSelection(g[k - 1], list[k])
  <2> HIDE DEF V, F
  <2>1. g[k - 1] \in V
    BY <1>1
  <2> QED
    BY <1>3, <1>5, <2>1 DEF IsRun
<1> DEFINE E(f) == f = [t \in SUBSET (1..n) |->
                          IF t = {} THEN <<>> ELSE AddSelection(f[t \ {Max(t)}], list[Max(t)])]
<1>7. E(h)
  <2> HIDE DEF V, F
  <2> SUFFICES ASSUME NEW t \in SUBSET (1..n)
               PROVE  h[t] = IF t = {} THEN <<>> ELSE AddSelection(h[t \ {Max(t)}], list[Max(t)])
    OBVIOUS
  <2>1. CASE t = {}
    BY <1>4, <2>1 DEF IsFold
  <2>2. CASE t # {}
    <3>1. Max(t) \in 1..n /\ t \ {Max(t)} \in SUBSET (1..n)
      BY <1>1, <2>2, LargestIn
    <3>2. h[t] = F[<<h[t \ {Max(t)}], Max(t)>>] /\ h[t \ {Max(t)}] \in V
      BY <1>4, <2>2, <3>1 DEF IsFold
    <3> QED
      BY <1>3, <2>2, <3>1, <3>2
  <2> QED
    BY <2>1, <2>2
<1> DEFINE iter == CHOOSE f : E(f)
<1>8. E(iter)
  <2> HIDE DEF E
  <2> QED
    BY <1>7
<1>9. FoldLeft(AddSelection, <<>>, list) = iter[1..n]
  BY <1>1 DEF FoldLeft, MapThenFoldSet
<1> HIDE DEF iter, V
<1>10. iter = h
  <2>1. OfPlaces(iter, n) /\ OfPlaces(h, n)
    BY <1>8 DEF OfPlaces
  <2>2. Alike(iter, h, n)
    <3>1. ASSUME NEW f, E(f), NEW t \in SUBSET (1..n)
          PROVE  f[t] = IF t = {} THEN <<>> ELSE AddSelection(f[t \ {Max(t)}], list[Max(t)])
      BY <3>1
    <3> HIDE DEF E
    <3>2. iter[{}] = h[{}]
      BY <1>7, <1>8, <3>1
    <3>3. ASSUME NEW t \in SUBSET (1..n), t # {}, iter[t \ {Max(t)}] = h[t \ {Max(t)}]
          PROVE  iter[t] = h[t]
      <4>1. iter[t] = AddSelection(iter[t \ {Max(t)}], list[Max(t)])
        BY <1>8, <3>1, <3>3
      <4>2. h[t] = AddSelection(h[t \ {Max(t)}], list[Max(t)])
        BY <1>7, <3>1, <3>3
      <4> QED
        BY <3>3, <4>1, <4>2
    <3> QED
      BY <3>2, <3>3 DEF Alike
  <2> HIDE DEF E
  <2> QED
    BY <1>1, <2>1, <2>2, SameFold
<1> QED
  BY <1>5, <1>6, <1>9, <1>10 DEF IsRun, V

\* A selection that is taken adds its own partitions, which were not there.
LEMMA SelectionAdds ==
    ASSUME NEW list \in Seq(Int), NEW s, AddSelection(list, s) # None,
           IsInjective(list)
    PROVE  /\ AddSelection(list, s) \in Seq(Int) /\ IsInjective(AddSelection(list, s))
           /\ Range(AddSelection(list, s)) = Range(list) \cup Spread(s)
           /\ Len(AddSelection(list, s)) <= MaxPartitions
<1> DEFINE m == s.to - s.from + 1
           more == [i \in 1..m |-> s.from + i - 1]
<1>1. /\ SelectionParses(s) /\ Len(list) + m <= MaxPartitions /\ ~SelectsAgain(list, s)
      /\ AddSelection(list, s) = list \o more
  <2>1. /\ SelectionParses(s) /\ ~(Len(list) + m > MaxPartitions) /\ ~SelectsAgain(list, s)
        /\ AddSelection(list, s) = list \o more
    BY DEF AddSelection
  <2>2. s.from \in Nat /\ s.to \in Nat
    BY <2>1, WidthsAssumption DEF SelectionParses, IsPartition
  <2>3. Len(list) + m \in Int /\ MaxPartitions \in Int
    BY <2>2, WidthsAssumption
  <2> HIDE DEF m, more
  <2> QED
    BY <2>1, <2>3
<1>2. s.from \in Nat /\ s.to \in Nat /\ s.from <= s.to
  BY <1>1, WidthsAssumption DEF SelectionParses, IsPartition
<1>3. m \in Nat \ {0} /\ more \in [1..m -> Int]
  BY <1>2
<1>4. more \in Seq(Int) /\ Len(more) = m
  <2> HIDE DEF m, more
  <2> QED
    BY <1>3, SeqDef
<1>5. Range(more) = Spread(s)
  <2>1. ASSUME NEW x \in Spread(s) PROVE x \in Range(more)
    <3>1. x - s.from + 1 \in 1..m
      BY <1>2 DEF Spread
    <3>2. more[x - s.from + 1] = x
      BY <1>2, <3>1 DEF Spread
    <3> QED
      BY <3>1, <3>2 DEF Range
  <2>2. ASSUME NEW x \in Range(more) PROVE x \in Spread(s)
    <3>1. PICK i \in 1..m : x = s.from + i - 1
      BY DEF Range
    <3> QED
      BY <1>2, <3>1 DEF Spread
  <2> QED
    BY <2>1, <2>2
<1>6. Range(list) \cap Spread(s) = {}
  BY <1>1 DEF SelectsAgain, Range, Spread
<1> DEFINE all == list \o more
<1> HIDE DEF more
<1>7. /\ all \in Seq(Int) /\ Len(all) = Len(list) + m /\ DOMAIN all = 1..(Len(list) + m)
      /\ \A i \in 1..Len(list) : all[i] = list[i]
      /\ \A i \in 1..m : all[Len(list) + i] = more[i]
  <2> HIDE DEF m
  <2> QED
    BY <1>3, <1>4
<1>8. Range(all) = Range(list) \cup Range(more)
  <2>1. ASSUME NEW i \in DOMAIN all PROVE all[i] \in Range(list) \cup Range(more)
    <3>1. CASE i \in 1..Len(list)
      BY <1>7, <3>1 DEF Range
    <3>2. CASE i \notin 1..Len(list)
      <4>1. i - Len(list) \in 1..m /\ Len(list) + (i - Len(list)) = i
        BY <1>3, <1>7, <3>2
      <4>2. all[i] = more[i - Len(list)] /\ i - Len(list) \in DOMAIN more
        BY <1>3, <1>7, <4>1
      <4> QED
        BY <4>2 DEF Range
    <3> QED
      BY <3>1, <3>2
  <2>2. ASSUME NEW i \in 1..Len(list) PROVE list[i] \in Range(all)
    <3>1. i \in DOMAIN all
      BY <1>3, <1>7
    <3> QED
      BY <1>7, <3>1 DEF Range
  <2>3. ASSUME NEW i \in 1..m PROVE more[i] \in Range(all)
    <3>1. Len(list) + i \in DOMAIN all
      BY <1>3, <1>7
    <3> QED
      BY <1>7, <3>1 DEF Range
  <2>4. DOMAIN list = 1..Len(list) /\ DOMAIN more = 1..m
    BY <1>3
  <2> HIDE DEF all
  <2> QED
    BY <2>1, <2>2, <2>3, <2>4 DEF Range
<1>9. IsInjective(all)
  <2> SUFFICES ASSUME NEW i \in DOMAIN all, NEW j \in DOMAIN all, all[i] = all[j], i < j
               PROVE  FALSE
    <3>1. DOMAIN all \subseteq Int
      BY <1>3, <1>7
    <3> HIDE DEF all
    <3> QED
      BY <3>1 DEF IsInjective
  <2>1. CASE j \in 1..Len(list)
    <3>1. i \in 1..Len(list) /\ DOMAIN list = 1..Len(list)
      BY <1>3, <1>7, <2>1
    <3> QED
      BY <1>7, <2>1, <3>1 DEF IsInjective
  <2>2. CASE j \notin 1..Len(list)
    <3>1. j - Len(list) \in 1..m /\ Len(list) + (j - Len(list)) = j
      BY <1>3, <1>7, <2>2
    <3>2. all[j] = more[j - Len(list)] /\ all[j] = s.from + (j - Len(list)) - 1
      BY <1>7, <3>1 DEF more
    <3>3. all[j] \in Spread(s)
      BY <1>3, <1>5, <3>1, <3>2 DEF Range
    <3>4. CASE i \in 1..Len(list)
      <4>1. all[i] \in Range(list)
        BY <1>7, <3>4 DEF Range
      <4> QED
        BY <1>6, <3>3, <4>1
    <3>5. CASE i \notin 1..Len(list)
      <4>1. i - Len(list) \in 1..m /\ Len(list) + (i - Len(list)) = i
        BY <1>3, <1>7, <3>5
      <4>2. all[i] = s.from + (i - Len(list)) - 1
        BY <1>7, <4>1 DEF more
      <4> HIDE DEF all, m
      <4> QED
        BY <1>2, <3>1, <3>2, <4>1, <4>2
    <3> QED
      BY <3>4, <3>5
  <2> QED
    BY <2>1, <2>2
<1> QED
  BY <1>1, <1>5, <1>7, <1>8, <1>9

\* The partitions of an accepted command line.
LEMMA PartitionsTaken ==
    ASSUME NEW list, IsList(list), NEW got, got = FoldLeft(AddSelection, <<>>, list), got # None
    PROVE  /\ got \in Seq(Int) /\ IsInjective(got) /\ Len(got) <= MaxPartitions
           /\ Range(got) = UNION {Spread(s) : s \in Range(list)}
<1> DEFINE n == Len(list)
<1>1. n \in Nat /\ DOMAIN list = 1..n
  BY DEF IsList
<1>2. PICK g \in [0..n -> Seq(Int) \cup {None}] :
          /\ g[0] = <<>>
          /\ \A k \in 1..n : g[k] = AddSelection(g[k - 1], list[k])
          /\ got = g[n]
  BY SelectionRuns
<1> DEFINE Taken(k) == UNION {Spread(list[j]) : j \in 1..k}
           Well(k) == g[k] # None =>
                        /\ g[k] \in Seq(Int) /\ IsInjective(g[k]) /\ Len(g[k]) <= MaxPartitions
                        /\ Range(g[k]) = Taken(k)
           Wells == {k \in 0..n : Well(k)}
<1>3. 0 \in Wells
  <2>1. <<>> \in Seq(Int) /\ Len(<<>>) = 0 /\ IsInjective(<<>>) /\ Range(<<>>) = {} /\ Taken(0) = {}
    BY DEF IsInjective, Range
  <2>2. 0 <= MaxPartitions
    BY WidthsAssumption
  <2>3. 0 \in 0..n
    BY <1>1
  <2> HIDE DEF Taken
  <2> QED
    BY <1>2, <2>1, <2>2, <2>3
<1>4. ASSUME NEW k \in 1..n, k - 1 \in Wells PROVE k \in Wells
  <2> SUFFICES ASSUME g[k] # None PROVE Well(k)
    BY <1>1
  <2>1. g[k] = AddSelection(g[k - 1], list[k])
    BY <1>2
  <2>2. g[k - 1] # None
    BY <2>1 DEF AddSelection
  <2>3. g[k - 1] \in Seq(Int) /\ IsInjective(g[k - 1]) /\ Range(g[k - 1]) = Taken(k - 1)
    BY <1>4, <2>2
  <2>4. /\ g[k] \in Seq(Int) /\ IsInjective(g[k]) /\ Len(g[k]) <= MaxPartitions
        /\ Range(g[k]) = Taken(k - 1) \cup Spread(list[k])
    <3> HIDE DEF Taken
    <3> QED
      BY <2>1, <2>3, SelectionAdds
  <2>5. Taken(k) = Taken(k - 1) \cup Spread(list[k])
    <3>1. 1..k = (1..(k - 1)) \cup {k}
      BY <1>1
    <3> QED
      BY <3>1
  <2> QED
    BY <2>4, <2>5
<1>5. Well(n)
  <2>1. n \in 0..n
    BY <1>1
  <2> HIDE DEF Wells
  <2>2. n \in Wells
    BY <1>1, <1>3, <1>4, <2>1, Climbs
  <2> USE DEF Wells
  <2> QED
    BY <2>2
<1>6. Taken(n) = UNION {Spread(s) : s \in Range(list)}
  BY <1>1 DEF Range
<1> HIDE DEF Taken
<1> QED
  BY <1>2, <1>5, <1>6

\* All partition options are one list of selections.
LEMMA OptionsJoin ==
    ASSUME NEW lists, IsList(lists), \A i \in DOMAIN lists : IsList(lists[i])
    PROVE  /\ IsList(FlattenSeq(lists))
           /\ Range(FlattenSeq(lists)) = UNION {Range(l) : l \in Range(lists)}
<1>1. lists \in Seq(Range(lists)) /\ \A i \in DOMAIN lists : lists[i] \in Seq(Range(lists[i]))
  BY DEF IsList
<1>2. /\ FlattenSeq(lists) \in Seq(Range(FlattenSeq(lists)))
      /\ Range(FlattenSeq(lists)) = UNION {Range(l) : l \in Range(lists)}
  BY <1>1, FlattenedList
<1> QED
  BY <1>2 DEF IsList

\* As many partitions as places in a list without repetitions.
LEMMA DistinctCount ==
    ASSUME NEW s \in Seq(Int), IsInjective(s)
    PROVE  Cardinality(Range(s)) = Len(s)
<1>1. Len(s) \in Nat /\ DOMAIN s = 1..Len(s)
  OBVIOUS
<1>2. IsFiniteSet(1..Len(s)) /\ Cardinality(1..Len(s)) = Len(s)
  BY <1>1, FS_Interval
<1>3. s \in Bijection(1..Len(s), Range(s))
  BY <1>1 DEF Range, IsInjective, Bijection, Injection, Surjection
<1>4. ExistsBijection(1..Len(s), Range(s))
  BY <1>3 DEF ExistsBijection
<1> QED
  BY <1>2, <1>4, FS_Bijection

-----------------------------------------------------------------------------
\* What is accepted can be run.

\* The command line stays, and what starts was accepted.
AcceptedWell == raw \in Requests /\ (Accepted => ~Refused(raw))

LEMMA AcceptedWellAlways == Spec => []AcceptedWell
<1>1. Init => AcceptedWell
  BY DEF Init, AcceptedWell, Accepted
<1>2. AcceptedWell /\ [Next]_vars => AcceptedWell'
  <2> SUFFICES ASSUME AcceptedWell, [Next]_vars PROVE AcceptedWell'
    OBVIOUS
  <2>1. raw' = raw
    BY DEF Next, Run, ReporterRuns, Parse, Check, Prepare, StartReporter, Admit, Transform,
           Write, Flush, JoinReporter, Return, ReadCounter, Report, Tick, KafkaFails, SinkFails,
           StartupSignal, Signal, Exited, vars
  <2>2. Accepted' => Accepted \/ ~Refused(raw)
    BY DEF Next, Run, ReporterRuns, Parse, Check, Prepare, StartReporter, Admit, Transform,
           Write, Flush, JoinReporter, Return, ReadCounter, Report, Tick, KafkaFails, SinkFails,
           StartupSignal, Signal, Exited, vars, runVars, Accepted, Exit, Goto, Processing
  <2>3. Refused(raw') <=> Refused(raw)
    BY <2>1
  <2> QED
    BY <2>1, <2>2, <2>3 DEF AcceptedWell
<1> QED
  BY <1>1, <1>2, PTL DEF Spec

\* A product that is not refused is exact, and fits its width.
LEMMA ProductsExact ==
    ASSUME NEW amount, NEW max \in Nat
    PROVE  /\ Product(amount, Bytes, max) # None =>
                /\ Product(amount, Bytes, max) = amount.number * Bytes[amount.unit]
                /\ Product(amount, Bytes, max) \in 0..max
           /\ Product(amount, Milliseconds, max) # None =>
                /\ Product(amount, Milliseconds, max) = amount.number * Milliseconds[amount.unit]
                /\ Product(amount, Milliseconds, max) \in 0..max
<1>1. ASSUME NEW x \in Nat, NEW u \in {1, 1000, 60000, 1024, 1024 * 1024, 1024 * 1024 * 1024},
             ~(x > max \div u)
      PROVE  x * u \in 0..max
  <2>1. CASE u = 1
    BY <1>1, <2>1
  <2>2. CASE u = 1000
    BY <1>1, <2>2
  <2>3. CASE u = 60000
    BY <1>1, <2>3
  <2>4. CASE u = 1024
    BY <1>1, <2>4
  <2>5. CASE u = 1024 * 1024
    BY <1>1, <2>5
  <2>6. CASE u = 1024 * 1024 * 1024
    BY <1>1, <2>6
  <2> QED
    BY <2>1, <2>2, <2>3, <2>4, <2>5, <2>6
<1>2. ASSUME Product(amount, Bytes, max) # None
      PROVE  /\ Product(amount, Bytes, max) = amount.number * Bytes[amount.unit]
             /\ Product(amount, Bytes, max) \in 0..max
  <2>1. /\ amount.unit \in DOMAIN Bytes /\ amount.number \in 0..max
        /\ ~(amount.number > max \div Bytes[amount.unit])
        /\ Product(amount, Bytes, max) = amount.number * Bytes[amount.unit]
    BY <1>2 DEF Product
  <2>2. Bytes[amount.unit] \in {1, 1000, 60000, 1024, 1024 * 1024, 1024 * 1024 * 1024}
    BY <2>1 DEF Bytes
  <2>3. amount.number \in Nat
    BY <2>1
  <2> QED
    BY <1>1, <2>1, <2>2, <2>3
<1>3. ASSUME Product(amount, Milliseconds, max) # None
      PROVE  /\ Product(amount, Milliseconds, max) = amount.number * Milliseconds[amount.unit]
             /\ Product(amount, Milliseconds, max) \in 0..max
  <2>1. /\ amount.unit \in DOMAIN Milliseconds /\ amount.number \in 0..max
        /\ ~(amount.number > max \div Milliseconds[amount.unit])
        /\ Product(amount, Milliseconds, max) = amount.number * Milliseconds[amount.unit]
    BY <1>3 DEF Product
  <2>2. Milliseconds[amount.unit] \in {1, 1000, 60000, 1024, 1024 * 1024, 1024 * 1024 * 1024}
    BY <2>1 DEF Milliseconds
  <2>3. amount.number \in Nat
    BY <2>1
  <2> QED
    BY <1>1, <2>1, <2>2, <2>3
<1> QED
  BY <1>2, <1>3

\* There is a worker, and never more of them than records in flight.
LEMMA EvaluatorsFit ==
    ASSUME NEW pollers \in Nat, NEW max \in Nat \ {0}
    PROVE  EvaluatorCount(Parallelism, pollers, max) \in 1..max
<1>1. Parallelism \in Nat \ {0}
  BY RunAssumption
<1>2. Divided(Parallelism, 2) \in Int /\ Less(Parallelism, pollers + 1) \in Int
  BY <1>1 DEF Divided, Less
<1> QED
  BY <1>2 DEF EvaluatorCount, Larger, Smaller

\* The limits of an accepted command line.
LEMMA LimitsUsable ==
    ASSUME raw \in Requests, ~Refused(raw)
    PROVE  /\ config.maxBytes = raw.maxBytes.number * Bytes[raw.maxBytes.unit]
           /\ config.maxBytes \in 1..UsizeMax
           /\ config.interval # None =>
                 /\ config.interval = raw.interval.number * Milliseconds[raw.interval.unit]
                 /\ config.interval \in 1..U64Max
           /\ config.maxPerPartition \in 1..config.maxRecords
           /\ config.consumers \in 1..MaxConsumers
           /\ \A pollers \in 1..config.consumers :
                 EvaluatorCount(Parallelism, pollers, config.maxRecords) \in 1..config.maxRecords
<1>1. raw.consumers \in Nat /\ raw.maxRecords \in Nat /\ raw.maxPerPartition \in Nat
  BY RequestsAssumption
<1>2. ~ClapRefuses(raw) /\ ~LimitsRefused(raw)
  BY DEF Refused
<1>3. /\ config.maxBytes = ParseSize(raw.maxBytes)
      /\ config.interval = IF raw.interval = None THEN None ELSE ParseDuration(raw.interval)
      /\ config.maxPerPartition = raw.maxPerPartition /\ config.maxRecords = raw.maxRecords
      /\ config.consumers = raw.consumers
  BY DEF config, Config
<1>4. /\ ParseSize(raw.maxBytes) = raw.maxBytes.number * Bytes[raw.maxBytes.unit]
      /\ ParseSize(raw.maxBytes) \in 1..UsizeMax
  <2>1. ParseSize(raw.maxBytes) # None /\ ParseSize(raw.maxBytes) # 0
    BY <1>2 DEF ClapRefuses, LimitsRefused
  <2>2. /\ Product(raw.maxBytes, Bytes, U128Max) # None
        /\ ~(Product(raw.maxBytes, Bytes, U128Max) > UsizeMax)
        /\ ParseSize(raw.maxBytes) = Product(raw.maxBytes, Bytes, U128Max)
    BY <2>1 DEF ParseSize
  <2>3. U128Max \in Nat /\ UsizeMax \in Nat
    BY WidthsAssumption
  <2>4. /\ Product(raw.maxBytes, Bytes, U128Max) = raw.maxBytes.number * Bytes[raw.maxBytes.unit]
        /\ Product(raw.maxBytes, Bytes, U128Max) \in 0..U128Max
    BY <2>2, <2>3, ProductsExact
  <2> QED
    BY <2>1, <2>2, <2>3, <2>4
<1>5. ASSUME config.interval # None
      PROVE  /\ config.interval = raw.interval.number * Milliseconds[raw.interval.unit]
             /\ config.interval \in 1..U64Max
  <2>1. /\ config.interval = Product(raw.interval, Milliseconds, U64Max)
        /\ config.interval # 0
    BY <1>2, <1>3, <1>5 DEF ClapRefuses, ParseDuration
  <2>2. U64Max \in Nat
    BY WidthsAssumption
  <2>3. /\ config.interval = raw.interval.number * Milliseconds[raw.interval.unit]
        /\ config.interval \in 0..U64Max
    BY <1>5, <2>1, <2>2, ProductsExact
  <2> QED
    BY <2>1, <2>3
<1>6. /\ raw.maxPerPartition \in 1..raw.maxRecords /\ raw.consumers \in 1..MaxConsumers
      /\ raw.maxRecords \in Nat \ {0}
  BY <1>1, <1>2, WidthsAssumption DEF LimitsRefused
<1>7. \A pollers \in 1..raw.consumers :
          EvaluatorCount(Parallelism, pollers, raw.maxRecords) \in 1..raw.maxRecords
  BY <1>6, EvaluatorsFit
<1> HIDE DEF config
<1> QED
  BY <1>3, <1>4, <1>5, <1>6, <1>7

\* Its boundaries.
LEMMA RangesFixed ==
    ASSUME ~Refused(raw)
    PROVE  /\ WatermarksExpected(config) => WatermarksFetched(config)
           /\ config.sharding => StartIsFixed(config) /\ config.end # None
<1>1. config.sharding = raw.sharding /\ config.end = EndOf(raw)
  BY DEF config, Config
<1>2. config.sharding => config.end # None
  BY <1>1 DEF Refused, ShardingRefused
<1>3. config.sharding => WatermarksFetched(config)
  BY DEF WatermarksFetched
<1> HIDE DEF config
<1>4. WatermarksExpected(config) => WatermarksFetched(config)
  BY DEF WatermarksExpected, WatermarksFetched, WatermarksRequired
<1> QED
  BY <1>2, <1>3, <1>4 DEF StartIsFixed

\* For any command line that resolve accepts, prepare and run_pipeline have what they
\* rely on: the selected partitions, each once, limits that are exact and positive,
\* the watermarks that are expected, and fixed bounds where shards are cut.
THEOREM AcceptedRuns == Spec => []AcceptedIsRunnable
<1>1. ASSUME AcceptedWell PROVE AcceptedIsRunnable
  <2> SUFFICES ASSUME Accepted PROVE AcceptedIsRunnable
    BY DEF AcceptedIsRunnable
  <2>1. raw \in Requests /\ ~Refused(raw)
    BY <1>1 DEF AcceptedWell
  <2> DEFINE list == FlattenSeq(raw.partitions)
             all == UNION {UNION {arg[i].from..arg[i].to : i \in DOMAIN arg} :
                              arg \in Range(raw.partitions)}
  <2>2. IsList(raw.partitions) /\ \A i \in DOMAIN raw.partitions : IsList(raw.partitions[i])
    BY <2>1, RequestsAssumption
  <2>3. IsList(list) /\ Range(list) = UNION {Range(l) : l \in Range(raw.partitions)}
    BY <2>2, OptionsJoin
  <2>4. config.partitions = FoldLeft(AddSelection, <<>>, list) /\ config.partitions # None
    BY <2>1 DEF config, Config, Refused, Selected
  <2> HIDE DEF config, list
  <2>5. /\ config.partitions \in Seq(Int) /\ IsInjective(config.partitions)
        /\ Len(config.partitions) <= MaxPartitions
        /\ Range(config.partitions) = UNION {Spread(s) : s \in Range(list)}
    BY <2>3, <2>4, PartitionsTaken
  <2>6. UNION {Spread(s) : s \in Range(list)} = all
    <3>1. ASSUME NEW arg \in Range(raw.partitions)
          PROVE  UNION {Spread(s) : s \in Range(arg)}
                   = UNION {arg[i].from..arg[i].to : i \in DOMAIN arg}
      BY DEF Range, Spread
    <3>2. UNION {Spread(s) : s \in Range(list)}
            = UNION {UNION {Spread(s) : s \in Range(arg)} : arg \in Range(raw.partitions)}
      BY <2>3
    <3> QED
      BY <3>1, <3>2
  <2>7. Cardinality(Range(config.partitions)) = Len(config.partitions)
    BY <2>5, DistinctCount
  <2>8. Range(config.partitions) = all
    BY <2>5, <2>6
  <2> HIDE DEF all
  <2> USE DEF all
  <2> QED
    BY <2>1, <2>5, <2>7, <2>8, LimitsUsable, RangesFixed DEF AcceptedIsRunnable
<1> QED
  BY <1>1, AcceptedWellAlways, PTL

-----------------------------------------------------------------------------
\* The properties of the client.

\* What maps some of K to W.
Maps(K, W) == UNION {[S -> W] : S \in SUBSET K}

\* Setting a key changes its value and no other.
LEMMA SetAdds ==
    ASSUME NEW K, NEW W, NEW map \in Maps(K, W), NEW key \in K, NEW value \in W
    PROVE  /\ Set(key, value, map) \in Maps(K, W)
           /\ DOMAIN Set(key, value, map) = {key} \cup DOMAIN map
           /\ Set(key, value, map)[key] = value
           /\ \A k \in DOMAIN map \ {key} : Set(key, value, map)[k] = map[k]
<1>1. Set(key, value, map) =
          [x \in {key} \cup DOMAIN map |-> IF x = key THEN value ELSE map[x]]
  BY DEF Set, Overlaid
<1>2. PICK S \in SUBSET K : map \in [S -> W]
  BY DEF Maps
<1>3. Set(key, value, map) \in [{key} \cup S -> W] /\ {key} \cup S \in SUBSET K
  BY <1>1, <1>2
<1> QED
  BY <1>1, <1>3 DEF Maps

LEMMA EmptyMap == ASSUME NEW K, NEW W PROVE <<>> \in Maps(K, W) /\ DOMAIN <<>> = {}
<1>1. <<>> \in [{} -> W]
  OBVIOUS
<1> QED
  BY <1>1 DEF Maps

\* The lines that count are lines of the file.
LEMMA LinesAreLines ==
    ASSUME NEW list, IsList(list)
    PROVE  FoldLeft(AddLine, <<>>, list) \in Seq(Range(list))
<1> DEFINE n == Len(list)
           V == Seq(Range(list))
           F == [a \in V \X (1..n) |-> AddLine(a[1], list[a[2]])]
<1>1. n \in Nat /\ DOMAIN list = 1..n /\ <<>> \in V
  BY DEF IsList
<1> HIDE DEF n
<1>2. ASSUME NEW a \in V, NEW k \in 1..n PROVE AddLine(a, list[k]) \in V
  <2>1. list[k] \in Range(list)
    BY <1>1 DEF Range
  <2>2. Append(a, list[k]) \in V
    BY <2>1
  <2> HIDE DEF V
  <2> QED
    BY <2>2 DEF AddLine
<1>3. F \in Steps(V, n) /\ \A a \in V, k \in 1..n : F[<<a, k>>] = AddLine(a, list[k])
  <2> HIDE DEF V
  <2> QED
    BY <1>2 DEF Steps
<1>4. PICK h \in [SUBSET (1..n) -> V] : IsFold(h, <<>>, n, F)
  <2> HIDE DEF V, F
  <2> QED
    BY <1>1, <1>3, Iterates
<1> DEFINE E(f) == f = [t \in SUBSET (1..n) |->
                          IF t = {} THEN <<>> ELSE AddLine(f[t \ {Max(t)}], list[Max(t)])]
<1>7. E(h)
  <2> HIDE DEF V, F
  <2> SUFFICES ASSUME NEW t \in SUBSET (1..n)
               PROVE  h[t] = IF t = {} THEN <<>> ELSE AddLine(h[t \ {Max(t)}], list[Max(t)])
    OBVIOUS
  <2>1. CASE t = {}
    BY <1>4, <2>1 DEF IsFold
  <2>2. CASE t # {}
    <3>1. Max(t) \in 1..n /\ t \ {Max(t)} \in SUBSET (1..n)
      BY <1>1, <2>2, LargestIn
    <3>2. h[t] = F[<<h[t \ {Max(t)}], Max(t)>>] /\ h[t \ {Max(t)}] \in V
      BY <1>4, <2>2, <3>1 DEF IsFold
    <3> QED
      BY <1>3, <2>2, <3>1, <3>2
  <2> QED
    BY <2>1, <2>2
<1> DEFINE iter == CHOOSE f : E(f)
<1>8. E(iter)
  <2> HIDE DEF E
  <2> QED
    BY <1>7
<1>9. FoldLeft(AddLine, <<>>, list) = iter[1..n]
  BY <1>1 DEF FoldLeft, MapThenFoldSet
<1> HIDE DEF iter, V
<1>10. iter = h
  <2>1. OfPlaces(iter, n) /\ OfPlaces(h, n)
    BY <1>8 DEF OfPlaces
  <2>2. Alike(iter, h, n)
    <3>1. ASSUME NEW f, E(f), NEW t \in SUBSET (1..n)
          PROVE  f[t] = IF t = {} THEN <<>> ELSE AddLine(f[t \ {Max(t)}], list[Max(t)])
      BY <3>1
    <3> HIDE DEF E
    <3>2. iter[{}] = h[{}]
      BY <1>7, <1>8, <3>1
    <3>3. ASSUME NEW t \in SUBSET (1..n), t # {}, iter[t \ {Max(t)}] = h[t \ {Max(t)}]
          PROVE  iter[t] = h[t]
      <4>1. iter[t] = AddLine(iter[t \ {Max(t)}], list[Max(t)])
        BY <1>8, <3>1, <3>3
      <4>2. h[t] = AddLine(h[t \ {Max(t)}], list[Max(t)])
        BY <1>7, <3>1, <3>3
      <4> QED
        BY <3>3, <4>1, <4>2
    <3> QED
      BY <3>2, <3>3 DEF Alike
  <2> HIDE DEF E
  <2> QED
    BY <1>1, <2>1, <2>2, SameFold
<1>11. h[1..n] \in V
  OBVIOUS
<1> QED
  BY <1>9, <1>10, <1>11 DEF V

Keys(list) == {list[i].key : i \in DOMAIN list}
Values(list) == {list[i].value : i \in DOMAIN list}
IsPropertyRun(g, list) ==
    /\ g[0] = <<>>
    /\ \A k \in 1..Len(list) : g[k] = AddProperty(g[k - 1], list[k])
    /\ FoldLeft(AddProperty, <<>>, list) = g[Len(list)]

\* Properties are taken one after the other.
LEMMA PropertyRuns ==
    ASSUME NEW list, IsList(list)
    PROVE  \E g \in [0..Len(list) -> Maps(Keys(list), Values(list))] : IsPropertyRun(g, list)
<1> DEFINE n == Len(list)
           V == Maps(Keys(list), Values(list))
<1> DEFINE F == [a \in V \X (1..n) |-> AddProperty(a[1], list[a[2]])]
<1>1. n \in Nat /\ DOMAIN list = 1..n /\ <<>> \in V
  BY EmptyMap DEF IsList
<1> HIDE DEF n, V
<1>2. ASSUME NEW a \in V, NEW k \in 1..n PROVE AddProperty(a, list[k]) \in V
  <2>1. list[k].key \in Keys(list) /\ list[k].value \in Values(list)
    BY <1>1 DEF Keys, Values
  <2> QED
    BY <2>1, SetAdds DEF AddProperty, V
<1>3. F \in Steps(V, n) /\ \A a \in V, k \in 1..n : F[<<a, k>>] = AddProperty(a, list[k])
  BY <1>2 DEF Steps
<1>4. PICK h \in [SUBSET (1..n) -> V] : IsFold(h, <<>>, n, F)
  <2> HIDE DEF F
  <2> QED
    BY <1>1, <1>3, Iterates
<1>5. PICK g \in [0..n -> V] : IsRun(g, <<>>, n, F, h[1..n])
  <2> HIDE DEF F
  <2> QED
    BY <1>1, <1>4, Runs
<1>6. ASSUME NEW k \in 1..n PROVE g[k] = AddProperty(g[k - 1], list[k])
  <2> HIDE DEF F
  <2>1. g[k - 1] \in V
    BY <1>1
  <2> QED
    BY <1>3, <1>5, <2>1 DEF IsRun
<1> DEFINE E(f) == f = [t \in SUBSET (1..n) |->
                          IF t = {} THEN <<>> ELSE AddProperty(f[t \ {Max(t)}], list[Max(t)])]
<1>7. E(h)
  <2> HIDE DEF F
  <2> SUFFICES ASSUME NEW t \in SUBSET (1..n)
               PROVE  h[t] = IF t = {} THEN <<>> ELSE AddProperty(h[t \ {Max(t)}], list[Max(t)])
    OBVIOUS
  <2>1. CASE t = {}
    BY <1>4, <2>1 DEF IsFold
  <2>2. CASE t # {}
    <3>1. Max(t) \in 1..n /\ t \ {Max(t)} \in SUBSET (1..n)
      BY <1>1, <2>2, LargestIn
    <3>2. h[t] = F[<<h[t \ {Max(t)}], Max(t)>>] /\ h[t \ {Max(t)}] \in V
      BY <1>4, <2>2, <3>1 DEF IsFold
    <3> QED
      BY <1>3, <2>2, <3>1, <3>2
  <2> QED
    BY <2>1, <2>2
<1> DEFINE iter == CHOOSE f : E(f)
<1>8. E(iter)
  <2> HIDE DEF E
  <2> QED
    BY <1>7
<1>9. FoldLeft(AddProperty, <<>>, list) = iter[1..n]
  BY <1>1 DEF FoldLeft, MapThenFoldSet
<1> HIDE DEF iter
<1>10. iter = h
  <2>1. OfPlaces(iter, n) /\ OfPlaces(h, n)
    BY <1>8 DEF OfPlaces
  <2>2. Alike(iter, h, n)
    <3>1. ASSUME NEW f, E(f), NEW t \in SUBSET (1..n)
          PROVE  f[t] = IF t = {} THEN <<>> ELSE AddProperty(f[t \ {Max(t)}], list[Max(t)])
      BY <3>1
    <3> HIDE DEF E
    <3>2. iter[{}] = h[{}]
      BY <1>7, <1>8, <3>1
    <3>3. ASSUME NEW t \in SUBSET (1..n), t # {}, iter[t \ {Max(t)}] = h[t \ {Max(t)}]
          PROVE  iter[t] = h[t]
      <4>1. iter[t] = AddProperty(iter[t \ {Max(t)}], list[Max(t)])
        BY <1>8, <3>1, <3>3
      <4>2. h[t] = AddProperty(h[t \ {Max(t)}], list[Max(t)])
        BY <1>7, <3>1, <3>3
      <4> QED
        BY <3>3, <4>1, <4>2
    <3> QED
      BY <3>2, <3>3 DEF Alike
  <2> HIDE DEF E
  <2> QED
    BY <1>1, <2>1, <2>2, SameFold
<1> QED
  BY <1>5, <1>6, <1>9, <1>10 DEF IsRun, IsPropertyRun, n, V

\* The last place where a key is named.
IsLast(list, i) == \A j \in DOMAIN list : list[j].key = list[i].key => j <= i

LastWith(list, key) ==
    CHOOSE i \in DOMAIN list :
        list[i].key = key /\ \A j \in DOMAIN list : list[j].key = key => j <= i

LEMMA HasLast ==
    ASSUME NEW list, IsList(list), NEW key, \E i \in DOMAIN list : list[i].key = key
    PROVE  LET i == LastWith(list, key) IN
           i \in DOMAIN list /\ list[i].key = key /\ IsLast(list, i)
<1> DEFINE With == {i \in DOMAIN list : list[i].key = key}
<1>1. Len(list) \in Nat /\ DOMAIN list = 1..Len(list) /\ With # {}
  BY DEF IsList
<1>2. Max(With) \in With /\ \A i \in With : Max(With) >= i
  <2>1. With \in SUBSET (1..Len(list))
    BY <1>1
  <2> HIDE DEF With
  <2> QED
    BY <1>1, <2>1, LargestIn
<1>3. \E i \in DOMAIN list : list[i].key = key /\ IsLast(list, i)
  <2> DEFINE i == Max(With)
  <2>1. i \in With /\ \A j \in With : i >= j
    BY <1>2
  <2> HIDE DEF i
  <2>2. i \in DOMAIN list /\ list[i].key = key /\ i \in Nat
    BY <1>1, <2>1
  <2>3. ASSUME NEW j \in DOMAIN list, list[j].key = key PROVE j <= i
    <3>1. j \in With /\ j \in Nat
      BY <1>1, <2>3
    <3> QED
      BY <2>1, <2>2, <3>1
  <2> QED
    BY <2>2, <2>3 DEF IsLast
<1> QED
  BY <1>3 DEF LastWith, IsLast

\* The properties of a list are those it names, each as it was said last.
LEMMA LastCounts ==
    ASSUME NEW list, IsList(list), NEW map, map = FoldLeft(AddProperty, <<>>, list)
    PROVE  /\ map = [key \in DOMAIN map |-> map[key]]
           /\ DOMAIN map = {list[i].key : i \in DOMAIN list}
           /\ \A i \in DOMAIN list : IsLast(list, i) => map[list[i].key] = list[i].value
<1> DEFINE n == Len(list)
           V == Maps(Keys(list), Values(list))
<1>1. n \in Nat /\ DOMAIN list = 1..n
  BY DEF IsList
<1>2. PICK g \in [0..n -> V] : IsPropertyRun(g, list)
  BY PropertyRuns
<1>7. map = g[n]
  BY <1>2 DEF IsPropertyRun
<1> DEFINE Told(k) == /\ DOMAIN g[k] = {list[i].key : i \in 1..k}
                      /\ \A i \in 1..k :
                            (\A j \in 1..k : list[j].key = list[i].key => j <= i)
                               => g[k][list[i].key] = list[i].value
           Good == {k \in 0..n : Told(k)}
<1> HIDE DEF n, V
<1>3. 0 \in Good
  <2>1. DOMAIN g[0] = {} /\ 1..0 = {} /\ 0 \in 0..n
    BY <1>1, <1>2, EmptyMap DEF IsPropertyRun
  <2>2. {list[i].key : i \in 1..0} = {}
    BY <2>1
  <2> QED
    BY <2>1, <2>2
<1>4. ASSUME NEW k \in 1..n, k - 1 \in Good PROVE k \in Good
  <2>1. k \in 0..n /\ k - 1 \in 0..n /\ k \in DOMAIN list /\ Told(k - 1)
    BY <1>1, <1>4
  <2>2. g[k - 1] \in V /\ list[k].key \in Keys(list) /\ list[k].value \in Values(list)
    BY <1>1, <1>2, <2>1 DEF Keys, Values
  <2>3. /\ DOMAIN g[k] = {list[k].key} \cup DOMAIN g[k - 1]
        /\ g[k][list[k].key] = list[k].value
        /\ \A x \in DOMAIN g[k - 1] \ {list[k].key} : g[k][x] = g[k - 1][x]
    <3>1. g[k] = Set(list[k].key, list[k].value, g[k - 1])
      BY <1>2 DEF AddProperty, IsPropertyRun, n
    <3> DEFINE word == list[k].key
               value == list[k].value
               before == g[k - 1]
    <3> HIDE DEF Told, word, value, before
    <3>2. Set(word, value, before) =
              [x \in {word} \cup DOMAIN before |-> IF x = word THEN value ELSE before[x]]
      BY DEF Set, Overlaid
    <3>3. /\ DOMAIN Set(word, value, before) = {word} \cup DOMAIN before
          /\ Set(word, value, before)[word] = value
          /\ \A x \in DOMAIN before \ {word} : Set(word, value, before)[x] = before[x]
      BY <3>2
    <3> QED
      BY <3>1, <3>3 DEF word, value, before
  <2>4. DOMAIN g[k] = {list[i].key : i \in 1..k}
    <3>1. 1..k = (1..(k - 1)) \cup {k}
      BY <1>1
    <3> QED
      BY <2>1, <2>3, <3>1
  <2>5. ASSUME NEW i \in 1..k, \A j \in 1..k : list[j].key = list[i].key => j <= i
        PROVE  g[k][list[i].key] = list[i].value
    <3>1. CASE i = k
      BY <2>3, <3>1
    <3>2. CASE i # k
      <4>1. i \in 1..(k - 1) /\ list[k].key # list[i].key /\ 1..(k - 1) \subseteq 1..k
        BY <1>1, <2>5, <3>2
      <4>2. g[k - 1][list[i].key] = list[i].value /\ list[i].key \in DOMAIN g[k - 1]
        BY <2>1, <2>5, <4>1
      <4> QED
        BY <2>3, <4>1, <4>2
    <3> QED
      BY <3>1, <3>2
  <2> QED
    BY <2>1, <2>4, <2>5
<1>5. n \in Good
  <2> HIDE DEF Good
  <2> QED
    BY <1>1, <1>3, <1>4, Climbs
<1>6. map = [key \in DOMAIN map |-> map[key]]
  <2>1. map \in V
    BY <1>1, <1>2, <1>7
  <2> QED
    BY <2>1 DEF V, Maps
<1> QED
  BY <1>1, <1>7, <1>5, <1>6 DEF IsLast

LEMMA Listed == ASSUME NEW S, NEW s \in Seq(S) PROVE IsList(s)
<1>1. Len(s) \in Nat /\ s \in [1..Len(s) -> Range(s)]
  BY DEF Range
<1> QED
  BY <1>1, SeqDef DEF IsList

\* What the file and the options say, key by key.
LEMMA WordsAreLast ==
    ASSUME raw \in Requests
    PROVE  /\ Given(raw) = [key \in DOMAIN Given(raw) |-> Given(raw)[key]]
           /\ DOMAIN Given(raw) = UserKeys
           /\ \A key \in UserKeys : Given(raw)[key] = LastWord(key)
<1> DEFINE L == Lines(raw)
           P == raw.properties
           all == L \o P
           given == Given(raw)
<1>1. IsList(P)
  BY RequestsAssumption
<1>2. IsList(L)
  <2>1. CASE raw.file = None
    <3>1. L = <<>> /\ <<>> \in Seq({})
      BY <2>1 DEF Lines
    <3> HIDE DEF L
    <3> QED
      BY <3>1, Listed
  <2>2. CASE raw.file # None
    <3>1. IsList(raw.file.lines)
      BY <2>2, RequestsAssumption
    <3>2. L \in Seq(Range(raw.file.lines))
      BY <2>2, <3>1, LinesAreLines DEF Lines
    <3> HIDE DEF L
    <3> QED
      BY <3>2, Listed
  <2> QED
    BY <2>1, <2>2
<1>3. given = FoldLeft(AddProperty, <<>>, all)
  BY DEF Given
<1> HIDE DEF L, P, given
<1>4. /\ Len(L) \in Nat /\ DOMAIN L = 1..Len(L) /\ Len(P) \in Nat /\ DOMAIN P = 1..Len(P)
      /\ DOMAIN all = 1..(Len(L) + Len(P))
      /\ \A i \in DOMAIN L : all[i] = L[i]
      /\ \A i \in DOMAIN P : all[Len(L) + i] = P[i]
      /\ all \in Seq(Range(L) \cup Range(P))
  <2>1. L \in Seq(Range(L) \cup Range(P)) /\ P \in Seq(Range(L) \cup Range(P))
    <3>1. L \in Seq(Range(L)) /\ P \in Seq(Range(P))
      BY <1>1, <1>2 DEF IsList
    <3> QED
      BY <3>1
  <2> QED
    BY <2>1
<1>5. IsList(all)
  <2> HIDE DEF all
  <2> QED
    BY <1>4, Listed
<1>6. /\ given = [key \in DOMAIN given |-> given[key]]
      /\ DOMAIN given = {all[i].key : i \in DOMAIN all}
      /\ \A i \in DOMAIN all : IsLast(all, i) => given[all[i].key] = all[i].value
  <2> HIDE DEF all
  <2> QED
    BY <1>3, <1>5, LastCounts
<1> HIDE DEF all
<1>7. DOMAIN given = UserKeys
  <2>1. UserKeys = {L[i].key : i \in DOMAIN L} \cup {P[i].key : i \in DOMAIN P}
    BY DEF UserKeys, L, P
  <2>2. ASSUME NEW i \in DOMAIN all
        PROVE  i \in DOMAIN L \/ \E j \in DOMAIN P : i = Len(L) + j
    <3>1. CASE i <= Len(L)
      BY <1>4, <3>1
    <3>2. CASE i > Len(L)
      <4>1. i - Len(L) \in DOMAIN P /\ i = Len(L) + (i - Len(L))
        BY <1>4, <3>2
      <4> QED
        BY <4>1
    <3> QED
      BY <1>4, <3>1, <3>2
  <2>3. ASSUME NEW j \in DOMAIN P PROVE Len(L) + j \in DOMAIN all
    BY <1>4
  <2>4. DOMAIN L \subseteq DOMAIN all
    BY <1>4
  <2>5. UserKeys \subseteq DOMAIN given
    BY <1>4, <1>6, <2>1, <2>3, <2>4
  <2>6. ASSUME NEW i \in DOMAIN all PROVE all[i].key \in UserKeys
    BY <1>4, <2>1, <2>2
  <2> QED
    BY <1>6, <2>5, <2>6
<1>8. ASSUME NEW key \in UserKeys PROVE given[key] = LastWord(key)
  <2> DEFINE last(list) == list[LastWith(list, key)].value
             Said == \E i \in DOMAIN P : P[i].key = key
  <2>1. LastWord(key) = IF Said THEN last(P) ELSE last(L)
    BY DEF LastWord, LastWith, L, P
  <2>2. CASE Said
    <3>1. PICK i \in DOMAIN P : P[i].key = key /\ IsLast(P, i) /\ P[i].value = last(P)
      BY <1>1, <2>2, HasLast
    <3>2. Len(L) + i \in DOMAIN all /\ all[Len(L) + i] = P[i]
      BY <1>4
    <3>3. IsLast(all, Len(L) + i)
      <4> SUFFICES ASSUME NEW j \in DOMAIN all, all[j].key = key PROVE j <= Len(L) + i
        BY <3>1, <3>2 DEF IsLast
      <4>1. CASE j <= Len(L)
        BY <1>4, <4>1
      <4>2. CASE j > Len(L)
        <5>1. j - Len(L) \in DOMAIN P /\ j = Len(L) + (j - Len(L))
          BY <1>4, <4>2
        <5>2. P[j - Len(L)].key = key
          BY <1>4, <5>1
        <5>3. j - Len(L) <= i
          BY <3>1, <5>1, <5>2 DEF IsLast
        <5> QED
          BY <1>4, <5>3
      <4> QED
        BY <1>4, <4>1, <4>2
    <3> HIDE DEF last
    <3> QED
      BY <1>6, <2>1, <2>2, <3>1, <3>2, <3>3
  <2>3. CASE ~Said
    <3>1. \E i \in DOMAIN L : L[i].key = key
      BY <2>3 DEF UserKeys, L, P
    <3>2. PICK i \in DOMAIN L : L[i].key = key /\ IsLast(L, i) /\ L[i].value = last(L)
      BY <1>2, <3>1, HasLast
    <3>3. i \in DOMAIN all /\ all[i] = L[i]
      BY <1>4
    <3>4. IsLast(all, i)
      <4> SUFFICES ASSUME NEW j \in DOMAIN all, all[j].key = key PROVE j <= i
        BY <3>2, <3>3 DEF IsLast
      <4>1. CASE j <= Len(L)
        BY <1>4, <3>2, <4>1 DEF IsLast
      <4>2. CASE j > Len(L)
        <5>1. j - Len(L) \in DOMAIN P /\ j = Len(L) + (j - Len(L))
          BY <1>4, <4>2
        <5> QED
          BY <1>4, <2>3, <5>1
      <4> QED
        BY <1>4, <4>1, <4>2
    <3> HIDE DEF last
    <3> QED
      BY <1>6, <2>1, <2>3, <3>2, <3>3, <3>4
  <2> QED
    BY <2>2, <2>3
<1> QED
  BY <1>6, <1>7, <1>8 DEF given

\* The client of an accepted run is configured with what the command line and the file say,
\* each key as it was said last, over the defaults of jkq and under what it relies on.
THEOREM SettingsAreLayered == Spec => []SettingsLayered
<1>1. AcceptedWell => SettingsLayered
  <2> SUFFICES ASSUME raw \in Requests, ~Refused(raw) PROVE SettingsLayered
    BY DEF AcceptedWell, SettingsLayered
  <2> DEFINE given == Given(raw)
             props == KafkaProperties(raw)
             settings == ClientSettings(props)
             others == [k \in DOMAIN given \ {Alias} |-> given[k]]
  <2>1. /\ DOMAIN given = UserKeys
        /\ \A key \in UserKeys : given[key] = LastWord(key)
    BY WordsAreLast
  <2>2. /\ DOMAIN given \cap Managed = {} /\ Servers \in DOMAIN props
        /\ raw.brokers = None => ~({Alias, Servers} \subseteq DOMAIN given)
    BY DEF Refused, PropertiesRefused
  <2>3. config.properties = props
    BY DEF config, Config
  <2>4. /\ DOMAIN props = (UserKeys \ {Alias}) \cup {Servers}
        /\ props[Servers] = IF raw.brokers # None THEN raw.brokers
                            ELSE LastWord(IF Alias \in UserKeys THEN Alias ELSE Servers)
        /\ \A key \in UserKeys \ {Alias, Servers} : props[key] = LastWord(key)
    <3>1. ASSUME NEW value
          PROVE  /\ DOMAIN Set(Servers, value, others) = {Servers} \cup DOMAIN others
                 /\ Set(Servers, value, others)[Servers] = value
                 /\ \A k \in DOMAIN others \ {Servers} : Set(Servers, value, others)[k] = others[k]
      <4>1. Set(Servers, value, others) =
                [x \in {Servers} \cup DOMAIN others |->
                    IF x = Servers THEN value ELSE others[x]]
        BY DEF Set, Overlaid
      <4> HIDE DEF others
      <4> QED
        BY <4>1
    <3>2. props = IF raw.brokers # None THEN Set(Servers, raw.brokers, others)
                  ELSE IF Alias \in DOMAIN given THEN Set(Servers, given[Alias], others)
                  ELSE others
      BY DEF KafkaProperties, Unset
    <3>3. /\ DOMAIN others = UserKeys \ {Alias} /\ Alias # Servers
          /\ \A k \in UserKeys \ {Alias} : others[k] = LastWord(k)
      BY <2>1 DEF Alias, Servers
    <3> HIDE DEF others, given, props
    <3>4. CASE raw.brokers # None
      BY <3>1, <3>2, <3>3, <3>4
    <3>5. CASE raw.brokers = None /\ Alias \in UserKeys
      <4>1. props = Set(Servers, LastWord(Alias), others)
        BY <2>1, <3>2, <3>5
      <4> QED
        BY <3>1, <3>3, <3>5, <4>1
    <3>6. CASE raw.brokers = None /\ Alias \notin UserKeys
      <4>1. props = others
        BY <2>1, <3>2, <3>6
      <4> QED
        BY <2>2, <3>3, <3>6, <4>1
    <3> QED
      BY <3>4, <3>5, <3>6
  <2>5. settings = [k \in Managed \cup (DOMAIN props \cup {"group.id", "fetch.queue.backoff.ms"}) |->
                      IF k \in Managed THEN Required[k]
                      ELSE IF k \in DOMAIN props THEN props[k] ELSE Defaults[k]]
    BY DEF ClientSettings, Overlaid, Required, Defaults
  <2>6. Servers \notin Managed
    BY DEF Servers, Managed
  <2>7. /\ settings["auto.offset.reset"] = <<"error">>
        /\ settings["enable.partition.eof"] = <<"true">>
        /\ settings["enable.auto.commit"] = <<"false">>
    <3> HIDE DEF settings
    <3> QED
      BY <2>5 DEF Managed, Required
  <2>8. /\ settings[Servers] = props[Servers]
        /\ \A key \in UserKeys \ {Alias, Servers} : settings[key] = props[key]
        /\ DOMAIN settings = Managed \cup (UserKeys \ {Alias})
                               \cup {Servers, "group.id", "fetch.queue.backoff.ms"}
    <3> HIDE DEF settings, props, given
    <3> QED
      BY <2>1, <2>2, <2>4, <2>5, <2>6
  <2> HIDE DEF settings, props, given
  <2> QED
    BY <2>3, <2>4, <2>7, <2>8 DEF SettingsLayered, settings
<1> QED
  BY <1>1, AcceptedWellAlways, PTL
=============================================================================
