------------------------------ MODULE Resolve -------------------------------
(***************************************************************************)
(* The command line (src/src/cli.rs): which ones resolve accepts, and the  *)
(* configuration that follows. Text is taken as split: a partition         *)
(* selection is its bounds, a property its key and value, a size its       *)
(* number and unit, and None stands for what does not parse as a number of *)
(* any width. Of the configuration it models what is read after start-up;  *)
(* the transform and output plans are in Payloads and Format.              *)
(***************************************************************************)
EXTENDS Integers, SequencesExt

CONSTANTS
    None,           \* no value, or one that does not parse
    I32Max, I64Max, U64Max, U128Max, UsizeMax,
    MaxPartitions,  \* MAX_ASSIGNED_PARTITIONS
    MaxConsumers    \* MAX_CONSUMERS

ASSUME WidthsAssumption ==
    /\ {I32Max, I64Max, U64Max, U128Max, UsizeMax} \subseteq Nat
    /\ MaxPartitions \in Nat \ {0} /\ MaxConsumers \in Nat \ {0}

-----------------------------------------------------------------------------
\* Partitions: each -p has several selections.

\* parse_partition
IsPartition(value) == value # None /\ value \in 0..I32Max

SelectionParses(selection) ==
    /\ selection.kind # "empty"
    /\ IsPartition(selection.from) /\ IsPartition(selection.to)
    /\ selection.from <= selection.to

SelectsAgain(list, selection) ==
    \E i \in DOMAIN list : list[i] \in selection.from..selection.to

\* parse_partitions: one more selection, or None.
AddSelection(list, selection) ==
    IF \/ list = None \/ ~SelectionParses(selection)
       \/ Len(list) + (selection.to - selection.from + 1) > MaxPartitions
       \/ SelectsAgain(list, selection)
    THEN None
    ELSE list \o [i \in 1..(selection.to - selection.from + 1) |-> selection.from + i - 1]

Selected(raw) == FoldLeft(AddSelection, <<>>, FlattenSeq(raw.partitions))

-----------------------------------------------------------------------------
\* Offsets.

Boundary(kind, value) == [kind |-> kind, value |-> value]
NoValue(kind) == Boundary(kind, None)

IsNonnegative(value) == value # None /\ value \in 0..I64Max
IsI64(value) == value # None /\ value \in -(I64Max + 1)..I64Max

StartOf(offset) ==
    CASE offset.kind \in {"beginning", "end"} -> NoValue(offset.kind)
      [] offset.kind = "s@" -> Boundary("timestamp", offset.value)
      [] offset.kind = "number" ->
            IF offset.value < 0 THEN Boundary("relative", -offset.value)
                                ELSE Boundary("absolute", offset.value)

OffsetParses(offset) ==
    CASE offset.kind \in {"s@", "e@"} -> IsNonnegative(offset.value)
      [] offset.kind = "number" -> IsI64(offset.value)
      [] OTHER -> TRUE

\* resolve_offsets: one more -o, or None.
AddOffset(found, offset) ==
    IF \/ found = None \/ ~OffsetParses(offset)
       \/ (IF offset.kind = "e@" THEN found.end ELSE found.start) # None
    THEN None
    ELSE IF offset.kind = "e@"
         THEN [found EXCEPT !.end = Boundary("timestamp", offset.value)]
         ELSE [found EXCEPT !.start = StartOf(offset)]

Boundaries(raw) ==
    IF raw.endOffset # None /\ raw.endOffset < 0 THEN None
    ELSE FoldLeft(AddOffset,
                  [start |-> None,
                   end |-> IF raw.endOffset = None THEN None
                                                   ELSE Boundary("offset", raw.endOffset)],
                  raw.offsets)

EndOf(raw) == IF raw.snapshot THEN NoValue("snapshot") ELSE Boundaries(raw).end

-----------------------------------------------------------------------------
\* Sizes and durations, whose products may exceed their width.

Milliseconds == [ms |-> 1, s |-> 1000, m |-> 60000]
Bytes == [plain |-> 1, KiB |-> 1024, MiB |-> 1024 * 1024, GiB |-> 1024 * 1024 * 1024]

Product(amount, units, max) ==
    IF \/ amount.unit \notin DOMAIN units \/ amount.number = None
       \/ amount.number \notin 0..max
       \/ amount.number > max \div units[amount.unit]
    THEN None
    ELSE amount.number * units[amount.unit]

\* parse_duration
ParseDuration(amount) ==
    LET milliseconds == Product(amount, Milliseconds, U64Max) IN
    IF milliseconds = 0 THEN None ELSE milliseconds

\* parse_size
ParseSize(amount) ==
    LET bytes == Product(amount, Bytes, U128Max) IN
    IF bytes # None /\ bytes > UsizeMax THEN None ELSE bytes

-----------------------------------------------------------------------------
\* Properties of the Kafka client.

Managed ==
    {"auto.offset.reset", "enable.auto.commit", "enable.auto.offset.store",
     "enable.partition.eof"}

\* What map has where others have it too.
Overlaid(map, others) ==
    [k \in DOMAIN map \union DOMAIN others |-> IF k \in DOMAIN map THEN map[k] ELSE others[k]]

Set(key, value, map) == Overlaid([k \in {key} |-> value], map)
Unset(key, map) == [k \in DOMAIN map \ {key} |-> map[k]]

\* parse_property, which refuses a line without "=" or without a key.
PropertyParses(property) == property.key # ""

\* parse_config: one more line, unless it is blank or a comment.
AddLine(list, line) == IF line.key = "#" THEN list ELSE Append(list, line)

Lines(raw) == IF raw.file = None THEN <<>> ELSE FoldLeft(AddLine, <<>>, raw.file.lines)

AddProperty(map, property) == Set(property.key, property.value, map)

\* Mutant: the file comes after the properties.
GivenFileLast(raw) == FoldLeft(AddProperty, <<>>, raw.properties \o Lines(raw))

\* What the file and the properties say, the last word counts.
Given(raw) == FoldLeft(AddProperty, <<>>, Lines(raw) \o raw.properties)

Alias == "metadata.broker.list"
Servers == "bootstrap.servers"

KafkaProperties(raw) ==
    LET given == Given(raw)
        others == Unset(Alias, given) IN
    IF raw.brokers # None THEN Set(Servers, raw.brokers, others)
    ELSE IF Alias \in DOMAIN given THEN Set(Servers, given[Alias], others)
    ELSE others

PropertiesRefused(raw) ==
    \/ raw.file # None /\ ~raw.file.readable
    \/ \E i \in DOMAIN Lines(raw) : ~PropertyParses(Lines(raw)[i])
    \/ \E i \in DOMAIN raw.properties : ~PropertyParses(raw.properties[i])
    \/ DOMAIN Given(raw) \cap Managed # {}
    \/ {"fetch.message.max.bytes", "max.partition.fetch.bytes"} \subseteq DOMAIN Given(raw)
    \/ raw.brokers = None /\ {Alias, Servers} \subseteq DOMAIN Given(raw)
    \/ Servers \notin DOMAIN KafkaProperties(raw)
    \/ "" \in Range(KafkaProperties(raw)[Servers])

\* consumer_config, which lets no property change what is managed.
Required ==
    [k \in Managed |-> CASE k = "auto.offset.reset" -> <<"error">>
                         [] k = "enable.partition.eof" -> <<"true">>
                         [] OTHER -> <<"false">>]
Defaults ==
    [k \in {"group.id", "fetch.queue.backoff.ms"} |->
        IF k = "group.id" THEN <<"jkq">> ELSE <<"100">>]

ClientSettings(properties) == Overlaid(Required, Overlaid(properties, Defaults))

-----------------------------------------------------------------------------
\* RawCli::resolve, after what clap itself refuses.

ClapRefuses(raw) ==
    \/ raw.count # None /\ raw.countPerPartition # None
    \/ raw.embedsJson /\ ~raw.envelope
    \/ ParseSize(raw.maxBytes) = None
    \/ raw.interval # None /\ ParseDuration(raw.interval) = None

LimitsRefused(raw) ==
    \/ raw.count = 0 \/ raw.countPerPartition = 0
    \/ raw.consumers = 0 \/ raw.consumers > MaxConsumers
    \/ raw.maxRecords = 0 \/ ParseSize(raw.maxBytes) = 0 \/ raw.maxPerPartition = 0
    \/ raw.maxPerPartition > raw.maxRecords

ShardingRefused(raw) ==
    raw.sharding /\ (~raw.unordered \/ EndOf(raw) = None \/ raw.countPerPartition # None)

Refused(raw) ==
    \/ ClapRefuses(raw)
    \/ ~raw.topic
    \/ Selected(raw) = None
    \/ LimitsRefused(raw)
    \/ Boundaries(raw) = None
    \/ raw.snapshot /\ Boundaries(raw).end # None
    \/ ShardingRefused(raw)
    \/ raw.embedsJson /\ raw.onInvalidJson = "pass"
    \/ ~raw.compiles
    \/ PropertiesRefused(raw)

Config(raw) ==
    [partitions |-> Selected(raw),
     start |-> IF Boundaries(raw).start = None THEN NoValue("beginning")
                                               ELSE Boundaries(raw).start,
     end |-> EndOf(raw),
     exitAtEnd |-> raw.exitAtEnd \/ EndOf(raw) # None,
     consumers |-> raw.consumers, sharding |-> raw.sharding,
     maxRecords |-> raw.maxRecords, maxBytes |-> ParseSize(raw.maxBytes),
     maxPerPartition |-> raw.maxPerPartition,
     properties |-> KafkaProperties(raw),
     unbuffered |-> raw.unbuffered,
     stats |-> raw.stats \/ raw.interval # None,
     interval |-> IF raw.interval = None THEN None ELSE ParseDuration(raw.interval),
     check |-> raw.check]

-----------------------------------------------------------------------------
\* What prepare and run_pipeline make of a configuration.

\* Mutant: an absolute start never needs watermarks.
WatermarksOfStart(config) ==
    CASE config.start.kind = "beginning" -> config.end # None
      [] config.start.kind = "absolute" -> FALSE
      [] OTHER -> TRUE

\* watermarks_required
WatermarksRequired(config) ==
    CASE config.start.kind = "beginning" -> config.end # None
      [] config.start.kind = "absolute" ->
            config.end # None /\ config.end.kind \in {"timestamp", "snapshot"}
      [] OTHER -> TRUE

WatermarksFetched(config) == config.sharding \/ WatermarksRequired(config)

\* Where prepare expects them.
WatermarksExpected(config) ==
    \/ config.start.kind \in {"timestamp", "end", "relative"}
    \/ config.end # None /\ config.end.kind \in {"timestamp", "snapshot"}
    \/ config.sharding

\* The start becomes an offset, and not the client's own beginning.
StartIsFixed(config) == config.start.kind = "beginning" => WatermarksFetched(config)

Divided(a, b) == (a + b - 1) \div b
Less(a, b) == IF a > b THEN a - b ELSE 0
Larger(a, b) == IF a > b THEN a ELSE b
Smaller(a, b) == IF a < b THEN a ELSE b

EvaluatorCount(parallelism, pollers, maxInflight) ==
    Smaller(Larger(Larger(Less(parallelism, pollers + 1), Divided(parallelism, 2)), 1),
            maxInflight)
=============================================================================
