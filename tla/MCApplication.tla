--------------------------- MODULE MCApplication ---------------------------
(***************************************************************************)
(* Application with command lines in groups, of which each varies options  *)
(* that meet each other. Those that are about resolve are only checked;    *)
(* the last group is run.                                                  *)
(***************************************************************************)
EXTENDS Application

Amount(number, unit) == [number |-> number, unit |-> unit]

Plain ==
    [topic |-> TRUE, partitions |-> <<>>, offsets |-> <<>>, endOffset |-> None,
     snapshot |-> FALSE, exitAtEnd |-> FALSE, count |-> None, countPerPartition |-> None,
     consumers |-> 1, sharding |-> FALSE, unordered |-> FALSE,
     maxRecords |-> 2, maxBytes |-> Amount(1, "KiB"), maxPerPartition |-> 2,
     envelope |-> FALSE, embedsJson |-> FALSE, onInvalidJson |-> None, compiles |-> TRUE,
     brokers |-> <<"b">>, file |-> None, properties |-> <<>>,
     unbuffered |-> FALSE, stats |-> FALSE, interval |-> None, check |-> TRUE]

UpTo(n, set) == UNION {[1..k -> set] : k \in 0..n}

Selections ==
    {[kind |-> "one", from |-> v, to |-> v] : v \in {None, -1, 0, 3}}
      \cup {[kind |-> "range", from |-> a, to |-> b] : a \in {None, 0, 1}, b \in {-1, 0, 2, 5}}
      \cup {[kind |-> "empty", from |-> None, to |-> None]}

PartitionRequests ==
    {[Plain EXCEPT !.partitions = args] :
        args \in {<<l>> : l \in UpTo(2, Selections)} \cup {<<<<s>>, <<t>>>> : s, t \in Selections}}

Offset(kind, value) == [kind |-> kind, value |-> value]

Offsets ==
    {Offset("beginning", None), Offset("end", None), Offset("s@", 5), Offset("s@", -1),
     Offset("e@", None), Offset("e@", 6), Offset("number", None), Offset("number", 0),
     Offset("number", -2), Offset("number", -I64Max - 1), Offset("number", I64Max + 1)}

RangeRequests ==
    {[Plain EXCEPT !.offsets = o, !.endOffset = e, !.snapshot = s, !.sharding = h,
                   !.unordered = u, !.countPerPartition = c] :
        o \in UpTo(2, Offsets), e \in {None, -1, 7}, s, h, u \in BOOLEAN, c \in {None, 1}}

LimitRequests ==
    {[Plain EXCEPT !.count = c, !.countPerPartition = p, !.consumers = n, !.maxRecords = r,
                   !.maxPerPartition = m] :
        c, p \in {None, 0, 1}, n \in {0, 1, 3, 4}, r, m \in 0..3}
      \cup
    {[Plain EXCEPT !.maxBytes = Amount(n, u), !.interval = i] :
        n \in {None, 0, 1, 3, UsizeMax + 1}, u \in {"plain", "KiB"},
        i \in {None} \cup {Amount(k, v) : k \in {None, 0, 1, 2, 3}, v \in {"ms", "s", "m", "none"}}}
      \cup
    {[Plain EXCEPT !.maxBytes = Amount(n, u)] : n \in 0..2, u \in {"MiB", "GiB"}}
      \cup
    {[Plain EXCEPT !.topic = t, !.compiles = c, !.envelope = e, !.embedsJson = j,
                   !.onInvalidJson = v] :
        t, c, e, j \in BOOLEAN, v \in {None, "fail", "pass"}}

Property(key, value) == [key |-> key, value |-> <<value>>]

Keys ==
    {"", Alias, Servers, "group.id", "enable.partition.eof", "fetch.message.max.bytes",
     "max.partition.fetch.bytes", "fetch.queue.backoff.ms", "unknown"}

File(lines) == [readable |-> TRUE, lines |-> lines]

PropertyRequests ==
    {[Plain EXCEPT !.brokers = b, !.file = f, !.properties = p] :
        b \in {None, <<"b">>, <<"b", "">>},
        f \in {None, [File(<<>>) EXCEPT !.readable = FALSE]}
                \cup {File(l) : l \in UpTo(1, {Property(k, "f") : k \in Keys \cup {"#"}})}
                \cup {File(<<Property(k, "f"), Property(Servers, "g")>>) : k \in Keys},
        p \in UpTo(1, {Property(k, "x") : k \in Keys \cup {"#"}})
                \cup {<<Property(k, "x"), Property(l, "y")>> : k, l \in Keys}}

\* Comments have no place among properties.
WellFormed(request) == \A i \in DOMAIN request.properties : request.properties[i].key # "#"

RunRequests ==
    {[Plain EXCEPT !.check = FALSE, !.exitAtEnd = e, !.unbuffered = u, !.interval = i] :
        e, u \in BOOLEAN, i \in {None, Amount(1, "s")}}
      \cup {[Plain EXCEPT !.check = FALSE, !.properties = <<Property("unknown", "x")>>]}

MCRequests ==
    PartitionRequests \cup RangeRequests \cup LimitRequests
      \cup {request \in PropertyRequests : WellFormed(request)} \cup RunRequests

MCDropped == {1}
MCUnknown == {"unknown"}
MCSinks == {"brokenPipe", "output"}
=============================================================================
