---------------------------- MODULE MCKafkaInput ----------------------------
(***************************************************************************)
(* KafkaInput with two partitions, whose logs grow by an offset each.       *)
(***************************************************************************)
EXTENDS KafkaInput

At(kind, at) == [kind |-> kind, at |-> at]
Request(s, e, exit, count, continue) ==
    [start |-> s, end |-> e, exitAtEnd |-> exit, count |-> count, continue |-> continue]

MCPartitions == 1..2
MCStartHigh == <<2, 1>>
MCMaxHigh == <<3, 2>>
MCMaxLow == <<1, 0>>

\* The last offset of partition 1 holds no record: only an end event tells that
\* the range is complete.
MCInvisible == {<<1, 2>>}
MCBad == {<<1, 0>>}
MCTime == [p \in MCPartitions |-> [o \in 0..(MCMaxHigh[p] - 1) |-> o + p]]

\* An end of the command line implies exitAtEnd.
MCRequests == {
    Request(At("beginning", 0), At("none", 0), TRUE, 0, TRUE),
    Request(At("beginning", 0), At("none", 0), FALSE, 2, FALSE),
    Request(At("beginning", 0), At("snapshot", 0), TRUE, 0, TRUE),
    Request(At("absolute", 1), At("exclusive", 2), TRUE, 0, TRUE),
    Request(At("absolute", 2), At("snapshot", 0), TRUE, 0, TRUE),
    Request(At("relative", 1), At("exclusive", 2), TRUE, 1, TRUE),
    Request(At("timestamp", 3), At("none", 0), TRUE, 0, TRUE),
    Request(At("end", 0), At("timestamp", 4), TRUE, 0, TRUE)}
=============================================================================
