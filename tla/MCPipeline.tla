----------------------------- MODULE MCPipeline -----------------------------
(***************************************************************************)
(* Instances of Pipeline for TLC.                                          *)
(***************************************************************************)
EXTENDS Pipeline

\* Two partitions of one poller, or of one poller each.
SharedAssigned == <<1, 1>>
SplitAssigned == <<1, 2>>

OrderedMode == {"ordered"}
OtherModes == {"unordered", "direct"}

TwoLogs == <<<<"emit", "emit">>, <<"drop", "emit">>>>

\* One partition is longer than the count per partition, one is shorter.
CountedLogs == <<<<"emit", "emit", "drop", "emit">>, <<"emit", "emit">>>>

\* A record to write on each side of one whose transform is fatal.
FatalLogs == <<<<"emit">>, <<"fatal", "emit">>>>

NoHeavy == {}
FirstHeavy == {<<1, 0>>}
NoFaults == {}
OnlySignal == {"signal"}
ThreadFaults == {"spawn", "panic", "kafka", "output"}
SpawnFaults == {"spawn", "kafka"}
=============================================================================
