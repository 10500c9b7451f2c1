----------------------------- MODULE MCPayloads -----------------------------
(***************************************************************************)
(* Payloads with records that meet each way through execute_report and     *)
(* have each kind of metadata.                                             *)
(***************************************************************************)
EXTENDS Payloads

MCBytes(data, length, utf8) == [data |-> data, length |-> length, utf8 |-> utf8]

Text1 == MCBytes("text", 2, TRUE)
Binary == MCBytes("binary", 2, FALSE)
Empty == MCBytes("empty", 0, TRUE)

MCHeader(value) == [name |-> "header", value |-> value]
MCTimestamp(value, kind) == [value |-> value, kind |-> kind]

Record(payload, size, utf8, verdicts, result, resultSize, key, timestamp, headers) ==
    [payload |-> payload, size |-> size, utf8 |-> utf8, verdicts |-> verdicts,
     result |-> result, resultSize |-> resultSize, key |-> key, timestamp |-> timestamp,
     headers |-> headers]

MCLog == <<
    Record("valid", 2, TRUE, <<"false", "false", "error">>, "value", 3,
           Text1, MCTimestamp(7, "createTime"), <<MCHeader(Text1), MCHeader(None)>>),
    Record("valid", 1, TRUE, <<"false", "true", "error">>, "error", 3,
           None, MCTimestamp(-1, "createTime"), None),
    Record(None, 0, TRUE, <<>>, "value", 0,
           Binary, MCTimestamp(8, "logAppendTime"), <<MCHeader(Binary)>>),
    Record("valid", 3, TRUE, <<"error", "false", "false">>, "value", 1,
           Empty, MCTimestamp(9, "notAvailable"), <<>>),
    Record("invalid", 1, FALSE, <<>>, "value", 0,
           Text1, MCTimestamp(-1, "notAvailable"), <<MCHeader(Empty)>>)
  >>

MCChunks == (DOMAIN MCLog) \X {"source", "result"}
MCCapacities == 1..3

MCFormat(format, payloadFormat) ==
    [envelope |-> FALSE, format |-> format, payloadFormat |-> payloadFormat]

MCEnvelope == [envelope |-> TRUE, format |-> <<"%s", "\\n">>, payloadFormat |-> None]

Request(drops, tombstones, drop, projects, embeds, invalid, eval, output) ==
    [drops |-> drops, tombstones |-> tombstones, dropTombstones |-> drop,
     projects |-> projects, embedsJson |-> embeds, onInvalidJson |-> invalid,
     onEvalError |-> eval, output |-> output]

\* Each plan with another line.
MCRequests == {
    Request(0, 0, FALSE, FALSE, FALSE, None, "fail",
            MCFormat(<<"%k", "\\x00", "%T", "%%", "a">>, None)),
    Request(0, 0, TRUE, FALSE, FALSE, None, "fail",
            MCFormat(<<"%p", "%s", "b">>, <<"%h", "%K", "%%", "%L">>)),
    Request(0, 0, FALSE, FALSE, FALSE, "pass", "fail", MCFormat(<<"%R", "%s">>, None)),
    Request(0, 0, FALSE, FALSE, TRUE, "drop", "fail", MCEnvelope),
    Request(0, 0, FALSE, FALSE, TRUE, "pass", "fail", MCEnvelope),
    Request(0, 0, FALSE, FALSE, TRUE, None, "fail", MCEnvelope),
    Request(0, 0, TRUE, TRUE, FALSE, "drop", "drop",
            MCFormat(<<"%o", "%S", "%s", "%R">>, <<"%s">>)),
    Request(0, 0, FALSE, TRUE, TRUE, "tombstone", "tombstone", MCEnvelope),
    Request(2, 1, FALSE, FALSE, FALSE, "pass", "drop",
            MCFormat(<<"%a", "%t", "%S", "%s">>, <<"%R", "%s">>)),
    Request(1, 1, TRUE, FALSE, TRUE, "drop", "tombstone", MCEnvelope),
    Request(1, 1, FALSE, TRUE, FALSE, None, "fail", MCFormat(<<"%?", "%s">>, None)),
    Request(1, 1, FALSE, TRUE, FALSE, None, "fail",
            MCFormat(<<"%h", "%L", "%S">>, <<"%T", "%s", "\\n">>)),
    Request(0, 2, FALSE, TRUE, FALSE, "tombstone", "drop",
            MCFormat(<<"%K", "%s", "\\t">>, None)),
    Request(0, 0, FALSE, FALSE, FALSE, None, "fail", MCEnvelope)
  }
=============================================================================
