----------------------------- MODULE Consumers -----------------------------
(***************************************************************************)
(* How KafkaInput::prepare goes on once the ranges are assigned: it        *)
(* creates a client per consumer and wraps each in a FetchConsumer         *)
(* (src/src/kafka/fetch.rs) of native queues, any step of which may fail;  *)
(* then the clients are polled, and dropped one by one. What the client    *)
(* library does is external: it fetches as soon as partitions are          *)
(* assigned, into whatever queue they are forwarded to.                    *)
(***************************************************************************)
EXTENDS Sharding

CONSTANTS
    Built,      \* bound: the calls that go on to create consumers
    Low, High,  \* the startup watermarks of every partition
    BatchSize   \* BATCH_SIZE

ASSUME ConsumersAssumption ==
    /\ Built \subseteq Inputs
    /\ Low \in Nat /\ High \in Nat
    /\ BatchSize \in Nat \ {0}

VARIABLES
    phase,    \* of prepare
    building, \* the consumer that is created or wrapped next
    clients   \* each consumer's client and what refers into its memory

prepareVars == <<phase, building>>
allVars == <<vars, prepareVars, clients>>

NoClient ==
    [state |-> "none",
     queue |-> FALSE,     \* the fetch queue exists
     partitions |-> {},   \* partition queues held
     forwarded |-> {},    \* those that lead to the fetch queue
     assigned |-> FALSE,
     paused |-> {},
     fetched |-> FALSE,   \* a record waits in the fetch queue
     pending |-> 0,       \* messages extracted and not handed out
     handed |-> FALSE,    \* a NativeMessage lives
     combined |-> FALSE,  \* a record went to the event queue
     dropped |-> 0]       \* parts dropped so far

Consumers == {pieces[i].consumer : i \in DOMAIN pieces}
Pieces(c) == {pieces[i] : i \in {i \in DOMAIN pieces : pieces[i].consumer = c}}
Assignment(c) == {piece.partition : piece \in Pieces(c)}
Finished(c) == {piece.partition : piece \in {piece \in Pieces(c) : piece.start >= piece.end}}

PrepareInit ==
    /\ Init
    /\ phase = "open" /\ building = 1
    /\ clients = [c \in 0..(input.consumers - 1) |-> NoClient]

-----------------------------------------------------------------------------
\* prepare.

\* An error of any step. What exists by then is dropped.
Abort ==
    /\ phase' = "dropping"
    /\ UNCHANGED building

Open ==
    /\ phase = "open" /\ input \in Built
    /\ \/ /\ clients' = [clients EXCEPT ![0].state = "open"]
          /\ phase' = "check"
          /\ UNCHANGED building
       \/ Abort /\ UNCHANGED clients
    /\ UNCHANGED vars

Outside(range) ==
    \/ range.end > High
    \/ range.start < range.end /\ (range.start < Low \/ range.start > High)

Check ==
    /\ phase = "check"
    /\ IF input.sharding /\ \E p \in Partitions : Outside(Ranges[p])
       THEN Abort
       ELSE phase' = "assign" /\ UNCHANGED building
    /\ UNCHANGED <<vars, clients>>

\* The calls outside Built are only divided.
Divide ==
    /\ phase = "assign" \/ (phase = "open" /\ input \notin Built)
    /\ AssignRange \/ AssignShard
    /\ UNCHANGED <<prepareVars, clients>>

CreateConsumers ==
    /\ phase = "assign" /\ Returned
    /\ phase' = "create"
    /\ UNCHANGED <<vars, building, clients>>

CreateConsumer ==
    /\ phase = "create" /\ building \in Consumers
    /\ \/ /\ clients' = [clients EXCEPT ![building].state = "open"]
          /\ building' = building + 1
          /\ UNCHANGED phase
       \/ Abort /\ UNCHANGED clients
    /\ UNCHANGED vars

AssignConsumers ==
    /\ phase = "create" /\ building \notin Consumers
    /\ phase' = "build"
    /\ building' = 0
    /\ UNCHANGED <<vars, clients>>

-----------------------------------------------------------------------------
\* FetchConsumer::new for the consumer that is built.

Client == clients[building]
Building == phase = "build" /\ building \in Consumers

NewQueue ==
    /\ Building /\ ~Client.queue
    /\ \/ clients' = [clients EXCEPT ![building].queue = TRUE] /\ UNCHANGED prepareVars
       \/ Abort /\ UNCHANGED clients
    /\ UNCHANGED vars

GetPartition(p) ==
    /\ Building /\ Client.queue /\ p \in Assignment(building) \ Client.partitions
    /\ Client.partitions = Client.forwarded
    /\ \/ /\ clients' = [clients EXCEPT ![building].partitions = @ \cup {p}]
          /\ UNCHANGED prepareVars
       \/ Abort /\ UNCHANGED clients
    /\ UNCHANGED vars

Forward(p) ==
    /\ Building /\ p \in Client.partitions \ Client.forwarded
    /\ clients' = [clients EXCEPT ![building].forwarded = @ \cup {p}]
    /\ UNCHANGED <<vars, prepareVars>>

Assign ==
    /\ Building /\ Client.forwarded = Assignment(building) /\ ~Client.assigned
    /\ \/ clients' = [clients EXCEPT ![building].assigned = TRUE] /\ UNCHANGED prepareVars
       \/ Abort /\ UNCHANGED clients
    /\ UNCHANGED vars

Pause(p) ==
    /\ Building /\ Client.assigned /\ p \in Finished(building) \ Client.paused
    /\ \/ clients' = [clients EXCEPT ![building].paused = @ \cup {p}] /\ UNCHANGED prepareVars
       \/ Abort /\ UNCHANGED clients
    /\ UNCHANGED vars

BuildNext ==
    /\ Building /\ Client.assigned /\ Client.paused = Finished(building)
    /\ building' = building + 1
    /\ phase' = IF building + 1 \in Consumers THEN "build" ELSE "polling"
    /\ UNCHANGED <<vars, clients>>

-----------------------------------------------------------------------------
\* The client library, and a consumer on its thread.

Fetch(c) ==
    /\ clients[c].state \in {"open", "dropping"} /\ clients[c].assigned
    /\ \E p \in Assignment(c) \ clients[c].paused :
          clients' = IF p \in clients[c].forwarded THEN [clients EXCEPT ![c].fetched = TRUE]
                                                   ELSE [clients EXCEPT ![c].combined = TRUE]
    /\ UNCHANGED <<vars, prepareVars>>

Polls(c) == phase = "polling" /\ clients[c].state = "open" /\ ~clients[c].handed

Extract(c) ==
    /\ Polls(c) /\ clients[c].pending = 0 /\ clients[c].fetched
    /\ \E n \in 1..BatchSize :
          clients' = [clients EXCEPT ![c].pending = n, ![c].fetched = FALSE]
    /\ UNCHANGED <<vars, prepareVars>>

Hand(c) ==
    /\ Polls(c) /\ clients[c].pending > 0
    /\ clients' = [clients EXCEPT ![c].pending = @ - 1, ![c].handed = TRUE]
    /\ UNCHANGED <<vars, prepareVars>>

DropMessage(c) ==
    /\ clients[c].handed
    /\ clients' = [clients EXCEPT ![c].handed = FALSE]
    /\ UNCHANGED <<vars, prepareVars>>

-----------------------------------------------------------------------------
\* Dropping.

\* Mutant: the client is declared before the queues.
ClientFirst == <<"pending", "forwarding", "client", "partitions", "queue">>

\* The body of Drop, and then the fields in the order they are declared.
DropOrder == <<"pending", "forwarding", "partitions", "queue", "client">>

Without(client, part) ==
    CASE part = "pending" -> [client EXCEPT !.pending = 0]
      [] part = "forwarding" -> [client EXCEPT !.forwarded = {}]
      [] part = "partitions" -> [client EXCEPT !.partitions = {}]
      [] part = "queue" -> [client EXCEPT !.queue = FALSE, !.fetched = FALSE]
      [] part = "client" -> [client EXCEPT !.state = "closed"]

\* The poller's thread returns, or prepare failed.
BeginDrop(c) ==
    /\ Polls(c) \/ (phase = "dropping" /\ clients[c].state = "open")
    /\ clients' = [clients EXCEPT ![c].state = "dropping"]
    /\ UNCHANGED <<vars, prepareVars>>

DropPart(c) ==
    /\ clients[c].state \in {"dropping", "closed"} /\ clients[c].dropped < Len(DropOrder)
    /\ LET n == clients[c].dropped + 1 IN
       clients' = [clients EXCEPT ![c] = [Without(@, DropOrder[n]) EXCEPT !.dropped = n]]
    /\ UNCHANGED <<vars, prepareVars>>

PrepareOver ==
    /\ \/ input \notin Built /\ Returned
       \/ /\ phase \in {"dropping", "polling"}
          /\ \A c \in DOMAIN clients :
                clients[c].state = "none" \/ clients[c].dropped = Len(DropOrder)
    /\ UNCHANGED allVars

Construct ==
    \/ NewQueue \/ Assign \/ BuildNext
    \/ \E p \in Partitions : GetPartition(p) \/ Forward(p) \/ Pause(p)

Use(c) == Fetch(c) \/ Extract(c) \/ Hand(c) \/ DropMessage(c)

PrepareNext ==
    \/ Open \/ Check \/ Divide \/ CreateConsumers \/ CreateConsumer \/ AssignConsumers
    \/ Construct
    \/ \E c \in DOMAIN clients : Use(c) \/ BeginDrop(c) \/ DropPart(c)
    \/ PrepareOver

PrepareSpec == PrepareInit /\ [][PrepareNext]_allVars

-----------------------------------------------------------------------------

Referred(c) ==
    clients[c].queue \/ clients[c].partitions # {} \/ clients[c].forwarded # {}
      \/ clients[c].pending > 0 \/ clients[c].handed

\* However far prepare got before a step failed, and whatever a poller has extracted
\* when it returns: no queue, forwarding or message is left when the client that
\* owns their memory goes, and a fetch queue is not destroyed while partitions lead
\* to it. Until a consumer is dropped, none of its records goes to the event queue,
\* where poll takes one for a fatal error.
NothingOutlivesItsClient ==
    \A c \in DOMAIN clients :
        /\ clients[c].state \in {"none", "closed"} => ~Referred(c)
        /\ clients[c].forwarded # {} => clients[c].queue
        /\ clients[c].combined => clients[c].state \in {"dropping", "closed"}
=============================================================================
