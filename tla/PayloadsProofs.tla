--------------------------- MODULE PayloadsProofs ---------------------------
(***************************************************************************)
(* Proofs about PayloadPool, for any limits, any allocator and any copies  *)
(* and returns; about Payloads, for any records, command lines and         *)
(* failures; and about Format, for any formats: first who has which vector *)
(* and which record, then the totals, then what a compiled format writes,  *)
(* and last the lines and the bytes of a run.                              *)
(***************************************************************************)
EXTENDS Payloads, ListTheorems

-----------------------------------------------------------------------------
\* The pool.

IInv ==
    /\ free \in Seq(Buffer)
    /\ PoolExact

\* The units of one spare vector.
UnitsOf(i, n) == {<<i, unit>> : unit \in 1..n}

LEMMA UnitsOfCount ==
    ASSUME NEW i, NEW n \in Nat
    PROVE  IsFiniteSet(UnitsOf(i, n)) /\ Cardinality(UnitsOf(i, n)) = n
<1>1. IsFiniteSet(1..n) /\ Cardinality(1..n) = n
  BY FS_Interval
<1> DEFINE f == [unit \in 1..n |-> <<i, unit>>]
<1>2. f \in Bijection(1..n, UnitsOf(i, n))
  <2>1. f \in [1..n -> UnitsOf(i, n)]
    BY DEF UnitsOf
  <2>2. IsInjective(f)
    BY DEF IsInjective
  <2>3. \A u \in UnitsOf(i, n) : \E unit \in 1..n : f[unit] = u
    BY DEF UnitsOf
  <2> QED
    BY <2>1, <2>2, <2>3 DEF Bijection, Injection, Surjection
<1>3. ExistsBijection(1..n, UnitsOf(i, n))
  BY <1>2 DEF ExistsBijection
<1> QED
  BY <1>1, <1>3, FS_Bijection

\* Units of a pool: those of its vectors, all of them finite in number.
LEMMA UnitsFinite ==
    ASSUME free \in Seq(Buffer)
    PROVE  IsFiniteSet(Units)
<1>1. DOMAIN free = 1..Len(free) /\ Len(free) \in Nat
  OBVIOUS
<1>2. IsFiniteSet(1..Len(free)) /\ IsFiniteSet(1..MaxBuffer)
  BY <1>1, PoolAssumption, FS_Interval
<1>3. IsFiniteSet((DOMAIN free) \X (1..MaxBuffer))
  BY <1>1, <1>2, FS_Product
<1> QED
  BY <1>3, FS_Subset DEF Units

\* A vector is taken from the end, and its units with it.
LEMMA CopyStep ==
    ASSUME IInv, NEW length \in Nat, Copy(length)
    PROVE  IInv'
<1>1. CASE length > MaxBuffer \/ free = <<>>
  <2>1. Spare(length) = NewBuffer
    BY <1>1 DEF Spare
  <2>2. free' = free
    BY <1>1 DEF Copy, IInv
  <2>3. capacity' = capacity
    BY <2>1 DEF Copy, NewBuffer, IInv, PoolExact
  <2> QED
    BY <2>2, <2>3 DEF IInv, PoolExact, Units
<1>2. CASE ~(length > MaxBuffer \/ free = <<>>)
  <2> DEFINE n == Len(free)
             c == free[n].capacity
  <2>1. n \in Nat \ {0} /\ DOMAIN free = 1..n /\ n \in DOMAIN free
    BY <1>2 DEF IInv
  <2>2. free' = SubSeq(free, 1, n - 1) /\ capacity' = capacity - c
    BY <1>2 DEF Copy, Spare
  <2>3. /\ free' \in Seq(Buffer) /\ Len(free') = n - 1 /\ DOMAIN (free') = 1..(n - 1)
        /\ \A i \in 1..(n - 1) : free'[i] = free[i]
    BY <2>1, <2>2 DEF IInv
  <2>4. c \in 1..MaxBuffer /\ c \in Nat
    BY <2>1, PoolAssumption DEF IInv, PoolExact
  <2>5. Units' = Units \ UnitsOf(n, c)
    <3>1. Units' = {u \in (1..(n - 1)) \X (1..MaxBuffer) : u[2] <= free[u[1]].capacity}
      BY <2>1, <2>3 DEF Units
    <3>2. Units = {u \in (1..n) \X (1..MaxBuffer) : u[2] <= free[u[1]].capacity}
      BY <2>1 DEF Units
    <3> QED
      BY <3>1, <3>2, <2>1, <2>4, PoolAssumption DEF UnitsOf
  <2>6. UnitsOf(n, c) \subseteq Units
    BY <2>1, <2>4, PoolAssumption DEF Units, UnitsOf
  <2>7. IsFiniteSet(Units) /\ IsFiniteSet(UnitsOf(n, c)) /\ Cardinality(UnitsOf(n, c)) = c
    BY <2>1, <2>4, UnitsFinite, UnitsOfCount DEF IInv
  <2>8. Cardinality(Units') = Cardinality(Units) - c
    <3>1. Units \cap UnitsOf(n, c) = UnitsOf(n, c)
      BY <2>6
    <3>2. Cardinality(Units \ UnitsOf(n, c))
            = Cardinality(Units) - Cardinality(Units \cap UnitsOf(n, c))
      BY <2>7, FS_Difference
    <3> QED
      BY <2>5, <2>7, <3>1, <3>2
  <2>9. c <= Cardinality(Units)
    BY <2>6, <2>7, FS_Subset
  <2> QED
    BY <2>1, <2>2, <2>3, <2>4, <2>8, <2>9, PoolAssumption, SMTT(30) DEF IInv, PoolExact
<1> QED
  BY <1>1, <1>2

\* A vector that is kept goes to the end, cleared, and its units are new.
LEMMA RecycleStep ==
    ASSUME IInv, NEW buffer \in Buffer, Recycle(buffer)
    PROVE  IInv'
<1>1. CASE ~Keeps(buffer)
  BY <1>1 DEF Recycle, poolVars, IInv, PoolExact, Units
<1>2. CASE Keeps(buffer)
  <2> DEFINE n == Len(free) + 1
             c == buffer.capacity
  <2>1. Len(free) \in Nat /\ n \in Nat \ {0} /\ DOMAIN free = 1..(n - 1)
    BY DEF IInv
  <2>2. c \in 1..MaxBuffer /\ c \in Nat /\ Len(free) + 1 <= MaxRecords /\ capacity + c <= MaxBytes
    <3>1. c \in Nat /\ c # 0 /\ c <= MaxBuffer /\ Len(free) # MaxRecords /\ c <= MaxBytes - capacity
      BY <1>2 DEF Keeps, Buffer
    <3>2. capacity \in 0..MaxBytes /\ Len(free) <= MaxRecords
      BY DEF IInv, PoolExact
    <3>3. Len(free) \in Nat /\ MaxRecords \in Nat /\ MaxBytes \in Nat /\ MaxBuffer \in Nat
      BY <2>1, PoolAssumption
    <3>4. Len(free) + 1 <= MaxRecords
      BY <3>1, <3>2, <3>3
    <3> HIDE DEF c
    <3>5. capacity + c <= MaxBytes
      BY <3>1, <3>2, <3>3
    <3> QED
      BY <3>1, <3>3, <3>4, <3>5
  <2>3. Cleared(buffer) = [capacity |-> c, data |-> <<>>] /\ Cleared(buffer) \in Buffer
    <3>1. buffer = [capacity |-> c, data |-> buffer.data] /\ c \in Nat
      BY DEF Buffer
    <3>2. Cleared(buffer) = [capacity |-> c, data |-> <<>>]
      BY <3>1 DEF Cleared
    <3>3. <<>> \in Seq(Chunks)
      OBVIOUS
    <3> QED
      BY <3>1, <3>2, <3>3 DEF Buffer
  <2>4. free' = Append(free, Cleared(buffer)) /\ capacity' = capacity + c
    BY <1>2 DEF Recycle
  <2>5. /\ free' \in Seq(Buffer) /\ Len(free') = n /\ DOMAIN (free') = 1..n
        /\ free'[n] = Cleared(buffer) /\ \A i \in 1..(n - 1) : free'[i] = free[i]
    BY <2>1, <2>3, <2>4 DEF IInv
  <2>6. Units' = Units \cup UnitsOf(n, c)
    <3>1. Units' = {u \in (1..n) \X (1..MaxBuffer) : u[2] <= free'[u[1]].capacity}
      BY <2>5 DEF Units
    <3>2. Units = {u \in (1..(n - 1)) \X (1..MaxBuffer) : u[2] <= free[u[1]].capacity}
      BY <2>1 DEF Units
    <3>3. free'[n].capacity = c
      BY <2>3, <2>5
    <3> QED
      BY <3>1, <3>2, <3>3, <2>1, <2>2, <2>5, PoolAssumption DEF UnitsOf
  <2>7. Units \cap UnitsOf(n, c) = {}
    BY <2>1 DEF Units, UnitsOf
  <2>8. IsFiniteSet(Units) /\ IsFiniteSet(UnitsOf(n, c)) /\ Cardinality(UnitsOf(n, c)) = c
    BY <2>1, <2>2, UnitsFinite, UnitsOfCount DEF IInv
  <2>9. Cardinality(Units') = Cardinality(Units) + c
    <3>1. Cardinality({}) = 0
      BY FS_EmptySet
    <3>2. Cardinality(Units \cup UnitsOf(n, c)) = Cardinality(Units) + Cardinality(UnitsOf(n, c))
                                                   - Cardinality(Units \cap UnitsOf(n, c))
      BY <2>8, FS_Union
    <3>3. Cardinality(Units) \in Nat /\ Cardinality(Units \cap UnitsOf(n, c)) = 0
      BY <2>7, <2>8, <3>1, FS_CardinalityType
    <3> QED
      BY <2>2, <2>6, <2>8, <3>2, <3>3
  <2> QED
    BY <2>1, <2>2, <2>3, <2>4, <2>5, <2>9, PoolAssumption DEF IInv, PoolExact
<1> QED
  BY <1>1, <1>2

LEMMA PoolStart == PoolInit => IInv
<1> SUFFICES ASSUME PoolInit PROVE IInv
  OBVIOUS
<1>1. Units = {}
  BY DEF PoolInit, Units
<1>2. Cardinality({}) = 0
  BY FS_EmptySet
<1> QED
  BY <1>1, <1>2, PoolAssumption DEF PoolInit, IInv, PoolExact

LEMMA PoolInvariant == PoolSpec => []IInv
<1>1. PoolInit => IInv
  BY PoolStart
<1>2. IInv /\ [PoolNext]_poolVars => IInv'
  <2> SUFFICES ASSUME IInv, [PoolNext]_poolVars PROVE IInv'
    OBVIOUS
  <2>1. CASE UNCHANGED poolVars
    BY <2>1 DEF poolVars, IInv, PoolExact, Units
  <2>2. CASE PoolNext
    BY <2>2, CopyStep, RecycleStep DEF PoolNext
  <2> QED
    BY <2>1, <2>2
<1> QED
  BY <1>1, <1>2, PTL DEF PoolSpec

\* However vectors are taken, grown, swapped and returned, PayloadBuffers counts
\* its capacity exactly, never wraps, stays within its limits and hands out
\* empty vectors only.
THEOREM PoolStaysExact == PoolSpec => []PoolExact
<1>1. IInv => PoolExact
  BY DEF IInv
<1> QED
  BY <1>1, PoolInvariant, PTL

-----------------------------------------------------------------------------
\* The invariant of Payloads.

\* Records are admitted in order, taken by the worker in order, and decided in order.
Entered == polled - (IF pending = None THEN 0 ELSE 1)
Reached == Entered - Len(work)
Decided == Reached - (IF current = None THEN 0 ELSE 1)

Counters == {"admitted", "sourceTombstones", "drop", "tombstone", "pass", "project",
             "invalid", "evaluation", "output", "inputBytes", "outputBytes"}

Typed ==
    /\ options \in Requests /\ Accepts(options)
    /\ polled \in 0..Len(Log)
    /\ work \in Seq(Items) /\ released \in Seq(Buffer \union {None})
    /\ scratch \in Buffer /\ index \in Nat \ {0}
    /\ stats = [c \in Counters |-> stats[c]]

\* An item carries the metadata and the bytes of its own record.
Carries(item, i) ==
    /\ item \in Items
    /\ item.record = i /\ item.metadata = Metadata(i)
    /\ IF Log[i].payload = None THEN item.payload = None
       ELSE item.payload \in Buffer /\ item.payload.data = <<SourceOf(i)>>

Placed ==
    /\ Decided \in Nat
    /\ pending # None => Carries(pending, polled)
    /\ \A k \in DOMAIN work : Carries(work[k], Reached + k)
    /\ current # None => Carries(current, Reached)
    /\ work # <<>> \/ current # None => ParsesJson

\* A worker has come to a predicate because all before it were false.
Evaluated ==
    current # None /\ Log[Reached].payload = "valid" =>
        /\ index \in 1..(Predicates + 1)
        /\ \A p \in 1..(index - 1) : Log[Reached].verdicts[p] = "false"

\* A completion has the action promised and the bytes that go with it, and the
\* source's storage in one of two places.
Completed(c) ==
    /\ c.record \in 1..Decided /\ c.metadata = Metadata(c.record)
    /\ c.action \in {"panic", Promised(c.record)}
    /\ IF Log[c.record].payload = None THEN c.bytes = None /\ c.spare = None
       ELSE \/ c.bytes \in Buffer /\ c.spare = None
            \/ c.bytes = None /\ c.spare \in Buffer
    /\ c.action # "panic" =>
          PromisedData(c.record) = IF c.bytes = None THEN <<>> ELSE c.bytes.data

CompletedWell ==
    /\ IsFiniteSet(completed)
    /\ \A c \in completed : Completed(c)
    /\ \A c, d \in completed : c.record = d.record => c = d

\* The line of a record, from what is kept of its metadata and its own bytes.
OwnRecord(i) ==
    OutputRecord(i, Metadata(i), Promised(i), PayloadOf(i, Promised(i), PromisedData(i)))
OwnLine(i) == LineOf(OwnRecord(i))

WrittenWell ==
    /\ IsFiniteSet(written)
    /\ \A w \in written :
          /\ w.record \in 1..Decided /\ Promised(w.record) \notin {"drop", "fatal"}
          /\ w = [record |-> w.record, action |-> Promised(w.record), line |-> OwnLine(w.record)]
          /\ \A c \in completed : c.record # w.record

\* No record is lost on its way.
Accounted ==
    /\ failure # "form"
    /\ failure = None => \A i \in 1..Decided :
          \/ Promised(i) = "drop"
          \/ \E c \in completed : c.record = i
          \/ \E w \in written : w.record = i

Healthy == failure = None /\ \A c \in completed : c.action # "panic"
ScratchWell == Healthy => scratch.data = <<>> /\ scratch.capacity <= MaxBuffer

\* The records of which n are decided, by what is counted of them.
DecidedAs(n, actions) == {i \in 1..n : Promised(i) \in actions}
Generated(n) == {i \in DecidedAs(n, {"tombstone"}) : Log[i].payload # None}
Sources(n) == {i \in 1..n : Log[i].payload = None}

Counts ==
    /\ stats.admitted = Entered
    /\ stats.sourceTombstones = Cardinality(Sources(Entered))
    /\ stats.output = Cardinality(written)
    /\ Healthy =>
          /\ stats.drop = Cardinality(DecidedAs(Decided, {"drop"}))
          /\ stats.pass = Cardinality(DecidedAs(Decided, {"exact", "json"}))
          /\ stats.project = Cardinality(DecidedAs(Decided, {"project"}))
          /\ stats.tombstone = Cardinality(Generated(Decided))

PInv ==
    /\ IInv /\ Typed /\ Placed /\ Evaluated /\ CompletedWell /\ WrittenWell /\ Accounted
    /\ ScratchWell /\ Counts

-----------------------------------------------------------------------------
\* What a record is promised.

Actions == {"fatal", "drop", "tombstone", "exact", "json", "project"}

LEMMA LogFacts ==
    ASSUME NEW i \in DOMAIN Log
    PROVE  /\ i \in 1..Len(Log) /\ i \in Nat
           /\ Log[i].payload \in {None, "invalid", "valid"} /\ Log[i].size \in Nat
           /\ Log[i].resultSize \in Nat
           /\ SourceOf(i) \in Chunks /\ ResultOf(i) \in Chunks
           /\ Log[i].payload = "valid" =>
                \A v \in DOMAIN Log[i].verdicts : Log[i].verdicts[v] \in {"true", "false", "error"}
  BY LogAssumption DEF SourceOf, ResultOf

LEMMA OptionFacts ==
    ASSUME options \in Requests
    PROVE  /\ options.drops \in Nat /\ options.tombstones \in Nat /\ Predicates \in Nat
           /\ options.onInvalidJson \in {None, "fail", "pass", "drop", "tombstone"}
           /\ options.onEvalError \in {"fail", "drop", "tombstone"}
           /\ \A i \in DOMAIN Log : Log[i].payload = "valid" =>
                 1..Predicates \subseteq DOMAIN Log[i].verdicts
  BY RequestsAssumption DEF Predicates

LEMMA Nones ==
    /\ None # "invalid" /\ None # "valid" /\ None # "fail" /\ None # "pass" /\ None # "drop"
    /\ None # "tombstone" /\ None # "fatal" /\ None # "form" /\ None # "overflow" /\ None # "output"
    /\ None # "admitted" /\ None # "sourceTombstones" /\ None # "project"
    /\ None \notin Buffer /\ None \notin Items
  BY NoneAssumption

\* All that is promised depends on the record and the options alone.
LEMMA Same ==
    ASSUME UNCHANGED options
    PROVE  /\ \A i : Metadata(i)' = Metadata(i)
           /\ \A i : Promised(i)' = Promised(i)
           /\ \A i : PromisedData(i)' = PromisedData(i)
           /\ \A i : OwnLine(i)' = OwnLine(i)
           /\ ParsesJson' = ParsesJson /\ Predicates' = Predicates
<1>1. \A i : Metadata(i)' = Metadata(i)
  BY DEF Metadata, Kept, Charge
<1>2. ParsesJson' = ParsesJson /\ Predicates' = Predicates /\ InvalidPolicy' = InvalidPolicy
      /\ TombstoneAction' = TombstoneAction /\ ErrorAction' = ErrorAction
  BY DEF ParsesJson, Predicates, InvalidPolicy, TombstoneAction, ErrorAction
<1>3. \A i : Deciding(i)' = Deciding(i)
  BY <1>2 DEF Deciding
<1>4. \A i : Promised(i)' = Promised(i)
  BY <1>2, <1>3 DEF Promised
<1>5. \A i : PromisedData(i)' = PromisedData(i)
  BY <1>4 DEF PromisedData
<1>6. \A i : OwnRecord(i)' = OwnRecord(i)
  BY <1>1, <1>4, <1>5 DEF OwnRecord, OutputRecord, PayloadOf
<1>7. \A r : LineOf(r)' = LineOf(r)
  BY DEF LineOf, Outer, Stages, Stage, InnerOverflows, Staged
<1>8. \A i : OwnLine(i)' = OwnLine(i)
  BY <1>6, <1>7 DEF OwnLine
<1> QED
  BY <1>1, <1>2, <1>4, <1>5, <1>8

\* The first predicate that is not false decides.
LEMMA FirstDecides ==
    ASSUME options \in Requests, NEW i \in DOMAIN Log, Log[i].payload = "valid",
           NEW p \in 1..Predicates, \A q \in 1..(p - 1) : Log[i].verdicts[q] = "false",
           Log[i].verdicts[p] # "false"
    PROVE  Promised(i) = IF Log[i].verdicts[p] = "error" THEN ErrorAction
                         ELSE IF p <= options.drops THEN "drop" ELSE TombstoneAction
<1> DEFINE first == CHOOSE q \in Deciding(i) : \A r \in Deciding(i) : q <= r
<1>1. p \in Deciding(i) /\ \A q \in Deciding(i) : p <= q /\ q \in Nat /\ p \in Nat
  BY OptionFacts DEF Deciding
<1>2. first \in Deciding(i) /\ \A q \in Deciding(i) : first <= q
  BY <1>1
<1> HIDE DEF first
<1>3. first = p
  <2>1. first \in Nat /\ p \in Nat /\ p <= first /\ first <= p
    BY <1>1, <1>2
  <2> QED
    BY <2>1
<1>4. Deciding(i) # {}
  BY <1>1
<1>5. Log[i].payload # None /\ Log[i].payload # "invalid"
  BY Nones
<1> QED
  BY <1>3, <1>4, <1>5 DEF Promised, first

LEMMA NoneDecides ==
    ASSUME NEW i \in DOMAIN Log, Log[i].payload = "valid",
           \A q \in 1..Predicates : Log[i].verdicts[q] = "false"
    PROVE  Promised(i) = IF options.projects
                         THEN IF Log[i].result = "value" THEN "project" ELSE ErrorAction
                         ELSE IF options.embedsJson THEN "json" ELSE "exact"
<1>1. Deciding(i) = {}
  BY DEF Deciding
<1>2. Log[i].payload # None /\ Log[i].payload # "invalid"
  BY Nones
<1> QED
  BY <1>1, <1>2 DEF Promised

LEMMA NotParsed ==
    ASSUME NEW i \in DOMAIN Log, Log[i].payload # "valid"
    PROVE  Promised(i) =
             IF Log[i].payload = None THEN TombstoneAction
             ELSE IF ParsesJson THEN IF InvalidPolicy = "fail" THEN "fatal"
                                     ELSE IF InvalidPolicy = "pass" THEN "exact" ELSE InvalidPolicy
             ELSE IF options.embedsJson THEN "json" ELSE "exact"
<1>1. Log[i].payload = None \/ Log[i].payload = "invalid"
  BY LogFacts
<1> QED
  BY <1>1, Nones DEF Promised

\* Without anything to parse a payload passes as it is.
LEMMA PassesUnparsed ==
    ASSUME options \in Requests, NEW i \in DOMAIN Log, ~ParsesJson
    PROVE  Promised(i) = IF Log[i].payload = None THEN TombstoneAction ELSE "exact"
<1>1. ~options.projects /\ ~options.embedsJson /\ Predicates = 0
  BY OptionFacts DEF ParsesJson, Predicates
<1>2. CASE Log[i].payload = "valid"
  <2>1. \A q \in 1..Predicates : Log[i].verdicts[q] = "false"
    BY <1>1
  <2> QED
    BY <1>1, <1>2, <2>1, NoneDecides, Nones
<1> QED
  BY <1>1, <1>2, NotParsed

LEMMA PromisedKinds ==
    ASSUME options \in Requests, Accepts(options), NEW i \in DOMAIN Log
    PROVE  /\ Promised(i) \in Actions
           /\ Promised(i) = "exact" => ~options.embedsJson
           /\ Promised(i) = "json" => options.embedsJson
           /\ Log[i].payload = None => Promised(i) = TombstoneAction
<1>1. TombstoneAction \in {"drop", "tombstone"} /\ ErrorAction \in {"fatal", "drop", "tombstone"}
      /\ InvalidPolicy \in {"fail", "pass", "drop", "tombstone"}
  BY OptionFacts DEF TombstoneAction, ErrorAction, InvalidPolicy
<1>2. options.embedsJson => InvalidPolicy # "pass"
  BY DEF Accepts, InvalidPolicy
<1>3. CASE Log[i].payload = "valid" /\ Deciding(i) = {}
  <2>1. \A q \in 1..Predicates : Log[i].verdicts[q] = "false"
    BY <1>3 DEF Deciding
  <2> QED
    BY <1>1, <1>3, <2>1, NoneDecides, Nones DEF Actions
<1>4. CASE Log[i].payload = "valid" /\ Deciding(i) # {}
  BY <1>1, <1>4, Nones DEF Promised, Actions
<1>5. CASE Log[i].payload # "valid"
  <2>1. ~ParsesJson => ~options.embedsJson
    BY DEF ParsesJson
  <2> QED
    BY <1>1, <1>2, <1>5, <2>1, NotParsed DEF Actions
<1> QED
  BY <1>3, <1>4, <1>5
-----------------------------------------------------------------------------
\* Vectors and items.

LEMMA FilledFacts ==
    ASSUME NEW buffer \in Buffer, buffer.data = <<>>, NEW chunk \in Chunks, NEW length,
           NEW filled \in Filled(buffer, chunk, length)
    PROVE  filled \in Buffer /\ filled.data = <<chunk>> /\ filled # None
<1>1. PICK c \in IF length <= buffer.capacity THEN {buffer.capacity}
                                              ELSE {c \in Capacities : c >= length} :
        filled = [capacity |-> c, data |-> Append(buffer.data, chunk)]
  BY DEF Filled
<1>2. c \in Nat
  BY <1>1, PoolAssumption DEF Buffer
<1>3. Append(buffer.data, chunk) = <<chunk>> /\ <<chunk>> \in Seq(Chunks)
  OBVIOUS
<1>4. filled \in Buffer /\ filled.data = <<chunk>>
  BY <1>1, <1>2, <1>3 DEF Buffer
<1> QED
  BY <1>4, Nones

LEMMA VectorFacts ==
    /\ NewBuffer \in Buffer /\ NewBuffer.data = <<>> /\ NewBuffer.capacity = 0
    /\ \A buffer \in Buffer : /\ Cleared(buffer) \in Buffer /\ Cleared(buffer).data = <<>>
                              /\ Cleared(buffer).capacity = buffer.capacity
                              /\ buffer.capacity \in Nat
<1>1. <<>> \in Seq(Chunks)
  OBVIOUS
<1> QED
  BY <1>1 DEF NewBuffer, Buffer, Cleared

LEMMA SpareFacts ==
    ASSUME IInv, NEW length \in Nat
    PROVE  Spare(length) \in Buffer /\ Spare(length).data = <<>>
<1>1. CASE length > MaxBuffer \/ free = <<>>
  BY <1>1, VectorFacts DEF Spare
<1>2. CASE ~(length > MaxBuffer \/ free = <<>>)
  <2>1. Len(free) \in DOMAIN free /\ free[Len(free)] \in Buffer
    BY <1>2 DEF IInv
  <2> QED
    BY <1>2, <2>1 DEF Spare, IInv, PoolExact
<1> QED
  BY <1>1, <1>2

LEMMA PoolSame ==
    ASSUME IInv, UNCHANGED poolVars
    PROVE  IInv'
  BY DEF poolVars, IInv, PoolExact, Units

\* What is kept of a record makes an item.
LEMMA ItemOf ==
    ASSUME NEW i \in DOMAIN Log, NEW payload \in Buffer \union {None}
    PROVE  [record |-> i, metadata |-> Metadata(i), payload |-> payload] \in Items
<1>1. Kept("timestamp", TimestampOf(Log[i].timestamp), None)
        \in {None} \union {Log[j].timestamp : j \in DOMAIN Log}
  BY DEF Kept, TimestampOf
<1>2. Kept("key", Log[i].key, None) \in {None} \union {Log[j].key : j \in DOMAIN Log}
  BY DEF Kept
<1>3. Kept("headers", HeadersOf(i), <<>>) \in {<<>>} \union {HeadersOf(j) : j \in DOMAIN Log}
  BY DEF Kept
<1> DEFINE keys == {0} \union {SizeOf(Log[j].key) : j \in DOMAIN Log}
           headers == {0} \union {HeaderBytes(j) : j \in DOMAIN Log}
<1>4. Kept("key", SizeOf(Log[i].key), 0) \in keys
  BY DEF Kept
<1>5. Kept("headers", HeaderBytes(i), 0) \in headers
  BY DEF Kept
<1> HIDE DEF keys, headers
<1>6. Charge(i) \in {Log[j].size + k + h : j \in DOMAIN Log, k \in keys, h \in headers}
  BY <1>4, <1>5 DEF Charge
<1> QED
  BY <1>1, <1>2, <1>3, <1>6 DEF Items, Metadata, keys, headers

LEMMA CarriesFacts ==
    ASSUME NEW i \in DOMAIN Log, NEW item, Carries(item, i)
    PROVE  /\ item # None /\ item \in Items /\ item.record = i /\ item.metadata = Metadata(i)
           /\ item.payload = None <=> Log[i].payload = None
           /\ Log[i].payload # None => item.payload \in Buffer /\ item.payload.data = <<SourceOf(i)>>
  BY Nones DEF Carries

-----------------------------------------------------------------------------
\* Where the records are.

LEMMA Positions ==
    ASSUME PInv
    PROVE  /\ polled \in Nat /\ polled <= Len(Log) /\ Len(work) \in Nat
           /\ Len(Log) \in Nat /\ DOMAIN Log = 1..Len(Log) /\ DOMAIN work = 1..Len(work)
           /\ Entered \in Nat /\ Reached \in Nat /\ Decided \in Nat
           /\ Entered <= polled /\ Decided <= Reached
           /\ pending # None => Entered + 1 = polled
           /\ pending = None => Entered = polled
           /\ current # None => Decided + 1 = Reached
           /\ current = None => Decided = Reached
           /\ Reached + Len(work) = Entered
<1>1. polled \in Nat /\ polled <= Len(Log) /\ Len(work) \in Nat /\ DOMAIN work = 1..Len(work)
      /\ Len(Log) \in Nat /\ DOMAIN Log = 1..Len(Log) /\ Decided \in Nat
  BY LogAssumption DEF PInv, Typed, Placed
<1>2. /\ Entered = IF pending = None THEN polled ELSE polled - 1
      /\ Reached = Entered - Len(work)
      /\ Decided = IF current = None THEN Reached ELSE Reached - 1
  BY <1>1 DEF Entered, Reached, Decided
<1> DEFINE len == Len(work)
<1> HIDE DEF len
<1>3. Entered \in Int /\ Reached \in Int
  BY <1>1, <1>2
<1> QED
  BY <1>1, <1>2, <1>3

LEMMA CurrentFacts ==
    ASSUME PInv, current # None
    PROVE  /\ Reached \in DOMAIN Log /\ Reached = Decided + 1 /\ Carries(current, Reached)
           /\ current.record = Reached /\ current.metadata = Metadata(Reached)
           /\ current.payload = None <=> Log[Reached].payload = None
           /\ Log[Reached].payload # None =>
                current.payload \in Buffer /\ current.payload.data = <<SourceOf(Reached)>>
           /\ ParsesJson
<1>1. Carries(current, Reached) /\ ParsesJson
  BY DEF PInv, Placed
<1>2. Reached \in DOMAIN Log /\ Reached = Decided + 1
  BY Positions
<1> QED
  BY <1>1, <1>2, CarriesFacts
-----------------------------------------------------------------------------
\* Counting the records decided.

LEMMA Grows ==
    ASSUME NEW n \in Nat, NEW S \in SUBSET (1..n)
    PROVE  /\ IsFiniteSet(S) /\ Cardinality(S) \in Nat
           /\ Cardinality(S \union {n + 1}) = Cardinality(S) + 1
<1>1. IsFiniteSet(1..n)
  BY FS_Interval
<1>2. IsFiniteSet(S)
  BY <1>1, FS_Subset
<1>3. n + 1 \notin S
  OBVIOUS
<1>4. Cardinality(S \union {n + 1}) = Cardinality(S) + 1
  BY <1>2, <1>3, FS_AddElement
<1>5. Cardinality(S) \in Nat
  BY <1>2, FS_CardinalityType
<1> QED
  BY <1>2, <1>4, <1>5

LEMMA OneMore ==
    ASSUME NEW n \in Nat
    PROVE  /\ \A actions :
                /\ Cardinality(DecidedAs(n, actions)) \in Nat
                /\ Cardinality(DecidedAs(n + 1, actions))
                     = Cardinality(DecidedAs(n, actions)) + IF Promised(n + 1) \in actions THEN 1 ELSE 0
           /\ Cardinality(Generated(n)) \in Nat
           /\ Cardinality(Generated(n + 1))
                = Cardinality(Generated(n))
                    + IF Promised(n + 1) = "tombstone" /\ Log[n + 1].payload # None THEN 1 ELSE 0
           /\ Cardinality(Sources(n)) \in Nat
           /\ Cardinality(Sources(n + 1))
                = Cardinality(Sources(n)) + IF Log[n + 1].payload = None THEN 1 ELSE 0
<1>1. 1..(n + 1) = (1..n) \union {n + 1}
  OBVIOUS
<1>2. ASSUME NEW S, NEW T, S \subseteq 1..n, NEW b \in BOOLEAN,
             T = IF b THEN S \union {n + 1} ELSE S
      PROVE  Cardinality(S) \in Nat /\ Cardinality(T) = Cardinality(S) + IF b THEN 1 ELSE 0
  <2>1. Cardinality(S) \in Nat /\ Cardinality(S \union {n + 1}) = Cardinality(S) + 1
    BY <1>2, Grows
  <2>2. CASE b
    BY <1>2, <2>1, <2>2
  <2>3. CASE ~b
    BY <1>2, <2>1, <2>3
  <2> QED
    BY <2>2, <2>3
<1>3. ASSUME NEW actions
      PROVE  /\ Cardinality(DecidedAs(n, actions)) \in Nat
             /\ Cardinality(DecidedAs(n + 1, actions))
                  = Cardinality(DecidedAs(n, actions)) + IF Promised(n + 1) \in actions THEN 1 ELSE 0
  <2>1. DecidedAs(n, actions) \subseteq 1..n
    BY DEF DecidedAs
  <2>2. DecidedAs(n + 1, actions) = IF Promised(n + 1) \in actions
                                    THEN DecidedAs(n, actions) \union {n + 1} ELSE DecidedAs(n, actions)
    BY <1>1 DEF DecidedAs
  <2> QED
    BY <1>2, <2>1, <2>2
<1>4. /\ Cardinality(Generated(n)) \in Nat
      /\ Cardinality(Generated(n + 1))
           = Cardinality(Generated(n))
               + IF Promised(n + 1) = "tombstone" /\ Log[n + 1].payload # None THEN 1 ELSE 0
  <2>1. Generated(n) \subseteq 1..n
    BY DEF Generated, DecidedAs
  <2>2. Generated(n + 1) = IF Promised(n + 1) = "tombstone" /\ Log[n + 1].payload # None
                           THEN Generated(n) \union {n + 1} ELSE Generated(n)
    BY <1>1 DEF Generated, DecidedAs
  <2> QED
    BY <1>2, <2>1, <2>2
<1>5. /\ Cardinality(Sources(n)) \in Nat
      /\ Cardinality(Sources(n + 1))
           = Cardinality(Sources(n)) + IF Log[n + 1].payload = None THEN 1 ELSE 0
  <2>1. Sources(n) \subseteq 1..n
    BY DEF Sources
  <2>2. Sources(n + 1) = IF Log[n + 1].payload = None THEN Sources(n) \union {n + 1} ELSE Sources(n)
    BY <1>1 DEF Sources
  <2> QED
    BY <1>2, <2>1, <2>2
<1> QED
  BY <1>3, <1>4, <1>5

LEMMA CountedFacts ==
    ASSUME NEW s, s = [c \in Counters |-> s[c]], NEW i, NEW action \in Actions,
           NEW issue \in {None, "invalid", "evaluation"}
    PROVE  LET t == Counted(s, i, action, issue) IN
           /\ t = [c \in Counters |-> t[c]]
           /\ \A c \in {"admitted", "sourceTombstones", "output"} : s[c] \in Nat => t[c] = s[c]
           /\ t.drop = s.drop + IF action = "drop" THEN 1 ELSE 0
           /\ t.pass = s.pass + IF action \in {"exact", "json"} THEN 1 ELSE 0
           /\ t.project = s.project + IF action = "project" THEN 1 ELSE 0
           /\ t.tombstone = s.tombstone + IF action = "tombstone" /\ Log[i].payload # None THEN 1 ELSE 0
<1> DEFINE counter == CASE action \in {"exact", "json"} -> "pass" [] OTHER -> action
           t == Counted(s, i, action, issue)
<1>1. t = [c \in Counters |->
             s[c] + IF \/ c = issue
                       \/ c = counter /\ (action = "tombstone" => Log[i].payload # None)
                    THEN 1 ELSE 0]
  BY DEF Counted
<1>2. counter = IF action \in {"exact", "json"} THEN "pass" ELSE action
  OBVIOUS
<1> HIDE DEF counter, t
<1>3. \A c \in {"admitted", "sourceTombstones", "output"} : s[c] \in Nat => t[c] = s[c]
  BY <1>1, <1>2, Nones DEF Counters, Actions
<1>4. t.drop = s.drop + IF action = "drop" THEN 1 ELSE 0
  BY <1>1, <1>2, Nones DEF Counters, Actions
<1>5. t.pass = s.pass + IF action \in {"exact", "json"} THEN 1 ELSE 0
  BY <1>1, <1>2, Nones DEF Counters, Actions
<1>6. t.project = s.project + IF action = "project" THEN 1 ELSE 0
  BY <1>1, <1>2, Nones DEF Counters, Actions
<1>7. t.tombstone = s.tombstone + IF action = "tombstone" /\ Log[i].payload # None THEN 1 ELSE 0
  BY <1>1, <1>2, Nones DEF Counters, Actions
<1>8. t = [c \in Counters |-> t[c]]
  BY <1>1
<1> QED
  BY <1>3, <1>4, <1>5, <1>6, <1>7, <1>8 DEF t

LEMMA CountsFacts ==
    ASSUME PInv
    PROVE  /\ stats.admitted \in Nat /\ stats.sourceTombstones \in Nat /\ stats.output \in Nat
           /\ stats = [c \in Counters |-> stats[c]]
<1>1. Cardinality(Sources(Entered)) \in Nat
  BY Positions, OneMore
<1>2. Cardinality(written) \in Nat
  BY FS_CardinalityType DEF PInv, WrittenWell
<1> QED
  BY <1>1, <1>2, Positions DEF PInv, Counts, Typed

\* A record that is decided is counted by the action it is promised.
LEMMA CountsDecision ==
    ASSUME PInv, UNCHANGED <<options, written, failure>>, Decided' = Decided + 1,
           Decided + 1 \in DOMAIN Log, Healthy' => Healthy,
           NEW s, s = [c \in Counters |-> s[c]],
           /\ s.drop = stats.drop /\ s.pass = stats.pass /\ s.project = stats.project
           /\ s.tombstone = stats.tombstone /\ s.output = stats.output,
           s.admitted \in Nat, s.sourceTombstones \in Nat,
           s.admitted = Entered', s.sourceTombstones = Cardinality(Sources(Entered')),
           NEW issue \in {None, "invalid", "evaluation"},
           stats' = Counted(s, Decided + 1, Promised(Decided + 1), issue)
    PROVE  Counts' /\ stats' = [c \in Counters |-> stats'[c]]
<1> DEFINE n == Decided
           t == Counted(s, n + 1, Promised(n + 1), issue)
<1>1. n \in Nat
  BY Positions
<1>2. Promised(n + 1) \in Actions
  BY PromisedKinds DEF PInv, Typed
<1>3. /\ t = [c \in Counters |-> t[c]]
      /\ \A c \in {"admitted", "sourceTombstones", "output"} : s[c] \in Nat => t[c] = s[c]
      /\ t.drop = s.drop + IF Promised(n + 1) = "drop" THEN 1 ELSE 0
      /\ t.pass = s.pass + IF Promised(n + 1) \in {"exact", "json"} THEN 1 ELSE 0
      /\ t.project = s.project + IF Promised(n + 1) = "project" THEN 1 ELSE 0
      /\ t.tombstone = s.tombstone
                         + IF Promised(n + 1) = "tombstone" /\ Log[n + 1].payload # None THEN 1 ELSE 0
  BY <1>2, CountedFacts
<1> HIDE DEF t
<1>4. stats' = t
  BY DEF t
<1>5. t.admitted = s.admitted /\ t.sourceTombstones = s.sourceTombstones /\ t.output = stats.output
  BY <1>3, CountsFacts
<1>6. \A m, actions : /\ DecidedAs(m, actions)' = DecidedAs(m, actions)
                      /\ Generated(m)' = Generated(m) /\ Sources(m)' = Sources(m)
  BY Same DEF DecidedAs, Generated, Sources
<1>7. /\ stats'.admitted = Entered'
      /\ stats'.sourceTombstones = Cardinality(Sources(Entered)')
      /\ stats'.output = Cardinality(written')
  <2>1. Sources(Entered)' = Sources(Entered')
    BY DEF Sources
  <2> QED
    BY <1>4, <1>5, <2>1 DEF PInv, Counts
<1>8. ASSUME Healthy'
      PROVE  /\ t.drop = Cardinality(DecidedAs(n + 1, {"drop"}))
             /\ t.pass = Cardinality(DecidedAs(n + 1, {"exact", "json"}))
             /\ t.project = Cardinality(DecidedAs(n + 1, {"project"}))
             /\ t.tombstone = Cardinality(Generated(n + 1))
  <2>1. /\ s.drop = Cardinality(DecidedAs(n, {"drop"}))
        /\ s.pass = Cardinality(DecidedAs(n, {"exact", "json"}))
        /\ s.project = Cardinality(DecidedAs(n, {"project"}))
        /\ s.tombstone = Cardinality(Generated(n))
    BY <1>8 DEF PInv, Counts
  <2> HIDE DEF n
  <2>2. t.drop = Cardinality(DecidedAs(n + 1, {"drop"}))
    BY <1>1, <1>3, <2>1, OneMore
  <2>3. t.pass = Cardinality(DecidedAs(n + 1, {"exact", "json"}))
    BY <1>1, <1>3, <2>1, OneMore
  <2>4. t.project = Cardinality(DecidedAs(n + 1, {"project"}))
    BY <1>1, <1>3, <2>1, OneMore
  <2>5. t.tombstone = Cardinality(Generated(n + 1))
    BY <1>1, <1>3, <2>1, OneMore
  <2> QED
    BY <2>2, <2>3, <2>4, <2>5
<1>9. /\ \A actions : DecidedAs(Decided, actions)' = DecidedAs(n + 1, actions)
      /\ Generated(Decided)' = Generated(n + 1)
  BY Same DEF DecidedAs, Generated
<1> QED
  BY <1>3, <1>4, <1>7, <1>8, <1>9 DEF Counts
-----------------------------------------------------------------------------
\* What a step that decides no record leaves as it is.

LEMMA StillCompleted ==
    ASSUME PInv, UNCHANGED <<options, completed, written, failure>>, Decided' = Decided
    PROVE  CompletedWell' /\ WrittenWell' /\ Accounted' /\ (Healthy' <=> Healthy)
<1>1. \A c : Completed(c)' = Completed(c)
  BY Same DEF Completed
<1>2. CompletedWell'
  BY <1>1 DEF PInv, CompletedWell
<1>3. WrittenWell'
  BY Same DEF PInv, WrittenWell
<1>4. Accounted'
  BY Same DEF PInv, Accounted
<1>5. Healthy' <=> Healthy
  BY DEF Healthy
<1> QED
  BY <1>2, <1>3, <1>4, <1>5

LEMMA StillCounts ==
    ASSUME PInv, UNCHANGED <<options, stats, written>>, Entered' = Entered, Decided' = Decided,
           Healthy' => Healthy
    PROVE  Counts'
<1>1. \A n, actions : /\ DecidedAs(n, actions)' = DecidedAs(n, actions)
                      /\ Generated(n)' = Generated(n) /\ Sources(n)' = Sources(n)
  BY Same DEF DecidedAs, Generated, Sources
<1>2. /\ \A actions : DecidedAs(Decided, actions)' = DecidedAs(Decided, actions)
      /\ Generated(Decided)' = Generated(Decided) /\ Sources(Entered)' = Sources(Entered)
  BY Same DEF DecidedAs, Generated, Sources
<1> QED
  BY <1>2 DEF PInv, Counts

\* The next record is completed, with what belongs to it.
LEMMA AddsCompletion ==
    ASSUME PInv, UNCHANGED <<options, written, failure>>, Decided' = Decided + 1,
           NEW c, completed' = completed \union {c},
           c.record = Decided + 1, c.metadata = Metadata(Decided + 1),
           c.action \in {"panic", Promised(Decided + 1)},
           IF Log[Decided + 1].payload = None THEN c.bytes = None /\ c.spare = None
           ELSE \/ c.bytes \in Buffer /\ c.spare = None
                \/ c.bytes = None /\ c.spare \in Buffer,
           c.action # "panic" =>
              PromisedData(Decided + 1) = IF c.bytes = None THEN <<>> ELSE c.bytes.data
    PROVE  /\ CompletedWell' /\ WrittenWell' /\ Accounted'
           /\ Healthy' => Healthy /\ c.action # "panic"
<1> DEFINE n == Decided
<1>1. n \in Nat /\ Decided' = n + 1
  BY Positions
<1>2. Completed(c)'
  <2>1. (c.record \in 1..Decided)'
    BY <1>1
  <2> QED
    BY <2>1, Same DEF Completed
<1>3. \A d \in completed : Completed(d) /\ d.record \in 1..n
  BY DEF PInv, CompletedWell, Completed
<1>4. ASSUME NEW d \in completed PROVE Completed(d)' /\ d.record # c.record
  <2>1. d.record \in 1..n /\ Completed(d)
    BY <1>3
  <2>2. (d.record \in 1..Decided)' /\ d.record # c.record
    BY <1>1, <2>1
  <2> QED
    BY <2>1, <2>2, Same DEF Completed
<1>5. CompletedWell'
  <2>1. IsFiniteSet(completed')
    BY FS_AddElement DEF PInv, CompletedWell
  <2>2. \A d \in completed' : Completed(d)'
    BY <1>2, <1>4
  <2>3. \A d, e \in completed' : d.record = e.record => d = e
    BY <1>4 DEF PInv, CompletedWell
  <2> QED
    BY <2>1, <2>2, <2>3 DEF CompletedWell
<1>6. \A w \in written : w.record \in 1..(n + 1) /\ w.record # c.record
  <2>1. \A w \in written : w.record \in 1..n
    BY DEF PInv, WrittenWell
  <2> QED
    BY <1>1, <2>1
<1>7. WrittenWell'
  BY <1>1, <1>6, Same DEF PInv, WrittenWell
<1>8. Accounted'
  <2>1. SUFFICES ASSUME failure' = None, NEW i \in 1..(n + 1)
                 PROVE  \/ Promised(i)' = "drop"
                        \/ \E d \in completed' : d.record = i
                        \/ \E w \in written' : w.record = i
    BY <1>1 DEF PInv, Accounted
  <2>2. CASE i \in 1..n
    BY <2>1, <2>2, Same DEF PInv, Accounted
  <2>3. CASE i = n + 1
    BY <2>3
  <2> QED
    BY <1>1, <2>1, <2>2, <2>3
<1>9. Healthy' => Healthy /\ c.action # "panic"
  BY DEF Healthy
<1> QED
  BY <1>5, <1>7, <1>8, <1>9

-----------------------------------------------------------------------------
\* The poller.

LEMMA PollStep ==
    ASSUME PInv, Poll
    PROVE  PInv' /\ [PoolNext]_poolVars /\ Entered' = Entered
<1> DEFINE i == polled + 1
<1>1. /\ pending = None /\ polled' = i /\ i \in DOMAIN Log
      /\ UNCHANGED <<options, work, workerVars, completed, writerVars, stats>>
  BY Positions DEF Poll
<1>2. \E payload \in Buffer \union {None} :
         /\ pending' = [record |-> i, metadata |-> Metadata(i), payload |-> payload]
         /\ IF Log[i].payload = None THEN payload = None
            ELSE payload \in Buffer /\ payload.data = <<SourceOf(i)>>
  <2>1. CASE Log[i].payload = None
    BY <2>1 DEF Poll
  <2>2. CASE Log[i].payload # None
    <3>1. PICK buffer \in Filled(Spare(Log[i].size), SourceOf(i), Log[i].size) :
            pending' = [record |-> i, metadata |-> Metadata(i), payload |-> buffer]
      BY <2>2 DEF Poll
    <3>2. buffer \in Buffer /\ buffer.data = <<SourceOf(i)>>
      <4>1. SourceOf(i) \in Chunks /\ Log[i].size \in Nat
        BY <1>1, LogFacts
      <4>2. Spare(Log[i].size) \in Buffer /\ Spare(Log[i].size).data = <<>>
        BY <4>1, SpareFacts DEF PInv
      <4> QED
        BY <3>1, <4>1, <4>2, FilledFacts
    <3> QED
      BY <2>2, <3>1, <3>2
  <2> QED
    BY <2>1, <2>2
<1>3. UNCHANGED poolVars \/ \E length \in Nat : Copy(length)
  BY <1>1, LogFacts DEF Poll
<1>4. IInv' /\ [PoolNext]_poolVars
  <2>1. IInv
    BY DEF PInv
  <2> QED
    BY <1>3, <2>1, PoolSame, CopyStep DEF PoolNext
<1>5. pending' # None /\ Carries(pending', i)
  <2>1. PICK payload \in Buffer \union {None} :
           /\ pending' = [record |-> i, metadata |-> Metadata(i), payload |-> payload]
           /\ IF Log[i].payload = None THEN payload = None
              ELSE payload \in Buffer /\ payload.data = <<SourceOf(i)>>
    BY <1>2
  <2>2. pending' \in Items
    BY <1>1, <2>1, ItemOf
  <2> QED
    BY <2>1, <2>2, Nones DEF Carries
<1>6. Entered' = Entered /\ Reached' = Reached /\ Decided' = Decided
  <2>1. Entered' = polled /\ Entered = polled
    BY <1>1, <1>5, Positions DEF Entered
  <2> QED
    BY <1>1, <2>1 DEF Reached, Decided, workerVars
<1>7. Typed'
  BY <1>1, Positions DEF PInv, Typed, Accepts, PlanCompiles, workerVars, writerVars
<1>8. Placed'
  <2>1. \A item, k : Carries(item, k)' = Carries(item, k)
    BY <1>1, Same DEF Carries
  <2> QED
    BY <1>1, <1>5, <1>6, <2>1, Same DEF PInv, Placed, Carries, workerVars
<1>9. Evaluated'
  BY <1>1, <1>6, Same DEF PInv, Evaluated, workerVars
<1>10. CompletedWell' /\ WrittenWell' /\ Accounted' /\ (Healthy' <=> Healthy)
  BY <1>1, <1>6, StillCompleted DEF writerVars
<1>11. ScratchWell'
  BY <1>1, <1>10 DEF PInv, ScratchWell, workerVars
<1>12. Counts'
  BY <1>1, <1>6, <1>10, StillCounts DEF writerVars
<1> QED
  BY <1>4, <1>6, <1>7, <1>8, <1>9, <1>10, <1>11, <1>12 DEF PInv

LEMMA PendingFacts ==
    ASSUME PInv, pending # None
    PROVE  /\ polled \in DOMAIN Log /\ Entered + 1 = polled /\ Carries(pending, polled)
           /\ pending \in Items /\ pending.record = polled /\ pending.metadata = Metadata(polled)
           /\ pending.payload = None <=> Log[polled].payload = None
           /\ Log[polled].payload # None =>
                pending.payload \in Buffer /\ pending.payload.data = <<SourceOf(polled)>>
<1>1. Carries(pending, polled)
  BY DEF PInv, Placed
<1>2. polled \in DOMAIN Log /\ Entered + 1 = polled
  BY Positions
<1> QED
  BY <1>1, <1>2, CarriesFacts

\* One more record is admitted, and counted with what it is.
LEMMA AdmittedFacts ==
    ASSUME PInv, pending # None
    PROVE  LET s == Admitted(stats, polled) IN
           /\ s = [c \in Counters |-> s[c]]
           /\ s.admitted = Entered + 1 /\ s.admitted \in Nat
           /\ s.sourceTombstones = Cardinality(Sources(Entered + 1)) /\ s.sourceTombstones \in Nat
           /\ s.output = stats.output /\ s.drop = stats.drop /\ s.pass = stats.pass
           /\ s.project = stats.project /\ s.tombstone = stats.tombstone
<1> DEFINE s == Admitted(stats, polled)
<1>1. stats = [c \in Counters |-> stats[c]]
  BY CountsFacts
<1>2. /\ s = [c \in Counters |-> s[c]]
      /\ s.admitted = stats.admitted + 1
      /\ s.sourceTombstones = stats.sourceTombstones + IF Log[polled].payload = None THEN 1 ELSE 0
      /\ s.output = stats.output /\ s.drop = stats.drop /\ s.pass = stats.pass
      /\ s.project = stats.project /\ s.tombstone = stats.tombstone
  BY <1>1 DEF Admitted, Counters
<1> HIDE DEF s
<1>3. Entered \in Nat /\ polled = Entered + 1
  BY PendingFacts, Positions
<1>4. Cardinality(Sources(Entered + 1)) = s.sourceTombstones
  BY <1>2, <1>3, OneMore DEF PInv, Counts
<1>5. s.sourceTombstones \in Nat /\ s.admitted = Entered + 1
  BY <1>2, <1>3, CountsFacts DEF PInv, Counts
<1> QED
  BY <1>2, <1>3, <1>4, <1>5 DEF s
LEMMA AdmitToWorkerStep ==
    ASSUME PInv, AdmitToWorker
    PROVE  PInv' /\ [PoolNext]_poolVars
<1>1. /\ pending # None /\ pending' = None /\ ParsesJson /\ work' = Append(work, pending)
      /\ pending.record = polled /\ stats' = Admitted(stats, polled)
      /\ UNCHANGED <<poolVars, options, polled, workerVars, completed, writerVars>>
  BY PendingFacts DEF AdmitToWorker, MayAdmit
<1>2. IInv' /\ [PoolNext]_poolVars
  BY <1>1, PoolSame DEF PInv
<1>3. /\ work' \in Seq(Items) /\ Len(work') = Len(work) + 1 /\ DOMAIN work' = 1..(Len(work) + 1)
      /\ work'[Len(work) + 1] = pending /\ \A k \in 1..Len(work) : work'[k] = work[k]
  BY <1>1, PendingFacts DEF PInv, Typed
<1>4. Entered' = Entered + 1 /\ Reached' = Reached /\ Decided' = Decided
  <2>1. Entered' = polled /\ Entered + 1 = polled
    BY <1>1, Positions DEF Entered
  <2>2. Reached' = Entered' - Len(work') /\ Reached = Entered - Len(work)
    BY DEF Reached
  <2>3. Reached' = Reached
    BY <1>3, <2>1, <2>2, Positions
  <2> QED
    BY <1>1, <2>1, <2>3 DEF Decided, workerVars
<1>5. Typed'
  BY <1>1, <1>3, AdmittedFacts DEF PInv, Typed, Accepts, PlanCompiles, workerVars, writerVars
<1>6. Placed'
  <2>1. \A item, k : Carries(item, k)' = Carries(item, k)
    BY <1>1, Same DEF Carries
  <2>2. ASSUME NEW k \in 1..(Len(work) + 1) PROVE Carries(work'[k], Reached + k)
    <3>1. CASE k \in 1..Len(work)
      BY <1>3, <3>1, Positions DEF PInv, Placed
    <3>2. CASE k = Len(work) + 1
      <4>1. Reached + k = polled
        BY <1>1, <3>2, Positions
      <4> QED
        BY <1>1, <1>3, <3>2, <4>1, PendingFacts
    <3> QED
      BY <3>1, <3>2, Positions
  <2>3. (\A k \in DOMAIN work : Carries(work[k], Reached + k))'
    BY <1>3, <1>4, <2>2, Same, <1>1 DEF Carries
  <2>4. (current # None => Carries(current, Reached))'
    BY <1>1, <1>4, Same DEF PInv, Placed, Carries, workerVars
  <2> QED
    BY <1>1, <1>4, <2>3, <2>4, Same DEF PInv, Placed
<1>7. Evaluated'
  BY <1>1, <1>4, Same DEF PInv, Evaluated, workerVars
<1>8. CompletedWell' /\ WrittenWell' /\ Accounted' /\ (Healthy' <=> Healthy)
  BY <1>1, <1>4, StillCompleted DEF writerVars
<1>9. ScratchWell'
  BY <1>1, <1>8 DEF PInv, ScratchWell, workerVars
<1>10. Counts'
  <2>1. /\ \A actions : DecidedAs(Decided, actions)' = DecidedAs(Decided, actions)
        /\ Generated(Decided)' = Generated(Decided) /\ Sources(Entered)' = Sources(Entered + 1)
    BY <1>1, <1>4, Same DEF DecidedAs, Generated, Sources
  <2> QED
    BY <1>1, <1>4, <1>8, <2>1, AdmittedFacts DEF PInv, Counts, writerVars
<1> QED
  BY <1>2, <1>5, <1>6, <1>7, <1>8, <1>9, <1>10 DEF PInv

\* Nothing is on its way to a worker then, and the record is the next to be decided.
LEMMA AdmitToWriterStep ==
    ASSUME PInv, AdmitToWriter
    PROVE  PInv' /\ [PoolNext]_poolVars
<1> DEFINE i == polled
           action == IF Log[i].payload = None THEN TombstoneAction ELSE "exact"
           c == Completion(pending, action, pending.payload, None)
<1>1. /\ pending # None /\ pending' = None /\ ~ParsesJson
      /\ UNCHANGED <<poolVars, options, polled, work, workerVars, writerVars>>
  BY DEF AdmitToWriter, MayAdmit
<1>2. /\ completed' = completed \union {c}
      /\ stats' = Counted(Admitted(stats, i), i, action, None)
  BY <1>1, PendingFacts DEF AdmitToWriter
<1>3. work = <<>> /\ current = None /\ Len(work) = 0
  BY <1>1 DEF PInv, Placed
<1>4. /\ Entered = Decided /\ Entered' = Entered + 1 /\ Reached' = Reached + 1
      /\ Decided' = Decided + 1 /\ i = Decided + 1 /\ i \in DOMAIN Log
  <2>1. Entered' = polled /\ Entered + 1 = polled
    BY <1>1, Positions DEF Entered
  <2>2. Reached' = Entered' - 0 /\ Reached = Entered
    BY <1>1, <1>3, Positions DEF Reached
  <2>3. Decided' = Reached' - 0 /\ Decided = Reached
    BY <1>1, <1>3, Positions DEF Decided, workerVars
  <2> QED
    BY <2>1, <2>2, <2>3, Positions
<1>5. action = Promised(i)
  BY <1>1, <1>4, PassesUnparsed DEF PInv, Typed
<1>6. /\ c.record = i /\ c.metadata = Metadata(i) /\ c.action = action
      /\ c.bytes = pending.payload /\ c.spare = None
  BY <1>1, PendingFacts DEF Completion
<1>7. c.action # "panic" =>
        PromisedData(i) = IF c.bytes = None THEN <<>> ELSE c.bytes.data
  <2>1. CASE Log[i].payload = None
    <3>1. Promised(i) \in {"drop", "tombstone"}
      BY <1>5, <2>1 DEF TombstoneAction
    <3> QED
      BY <1>1, <1>6, <2>1, <3>1, PendingFacts DEF PromisedData
  <2>2. CASE Log[i].payload # None
    <3>1. Promised(i) = "exact" /\ pending.payload # None
      BY <1>1, <1>5, <2>2, PendingFacts
    <3> QED
      BY <1>1, <1>6, <2>2, <3>1, PendingFacts DEF PromisedData
  <2> QED
    BY <2>1, <2>2
<1>8. IF Log[i].payload = None THEN c.bytes = None /\ c.spare = None
      ELSE \/ c.bytes \in Buffer /\ c.spare = None
           \/ c.bytes = None /\ c.spare \in Buffer
  BY <1>1, <1>6, PendingFacts
<1> HIDE DEF c, action
<1>9. CompletedWell' /\ WrittenWell' /\ Accounted' /\ (Healthy' => Healthy)
  BY <1>1, <1>2, <1>4, <1>5, <1>6, <1>7, <1>8, AddsCompletion DEF writerVars
<1>10. Counts' /\ stats' = [x \in Counters |-> stats'[x]]
  <2> DEFINE s == Admitted(stats, i)
  <2>1. /\ s = [x \in Counters |-> s[x]]
        /\ s.admitted = Entered + 1 /\ s.admitted \in Nat
        /\ s.sourceTombstones = Cardinality(Sources(Entered + 1)) /\ s.sourceTombstones \in Nat
        /\ s.output = stats.output /\ s.drop = stats.drop /\ s.pass = stats.pass
        /\ s.project = stats.project /\ s.tombstone = stats.tombstone
    BY <1>1, AdmittedFacts
  <2>2. stats' = Counted(s, Decided + 1, Promised(Decided + 1), None)
    BY <1>2, <1>4, <1>5
  <2> HIDE DEF s
  <2> QED
    BY <1>1, <1>4, <1>9, <2>1, <2>2, CountsDecision DEF writerVars
<1>11. IInv' /\ [PoolNext]_poolVars
  BY <1>1, PoolSame DEF PInv
<1>12. Typed'
  BY <1>1, <1>10 DEF PInv, Typed, Accepts, PlanCompiles, workerVars, writerVars
<1>13. Placed'
  <2>1. Decided' \in Nat
    BY <1>4, Positions
  <2> QED
    BY <1>1, <1>3, <2>1 DEF Placed, workerVars
<1>14. Evaluated'
  BY <1>1, <1>3 DEF Evaluated, workerVars
<1>15. ScratchWell'
  BY <1>1, <1>9 DEF PInv, ScratchWell, workerVars
<1> QED
  BY <1>9, <1>10, <1>11, <1>12, <1>13, <1>14, <1>15 DEF PInv

LEMMA RecycleReleasedStep ==
    ASSUME PInv, RecycleReleased
    PROVE  PInv' /\ [PoolNext]_poolVars
<1>1. /\ released # <<>> /\ released' = Tail(released)
      /\ UNCHANGED <<options, pollerVars, work, workerVars, completed, written, staged, failure, stats>>
  BY DEF RecycleReleased
<1>2. Head(released) \in Buffer \union {None} /\ released' \in Seq(Buffer \union {None})
  BY <1>1 DEF PInv, Typed
<1>3. UNCHANGED poolVars \/ \E buffer \in Buffer : Recycle(buffer)
  BY <1>2 DEF RecycleReleased
<1>4. IInv' /\ [PoolNext]_poolVars
  <2>1. IInv
    BY DEF PInv
  <2> QED
    BY <1>3, <2>1, PoolSame, RecycleStep DEF PoolNext
<1>5. Entered' = Entered /\ Reached' = Reached /\ Decided' = Decided
  BY <1>1 DEF Entered, Reached, Decided, pollerVars, workerVars
<1>6. Typed'
  BY <1>1, <1>2 DEF PInv, Typed, Accepts, PlanCompiles, pollerVars, workerVars
<1>7. Placed'
  <2>1. \A item, k : Carries(item, k)' = Carries(item, k)
    BY <1>1, Same DEF Carries
  <2> QED
    BY <1>1, <1>5, <2>1, Same DEF PInv, Placed, Carries, pollerVars, workerVars
<1>8. Evaluated'
  BY <1>1, <1>5, Same DEF PInv, Evaluated, workerVars
<1>9. CompletedWell' /\ WrittenWell' /\ Accounted' /\ (Healthy' <=> Healthy)
  BY <1>1, <1>5, StillCompleted
<1>10. ScratchWell'
  BY <1>1, <1>9 DEF PInv, ScratchWell, workerVars
<1>11. Counts'
  BY <1>1, <1>5, <1>9, StillCounts
<1> QED
  BY <1>4, <1>6, <1>7, <1>8, <1>9, <1>10, <1>11 DEF PInv

-----------------------------------------------------------------------------
\* The worker.

LEMMA TakeStep ==
    ASSUME PInv, Take
    PROVE  PInv' /\ [PoolNext]_poolVars
<1>1. /\ current = None /\ work # <<>> /\ current' = Head(work) /\ work' = Tail(work) /\ index' = 1
      /\ UNCHANGED <<poolVars, options, pollerVars, scratch, completed, writerVars, stats>>
  BY DEF Take
<1>2. /\ Len(work) \in Nat \ {0} /\ current' = work[1] /\ work' \in Seq(Items)
      /\ Len(work') = Len(work) - 1 /\ DOMAIN work' = 1..(Len(work) - 1)
      /\ \A k \in 1..(Len(work) - 1) : work'[k] = work[k + 1] /\ k + 1 \in DOMAIN work
      /\ 1 \in DOMAIN work
  BY <1>1 DEF PInv, Typed
<1>3. /\ Carries(current', Reached + 1) /\ Reached + 1 \in DOMAIN Log /\ current' # None
      /\ ParsesJson
  <2>1. Carries(work[1], Reached + 1) /\ ParsesJson
    BY <1>1, <1>2 DEF PInv, Placed
  <2>2. Reached + 1 \in DOMAIN Log
    BY <1>2, Positions
  <2> QED
    BY <1>2, <2>1, <2>2, CarriesFacts
<1>4. Entered' = Entered /\ Reached' = Reached + 1 /\ Decided' = Decided
  <2>1. Entered' = Entered
    BY <1>1 DEF Entered, pollerVars
  <2>2. Reached' = Entered' - Len(work') /\ Reached = Entered - Len(work)
    BY DEF Reached
  <2>3. Reached' = Reached + 1
    BY <1>2, <2>1, <2>2, Positions
  <2>4. Decided' = Reached' - 1 /\ Decided = Reached
    BY <1>1, <1>3, Positions DEF Decided
  <2> QED
    BY <2>1, <2>3, <2>4, Positions
<1>5. Typed'
  BY <1>1, <1>2 DEF PInv, Typed, Accepts, PlanCompiles, pollerVars, writerVars
<1>6. Placed'
  <2>1. \A item, k : Carries(item, k)' = Carries(item, k)
    BY <1>1, Same DEF Carries
  <2>2. ASSUME NEW k \in 1..(Len(work) - 1) PROVE Carries(work'[k], Reached + 1 + k)
    <3>1. Carries(work[k + 1], Reached + (k + 1))
      BY <1>2 DEF PInv, Placed
    <3>2. Reached + (k + 1) = Reached + 1 + k
      BY Positions
    <3> QED
      BY <1>2, <3>1, <3>2
  <2>3. (\A k \in DOMAIN work : Carries(work[k], Reached + k))'
    BY <1>1, <1>2, <1>4, <2>2, Same DEF Carries
  <2>4. Carries(current, Reached)'
    BY <1>1, <1>3, <1>4, Same DEF Carries
  <2>5. (pending # None => Carries(pending, polled))'
    BY <1>1, Same DEF PInv, Placed, Carries, pollerVars
  <2>6. Decided' \in Nat /\ ParsesJson'
    BY <1>1, <1>3, <1>4, Positions, Same
  <2> QED
    BY <2>3, <2>4, <2>5, <2>6 DEF Placed
<1>7. Evaluated'
  <2>1. Predicates' \in Nat
    BY <1>1, Same, OptionFacts DEF PInv, Typed
  <2> QED
    BY <1>1, <2>1 DEF Evaluated
<1>8. CompletedWell' /\ WrittenWell' /\ Accounted' /\ (Healthy' <=> Healthy)
  BY <1>1, <1>4, StillCompleted DEF writerVars
<1>9. ScratchWell'
  BY <1>1, <1>8 DEF PInv, ScratchWell
<1>10. Counts'
  BY <1>1, <1>4, <1>8, StillCounts DEF writerVars
<1>11. IInv' /\ [PoolNext]_poolVars
  BY <1>1, PoolSame DEF PInv
<1> QED
  BY <1>5, <1>6, <1>7, <1>8, <1>9, <1>10, <1>11 DEF PInv
\* Where the records are once the worker has completed one.
LEMMA CompletePositions ==
    ASSUME PInv, current # None, current' = None, UNCHANGED <<pollerVars, work>>
    PROVE  /\ Entered' = Entered /\ Reached' = Reached /\ Decided' = Decided + 1
           /\ Reached = Decided + 1 /\ Reached \in DOMAIN Log /\ Decided' \in Nat
<1>1. Entered' = Entered /\ Reached' = Reached
  BY DEF Entered, Reached, pollerVars
<1>2. Decided' = Reached - 0
  BY <1>1 DEF Decided
<1> QED
  BY <1>1, <1>2, Positions, CurrentFacts

LEMMA CompleteTyped ==
    ASSUME PInv, current # None, current' = None, UNCHANGED <<options, pollerVars, work, index, released>>,
           scratch' \in Buffer, stats' = [c \in Counters |-> stats'[c]]
    PROVE  Typed' /\ Placed' /\ Evaluated'
<1>1. Typed'
  BY DEF PInv, Typed, Accepts, PlanCompiles, pollerVars
<1>2. Placed'
  <2>1. \A item, k : Carries(item, k)' = Carries(item, k)
    BY Same DEF Carries
  <2> QED
    BY <2>1, CompletePositions, CurrentFacts, Same DEF PInv, Placed, Carries, pollerVars
<1>3. Evaluated'
  BY DEF Evaluated
<1> QED
  BY <1>1, <1>2, <1>3

\* A worker completes its record with the action that is promised and the bytes
\* that go with it.
LEMMA CompleteStep ==
    ASSUME PInv, current # None, NEW action, NEW bytes, NEW spare,
           NEW issue \in {None, "invalid", "evaluation"}, Complete(action, bytes, spare, issue),
           action = Promised(Reached),
           IF Log[Reached].payload = None THEN bytes = None /\ spare = None
           ELSE \/ bytes \in Buffer /\ spare = None
                \/ bytes = None /\ spare \in Buffer,
           PromisedData(Reached) = IF bytes = None THEN <<>> ELSE bytes.data,
           scratch' \in Buffer,
           Healthy => scratch'.data = <<>> /\ scratch'.capacity <= MaxBuffer
    PROVE  PInv' /\ [PoolNext]_poolVars
<1> DEFINE c == Completion(current, action, bytes, spare)
<1>1. /\ completed' = completed \union {c} /\ current' = None
      /\ stats' = Counted(stats, Reached, action, issue)
      /\ UNCHANGED <<poolVars, options, pollerVars, work, index, writerVars>>
  BY CurrentFacts DEF Complete
<1>2. /\ Entered' = Entered /\ Reached' = Reached /\ Decided' = Decided + 1
      /\ Reached = Decided + 1 /\ Reached \in DOMAIN Log
  BY <1>1, CompletePositions
<1>3. /\ c.record = Decided + 1 /\ c.metadata = Metadata(Decided + 1) /\ c.action = Promised(Decided + 1)
      /\ c.bytes = bytes /\ c.spare = spare
  BY <1>2, CurrentFacts DEF Completion
<1> HIDE DEF c
<1>4. CompletedWell' /\ WrittenWell' /\ Accounted' /\ (Healthy' => Healthy)
  BY <1>1, <1>2, <1>3, AddsCompletion DEF writerVars
<1>5. Counts' /\ stats' = [x \in Counters |-> stats'[x]]
  <2>1. stats.admitted = Entered' /\ stats.sourceTombstones = Cardinality(Sources(Entered'))
    BY <1>2 DEF PInv, Counts
  <2> QED
    BY <1>1, <1>2, <1>4, <2>1, CountsFacts, CountsDecision DEF writerVars
<1>6. Typed' /\ Placed' /\ Evaluated'
  BY <1>1, <1>5, CompleteTyped DEF writerVars
<1>7. ScratchWell'
  BY <1>4 DEF ScratchWell
<1>8. IInv' /\ [PoolNext]_poolVars
  BY <1>1, PoolSame DEF PInv
<1> QED
  BY <1>4, <1>5, <1>6, <1>7, <1>8 DEF PInv

\* Without bytes the source stays as spare storage.
LEMMA DecideStep ==
    ASSUME PInv, current # None, NEW action \in {"fatal", "drop", "tombstone"},
           NEW issue \in {None, "invalid", "evaluation"}, Decide(action, issue),
           action = Promised(Reached), scratch' \in Buffer,
           Healthy => scratch'.data = <<>> /\ scratch'.capacity <= MaxBuffer
    PROVE  PInv' /\ [PoolNext]_poolVars
<1>1. Complete(action, None, current.payload, issue)
  BY DEF Decide
<1>2. PromisedData(Reached) = <<>>
  BY DEF PromisedData
<1> QED
  BY <1>1, <1>2, CurrentFacts, CompleteStep

LEMMA ScratchFacts ==
    ASSUME PInv
    PROVE  scratch \in Buffer /\ (Healthy => scratch.data = <<>> /\ scratch.capacity <= MaxBuffer)
  BY DEF PInv, Typed, ScratchWell

LEMMA TombstoneStep ==
    ASSUME PInv, ExecuteTombstone
    PROVE  PInv' /\ [PoolNext]_poolVars
<1>1. current # None /\ Log[Reached].payload = None /\ Decide(TombstoneAction, None)
      /\ scratch' = scratch
  BY CurrentFacts DEF ExecuteTombstone
<1>2. TombstoneAction = Promised(Reached) /\ TombstoneAction \in {"fatal", "drop", "tombstone"}
  BY <1>1, CurrentFacts, PromisedKinds DEF PInv, Typed, TombstoneAction
<1> QED
  BY <1>1, <1>2, ScratchFacts, DecideStep

LEMMA RejectJsonStep ==
    ASSUME PInv, RejectJson
    PROVE  PInv' /\ [PoolNext]_poolVars
<1>1. /\ current # None /\ Log[Reached].payload = "invalid" /\ scratch' = scratch
      /\ Log[Reached].payload # None
  BY CurrentFacts, Nones DEF RejectJson
<1>2. Promised(Reached) = IF InvalidPolicy = "fail" THEN "fatal"
                          ELSE IF InvalidPolicy = "pass" THEN "exact" ELSE InvalidPolicy
  BY <1>1, CurrentFacts, NotParsed
<1>3. InvalidPolicy \in {"fail", "pass", "drop", "tombstone"}
  BY OptionFacts DEF PInv, Typed, InvalidPolicy
<1>4. CASE InvalidPolicy = "pass"
  <2>1. Complete("exact", current.payload, None, "invalid")
    BY <1>4 DEF RejectJson
  <2>2. PromisedData(Reached) = <<SourceOf(Reached)>>
    BY <1>2, <1>4 DEF PromisedData
  <2>3. current.payload \in Buffer /\ current.payload.data = <<SourceOf(Reached)>> /\ current.payload # None
    BY <1>1, CurrentFacts
  <2> QED
    BY <1>1, <1>2, <1>4, <2>1, <2>2, <2>3, ScratchFacts, CompleteStep
<1>5. CASE InvalidPolicy # "pass"
  <2> DEFINE action == IF InvalidPolicy = "fail" THEN "fatal" ELSE InvalidPolicy
  <2>1. Decide(action, "invalid")
    BY <1>5 DEF RejectJson, Fail
  <2>2. action = Promised(Reached) /\ action \in {"fatal", "drop", "tombstone"}
    BY <1>2, <1>3, <1>5
  <2> HIDE DEF action
  <2> QED
    BY <1>1, <2>1, <2>2, ScratchFacts, DecideStep
<1> QED
  BY <1>4, <1>5

\* A worker that has come past the predicates found them all false.
LEMMA ParsedFacts ==
    ASSUME PInv, Parsed
    PROVE  /\ current # None /\ Log[Reached].payload = "valid" /\ Log[Reached].payload # None
           /\ index \in 1..(Predicates + 1) /\ index \in Nat /\ Predicates \in Nat
           /\ \A p \in 1..(index - 1) : Log[Reached].verdicts[p] = "false"
           /\ index > Predicates => \A p \in 1..Predicates : Log[Reached].verdicts[p] = "false"
           /\ current.payload \in Buffer /\ current.payload.data = <<SourceOf(Reached)>>
           /\ current.payload # None
<1>1. current # None /\ Log[Reached].payload = "valid" /\ Log[Reached].payload # None
  BY CurrentFacts, Nones DEF Parsed
<1>2. /\ index \in 1..(Predicates + 1)
      /\ \A p \in 1..(index - 1) : Log[Reached].verdicts[p] = "false"
  BY <1>1 DEF PInv, Evaluated
<1>3. Predicates \in Nat
  BY OptionFacts DEF PInv, Typed
<1>4. index > Predicates => 1..Predicates = 1..(index - 1)
  BY <1>2, <1>3
<1> QED
  BY <1>1, <1>2, <1>3, <1>4, CurrentFacts

LEMMA EvaluateStep ==
    ASSUME PInv, EvaluatePredicate
    PROVE  PInv' /\ [PoolNext]_poolVars
<1>1. Parsed /\ index <= Predicates /\ scratch' = scratch
  BY DEF EvaluatePredicate
<1>2. current # None /\ index \in 1..Predicates /\ Log[Reached].payload = "valid"
      /\ Reached \in DOMAIN Log /\ current.record = Reached
  BY <1>1, ParsedFacts, CurrentFacts
<1>3. Verdict \in {"true", "false", "error"} /\ Verdict = Log[Reached].verdicts[index]
  BY <1>2, LogFacts, OptionFacts DEF Verdict, PInv, Typed
<1>4. Verdict # "false" =>
        Promised(Reached) = IF Verdict = "error" THEN ErrorAction
                            ELSE IF index <= options.drops THEN "drop" ELSE TombstoneAction
  BY <1>1, <1>2, <1>3, ParsedFacts, FirstDecides DEF PInv, Typed
<1>5. CASE Verdict = "true"
  <2> DEFINE action == IF index <= options.drops THEN "drop" ELSE TombstoneAction
  <2>1. Decide(action, None)
    BY <1>5 DEF EvaluatePredicate
  <2>2. action = Promised(Reached) /\ action \in {"fatal", "drop", "tombstone"}
    BY <1>4, <1>5 DEF TombstoneAction
  <2> HIDE DEF action
  <2> QED
    BY <1>1, <1>2, <2>1, <2>2, ScratchFacts, DecideStep
<1>6. CASE Verdict = "error"
  <2> DEFINE action == IF options.onEvalError = "fail" THEN "fatal" ELSE options.onEvalError
  <2>1. Decide(action, "evaluation")
    BY <1>6 DEF EvaluatePredicate, Fail
  <2>2. action = Promised(Reached) /\ action \in {"fatal", "drop", "tombstone"}
    BY <1>4, <1>6, OptionFacts DEF ErrorAction, PInv, Typed
  <2> HIDE DEF action
  <2> QED
    BY <1>1, <1>2, <2>1, <2>2, ScratchFacts, DecideStep
<1>7. CASE Verdict = "false"
  <2>1. /\ index' = index + 1
        /\ UNCHANGED <<poolVars, options, pollerVars, work, current, completed, writerVars, stats>>
    BY <1>7 DEF EvaluatePredicate
  <2>2. Entered' = Entered /\ Reached' = Reached /\ Decided' = Decided
    BY <2>1 DEF Entered, Reached, Decided, pollerVars
  <2>3. Typed'
    BY <1>1, <2>1 DEF PInv, Typed, Accepts, PlanCompiles, pollerVars, writerVars
  <2>4. Placed'
    <3>1. \A item, k : Carries(item, k)' = Carries(item, k)
      BY <2>1, Same DEF Carries
    <3> QED
      BY <2>1, <2>2, <3>1, Same DEF PInv, Placed, Carries, pollerVars
  <2>5. Evaluated'
    <3>1. \A p \in 1..index : Log[Reached].verdicts[p] = "false"
      <4>1. \A p \in 1..index : p \in 1..(index - 1) \/ p = index
        BY <1>2
      <4> QED
        BY <1>1, <1>3, <1>7, <4>1, ParsedFacts
    <3>2. index + 1 \in 1..(Predicates + 1) /\ (index + 1) - 1 = index
      BY <1>1, ParsedFacts
    <3>3. Predicates' = Predicates
      BY <2>1, Same
    <3> QED
      BY <2>1, <2>2, <3>1, <3>2, <3>3 DEF Evaluated
  <2>6. CompletedWell' /\ WrittenWell' /\ Accounted' /\ (Healthy' <=> Healthy)
    BY <2>1, <2>2, StillCompleted DEF writerVars
  <2>7. ScratchWell'
    BY <1>1, <2>6 DEF PInv, ScratchWell
  <2>8. Counts'
    BY <2>1, <2>2, <2>6, StillCounts DEF writerVars
  <2>9. IInv' /\ [PoolNext]_poolVars
    BY <2>1, PoolSame DEF PInv
  <2> QED
    BY <2>3, <2>4, <2>5, <2>6, <2>7, <2>8, <2>9 DEF PInv
<1> QED
  BY <1>3, <1>5, <1>6, <1>7

\* What is serialized is the result of the worker's own record, in a vector that
\* was cleared.
LEMMA OutputsFacts ==
    ASSUME PInv, current # None, NEW output \in Outputs
    PROVE  output \in Buffer /\ output.data = <<ResultOf(Reached)>> /\ output # None
<1>1. ResultOf(current.record) \in Chunks /\ current.record = Reached
  BY CurrentFacts, LogFacts
<1>2. Cleared(scratch) \in Buffer /\ Cleared(scratch).data = <<>>
  BY ScratchFacts, VectorFacts
<1>3. output \in Filled(Cleared(scratch), ResultOf(Reached), Log[Reached].resultSize)
  BY <1>1 DEF Outputs
<1> QED
  BY <1>1, <1>2, <1>3, FilledFacts

LEMMA SerializeStep ==
    ASSUME PInv, Serialize
    PROVE  PInv' /\ [PoolNext]_poolVars
<1>1. Parsed /\ index > Predicates /\ Serializes /\ HasResult /\ scratch' = Swap(current.payload)
  BY DEF Serialize, Serializing
<1>2. PICK output \in Outputs :
        Complete(IF options.projects THEN "project" ELSE "json", output, None, None)
  BY DEF Serialize
<1> DEFINE action == IF options.projects THEN "project" ELSE "json"
<1>3. action = Promised(Reached) /\ Promised(Reached) \in {"json", "project"}
  <2>1. Promised(Reached) = IF options.projects
                            THEN IF Log[Reached].result = "value" THEN "project" ELSE ErrorAction
                            ELSE IF options.embedsJson THEN "json" ELSE "exact"
    BY <1>1, ParsedFacts, CurrentFacts, NoneDecides
  <2> QED
    BY <1>1, <2>1, ParsedFacts, CurrentFacts DEF Serializes, HasResult
<1>4. output \in Buffer /\ output.data = <<ResultOf(Reached)>> /\ output # None
  BY <1>1, ParsedFacts, OutputsFacts
<1>5. PromisedData(Reached) = <<ResultOf(Reached)>>
  BY <1>3 DEF PromisedData
<1>6. scratch' \in Buffer /\ scratch'.data = <<>> /\ scratch'.capacity <= MaxBuffer
  BY <1>1, ParsedFacts, VectorFacts, PoolAssumption DEF Swap
<1>7. Complete(action, output, None, None)
  BY <1>2
<1> HIDE DEF action
<1> QED
  BY <1>1, <1>3, <1>4, <1>5, <1>6, <1>7, ParsedFacts, CompleteStep

LEMMA SerializeFailsStep ==
    ASSUME PInv, SerializeFails
    PROVE  PInv' /\ [PoolNext]_poolVars
<1>1. Parsed /\ index > Predicates /\ ~HasResult
  BY DEF SerializeFails, Serializing
<1> DEFINE action == IF options.onEvalError = "fail" THEN "fatal" ELSE options.onEvalError
<1>2. Decide(action, "evaluation")
  BY DEF SerializeFails, Fail
<1>3. action = Promised(Reached) /\ action \in {"fatal", "drop", "tombstone"}
  <2>1. Promised(Reached) = IF options.projects
                            THEN IF Log[Reached].result = "value" THEN "project" ELSE ErrorAction
                            ELSE IF options.embedsJson THEN "json" ELSE "exact"
    BY <1>1, ParsedFacts, CurrentFacts, NoneDecides
  <2>2. options.projects /\ Log[Reached].result # "value"
    BY <1>1, ParsedFacts, CurrentFacts DEF HasResult
  <2> QED
    BY <2>1, <2>2, OptionFacts DEF ErrorAction, PInv, Typed
<1>4. scratch' \in Buffer /\ scratch'.data = <<>> /\ scratch'.capacity <= MaxBuffer
  <2>1. PICK output \in Outputs \union {Cleared(scratch)} :
          scratch' = IF output.capacity > MaxBuffer THEN NewBuffer ELSE Cleared(output)
    BY DEF SerializeFails
  <2>2. output \in Buffer
    BY <1>1, <2>1, ParsedFacts, OutputsFacts, ScratchFacts, VectorFacts
  <2> QED
    BY <2>1, <2>2, VectorFacts, PoolAssumption
<1> HIDE DEF action
<1> QED
  BY <1>1, <1>2, <1>3, <1>4, ParsedFacts, DecideStep

LEMMA PassExactStep ==
    ASSUME PInv, PassExact
    PROVE  PInv' /\ [PoolNext]_poolVars
<1>1. Parsed /\ index > Predicates /\ ~Serializes /\ scratch' = Cleared(scratch)
      /\ Complete("exact", current.payload, None, None)
  BY DEF PassExact
<1>2. Promised(Reached) = "exact"
  BY <1>1, ParsedFacts, CurrentFacts, NoneDecides DEF Serializes
<1>3. PromisedData(Reached) = <<SourceOf(Reached)>>
  BY <1>2 DEF PromisedData
<1>4. /\ scratch' \in Buffer
      /\ Healthy => scratch'.data = <<>> /\ scratch'.capacity <= MaxBuffer
  BY <1>1, ScratchFacts, VectorFacts
<1> QED
  BY <1>1, <1>2, <1>3, <1>4, ParsedFacts, CompleteStep

\* After a panic nothing is promised of the record, and no run is healthy.
LEMMA PanicStep ==
    ASSUME PInv, Panic
    PROVE  PInv' /\ [PoolNext]_poolVars
<1> DEFINE c == Completion(current, "panic", None, current.payload)
<1>1. /\ current # None /\ current.payload # None /\ completed' = completed \union {c} /\ current' = None
      /\ UNCHANGED <<poolVars, options, pollerVars, work, index, writerVars, stats>>
  BY DEF Panic
<1>2. scratch' \in Buffer
  BY <1>1, OutputsFacts, ScratchFacts, VectorFacts DEF Panic
<1>3. /\ Entered' = Entered /\ Reached' = Reached /\ Decided' = Decided + 1
      /\ Reached = Decided + 1 /\ Reached \in DOMAIN Log
  BY <1>1, CompletePositions
<1>4. /\ c.record = Decided + 1 /\ c.metadata = Metadata(Decided + 1) /\ c.action = "panic"
      /\ c.bytes = None /\ c.spare = current.payload
  BY <1>1, <1>3, CurrentFacts DEF Completion
<1>5. Log[Decided + 1].payload # None /\ current.payload \in Buffer
  BY <1>1, <1>3, CurrentFacts
<1> HIDE DEF c
<1>6. CompletedWell' /\ WrittenWell' /\ Accounted' /\ ~Healthy'
  BY <1>1, <1>3, <1>4, <1>5, AddsCompletion DEF writerVars
<1>7. Counts'
  <2>1. Sources(Entered)' = Sources(Entered)
    BY <1>3 DEF Sources
  <2> QED
    BY <1>1, <1>3, <1>6, <2>1 DEF PInv, Counts, writerVars
<1>8. Typed' /\ Placed' /\ Evaluated'
  BY <1>1, <1>2, CountsFacts, CompleteTyped DEF writerVars
<1>9. ScratchWell'
  BY <1>6 DEF ScratchWell
<1>10. IInv' /\ [PoolNext]_poolVars
  BY <1>1, PoolSame DEF PInv
<1> QED
  BY <1>6, <1>7, <1>8, <1>9, <1>10 DEF PInv
-----------------------------------------------------------------------------
\* The writer.

LEMMA WriteStep ==
    ASSUME PInv, Write
    PROVE  PInv' /\ [PoolNext]_poolVars
<1>1. PICK c \in completed :
        /\ completed' = completed \ {c}
        /\ released' = Append(released, IF c.bytes = None THEN c.spare ELSE c.bytes)
        /\ \/ /\ failure # None \/ c.action = "drop"
              /\ UNCHANGED <<written, staged, failure, stats>>
           \/ /\ failure = None /\ (c.action \in {"fatal", "panic"} \/ ~Fits(c.action))
              /\ failure' = IF Fits(c.action) THEN "fatal" ELSE "form"
              /\ UNCHANGED <<written, staged, stats>>
           \/ /\ failure = None /\ c.action \notin {"drop", "fatal", "panic"} /\ Fits(c.action)
              /\ \/ /\ failure' = IF Unwritable(RecordOf(c)) THEN "overflow" ELSE "output"
                    /\ UNCHANGED <<written, stats>>
                 \/ /\ ~Unwritable(RecordOf(c))
                    /\ written' = written \union {[record |-> c.record, action |-> c.action,
                                                   line |-> LineOf(RecordOf(c))]}
                    /\ stats' = [stats EXCEPT !.output = @ + 1,
                                              !.outputBytes = @ + Written(LineOf(RecordOf(c)))]
                    /\ UNCHANGED failure
        /\ UNCHANGED <<poolVars, options, pollerVars, work, workerVars>>
  BY DEF Write
<1>2. Completed(c) /\ c.record \in 1..Decided /\ c.record \in DOMAIN Log
  BY <1>1, Positions DEF PInv, CompletedWell, Completed
<1>3. Entered' = Entered /\ Reached' = Reached /\ Decided' = Decided
  BY <1>1 DEF Entered, Reached, Decided, pollerVars, workerVars
<1>4. IInv' /\ [PoolNext]_poolVars
  BY <1>1, PoolSame DEF PInv
<1>5. released' \in Seq(Buffer \union {None})
  BY <1>1, <1>2 DEF Completed, PInv, Typed
<1>6. stats' = [x \in Counters |-> stats'[x]]
  BY <1>1, CountsFacts
<1>7. Typed'
  BY <1>1, <1>5, <1>6 DEF PInv, Typed, Accepts, PlanCompiles, pollerVars, workerVars
<1>8. Placed'
  <2>1. \A item, k : Carries(item, k)' = Carries(item, k)
    BY <1>1, Same DEF Carries
  <2> QED
    BY <1>1, <1>3, <2>1, Same DEF PInv, Placed, Carries, pollerVars, workerVars
<1>9. Evaluated'
  BY <1>1, <1>3, Same DEF PInv, Evaluated, workerVars
<1>10. CompletedWell'
  <2>1. IsFiniteSet(completed')
    BY <1>1, FS_Subset DEF PInv, CompletedWell
  <2>2. \A d : Completed(d)' = Completed(d)
    BY <1>1, <1>3, Same DEF Completed
  <2> QED
    BY <1>1, <2>1, <2>2 DEF PInv, CompletedWell
\* The action fits the output, so no failure is one of form.
<1>11. Fits(c.action) /\ c.action \in {"panic", Promised(c.record)}
  <2>1. Promised(c.record) = "exact" => ~options.embedsJson
    BY <1>2, PromisedKinds DEF PInv, Typed
  <2>2. Promised(c.record) = "json" => options.embedsJson
    BY <1>2, PromisedKinds DEF PInv, Typed
  <2> QED
    BY <1>2, <2>1, <2>2 DEF Completed, Fits
<1>12. Healthy' => Healthy
  BY <1>1, <1>11, Nones DEF Healthy
<1>13. ScratchWell'
  BY <1>1, <1>12 DEF PInv, ScratchWell, workerVars
<1>14. CASE UNCHANGED <<written, stats>>
  <2>1. WrittenWell'
    BY <1>1, <1>3, <1>14, Same DEF PInv, WrittenWell
  <2>2. failure' = None => failure = None /\ c.action = "drop"
    <3>1. IsFiniteSet(written)
      BY DEF PInv, WrittenWell
    <3>2. ASSUME stats' = [stats EXCEPT !.output = @ + 1,
                                        !.outputBytes = @ + Written(LineOf(RecordOf(c)))]
          PROVE  FALSE
      <4>1. stats'.output = stats.output + 1
        BY <3>2, CountsFacts DEF Counters
      <4> QED
        BY <1>14, <4>1, CountsFacts
    <3> QED
      BY <1>1, <1>11, <3>2, Nones
  <2>3. Accounted'
    <3>1. failure' # "form"
      BY <1>1, <1>11 DEF PInv, Accounted
    <3>2. ASSUME failure' = None, NEW i \in 1..Decided
          PROVE  \/ Promised(i) = "drop"
                 \/ \E d \in completed' : d.record = i
                 \/ \E w \in written : w.record = i
      BY <1>1, <1>11, <2>2, <3>2 DEF PInv, Accounted
    <3> QED
      BY <1>1, <1>3, <1>14, <3>1, <3>2, Same DEF Accounted
  <2>4. Counts'
    BY <1>1, <1>3, <1>12, <1>14, StillCounts
  <2> QED
    BY <1>4, <1>7, <1>8, <1>9, <1>10, <1>13, <2>1, <2>3, <2>4 DEF PInv
<1>15. CASE ~UNCHANGED <<written, stats>>
  <2> DEFINE w == [record |-> c.record, action |-> c.action, line |-> LineOf(RecordOf(c))]
  <2>1. /\ failure = None /\ c.action \notin {"drop", "fatal", "panic"} /\ failure' = failure
        /\ written' = written \union {w}
        /\ stats' = [stats EXCEPT !.output = @ + 1,
                                  !.outputBytes = @ + Written(LineOf(RecordOf(c)))]
    BY <1>1, <1>15
  <2>2. c.action = Promised(c.record) /\ Promised(c.record) \notin {"drop", "fatal"}
    BY <1>11, <2>1
  <2>3. RecordOf(c) = OwnRecord(c.record)
    <3>1. /\ c.metadata = Metadata(c.record)
          /\ PromisedData(c.record) = IF c.bytes = None THEN <<>> ELSE c.bytes.data
      BY <1>2, <2>1 DEF Completed
    <3> QED
      BY <2>2, <3>1 DEF RecordOf, OwnRecord
  <2>4. w = [record |-> c.record, action |-> Promised(c.record), line |-> OwnLine(c.record)]
    BY <2>2, <2>3 DEF OwnLine
  <2>5. w \notin written
    BY <1>1 DEF PInv, WrittenWell
  <2>6. IsFiniteSet(written) /\ IsFiniteSet(written') /\ Cardinality(written') = Cardinality(written) + 1
    BY <2>1, <2>5, FS_AddElement DEF PInv, WrittenWell
  <2>7. \A d \in completed' : d.record # c.record /\ d \in completed
    BY <1>1 DEF PInv, CompletedWell
  <2> HIDE DEF w
  <2>8. w.record = c.record
    BY DEF w
  <2>9. WrittenWell'
    <3>1. ASSUME NEW v \in written'
          PROVE  /\ v.record \in 1..Decided /\ Promised(v.record) \notin {"drop", "fatal"}
                 /\ v = [record |-> v.record, action |-> Promised(v.record),
                         line |-> OwnLine(v.record)]
                 /\ \A d \in completed' : d.record # v.record
      <4>1. CASE v \in written
        BY <2>7, <4>1 DEF PInv, WrittenWell
      <4>2. CASE v = w
        BY <1>2, <2>2, <2>4, <2>7, <2>8, <4>2
      <4> QED
        BY <2>1, <4>1, <4>2
    <3> QED
      BY <1>1, <1>3, <2>6, <3>1, Same DEF WrittenWell
  <2>10. Accounted'
    <3>1. ASSUME NEW i \in 1..Decided
          PROVE  \/ Promised(i) = "drop"
                 \/ \E d \in completed' : d.record = i
                 \/ \E v \in written' : v.record = i
      BY <1>1, <2>1, <2>8 DEF PInv, Accounted
    <3>2. failure' # "form"
      BY <2>1, Nones
    <3> QED
      BY <1>1, <1>3, <3>1, <3>2, Same DEF Accounted
  <2>11. Counts'
    <3>1. /\ stats'.output = stats.output + 1 /\ stats'.admitted = stats.admitted
          /\ stats'.sourceTombstones = stats.sourceTombstones /\ stats'.drop = stats.drop
          /\ stats'.pass = stats.pass /\ stats'.project = stats.project
          /\ stats'.tombstone = stats.tombstone
      BY <2>1, CountsFacts DEF Counters
    <3>2. /\ \A actions : DecidedAs(Decided, actions)' = DecidedAs(Decided, actions)
          /\ Generated(Decided)' = Generated(Decided) /\ Sources(Entered)' = Sources(Entered)
      BY <1>1, <1>3, Same DEF DecidedAs, Generated, Sources
    <3> QED
      BY <1>3, <1>12, <2>6, <3>1, <3>2 DEF PInv, Counts
  <2> QED
    BY <1>4, <1>7, <1>8, <1>9, <1>10, <1>13, <2>9, <2>10, <2>11 DEF PInv
<1> QED
  BY <1>14, <1>15

-----------------------------------------------------------------------------
\* The invariant holds.

LEMMA InitPInv == Init => PInv
<1> SUFFICES ASSUME Init PROVE PInv
  OBVIOUS
<1>1. IInv
  BY PoolStart DEF Init
<1>2. Entered = 0 /\ Reached = 0 /\ Decided = 0
  <2>1. polled = 0 /\ pending = None /\ current = None /\ Len(work) = 0
    BY DEF Init
  <2>2. Entered = 0 - 0
    BY <2>1 DEF Entered
  <2>3. Reached = 0
    BY <2>1, <2>2 DEF Reached
  <2> QED
    BY <2>1, <2>2, <2>3 DEF Decided
<1>3. IsFiniteSet({}) /\ Cardinality({}) = 0
  BY FS_EmptySet
<1>4. Typed
  <2>1. stats = [c \in Counters |-> stats[c]]
    BY DEF Init, Counters
  <2>2. scratch \in Buffer
    BY VectorFacts DEF Init
  <2> QED
    BY <2>1, <2>2, LogAssumption DEF Init, Typed
<1>5. Placed /\ Evaluated
  BY <1>2 DEF Init, Placed, Evaluated
<1>6. CompletedWell /\ WrittenWell
  BY <1>3 DEF Init, CompletedWell, WrittenWell
<1>7. Accounted
  BY <1>2, Nones DEF Init, Accounted
<1>8. ScratchWell
  BY VectorFacts, PoolAssumption DEF Init, ScratchWell
<1>9. Counts
  <2>1. /\ Sources(0) = {} /\ Generated(0) = {} /\ \A actions : DecidedAs(0, actions) = {}
    BY DEF Sources, Generated, DecidedAs
  <2>2. /\ stats.admitted = 0 /\ stats.sourceTombstones = 0 /\ stats.output = 0 /\ stats.drop = 0
        /\ stats.pass = 0 /\ stats.project = 0 /\ stats.tombstone = 0 /\ written = {}
    BY DEF Init
  <2> QED
    BY <1>2, <1>3, <2>1, <2>2 DEF Counts
<1> QED
  BY <1>1, <1>4, <1>5, <1>6, <1>7, <1>8, <1>9 DEF PInv

LEMMA StutterStep ==
    ASSUME PInv, UNCHANGED vars
    PROVE  PInv' /\ [PoolNext]_poolVars
<1>1. UNCHANGED <<poolVars, options, pollerVars, work, workerVars, completed, writerVars, stats>>
  BY DEF vars
<1>2. Entered' = Entered /\ Reached' = Reached /\ Decided' = Decided
  BY <1>1 DEF Entered, Reached, Decided, pollerVars, workerVars
<1>3. Typed'
  BY <1>1 DEF PInv, Typed, Accepts, PlanCompiles, pollerVars, workerVars, writerVars
<1>4. Placed'
  <2>1. \A item, k : Carries(item, k)' = Carries(item, k)
    BY <1>1, Same DEF Carries
  <2> QED
    BY <1>1, <1>2, <2>1, Same DEF PInv, Placed, Carries, pollerVars, workerVars
<1>5. Evaluated'
  BY <1>1, <1>2, Same DEF PInv, Evaluated, workerVars
<1>6. CompletedWell' /\ WrittenWell' /\ Accounted' /\ (Healthy' <=> Healthy)
  BY <1>1, <1>2, StillCompleted DEF writerVars
<1>7. ScratchWell'
  BY <1>1, <1>6 DEF PInv, ScratchWell, workerVars
<1>8. Counts'
  BY <1>1, <1>2, <1>6, StillCounts DEF writerVars
<1>9. IInv' /\ [PoolNext]_poolVars
  BY <1>1, PoolSame DEF PInv
<1> QED
  BY <1>3, <1>4, <1>5, <1>6, <1>7, <1>8, <1>9 DEF PInv

LEMMA NextPInv ==
    ASSUME PInv, [Next]_vars
    PROVE  PInv' /\ [PoolNext]_poolVars
<1>1. CASE Poll
  BY <1>1, PollStep
<1>2. CASE AdmitToWorker
  BY <1>2, AdmitToWorkerStep
<1>3. CASE AdmitToWriter
  BY <1>3, AdmitToWriterStep
<1>4. CASE RecycleReleased
  BY <1>4, RecycleReleasedStep
<1>5. CASE Worker
  BY <1>5, TakeStep, TombstoneStep, RejectJsonStep, EvaluateStep, SerializeStep,
     SerializeFailsStep, PassExactStep, PanicStep DEF Worker
<1>6. CASE Write
  BY <1>6, WriteStep
<1>7. CASE End \/ UNCHANGED vars
  BY <1>7, StutterStep DEF End
<1> QED
  BY <1>1, <1>2, <1>3, <1>4, <1>5, <1>6, <1>7 DEF Next

LEMMA Invariant == Spec => []PInv
<1>1. PInv /\ [Next]_vars => PInv'
  BY NextPInv
<1> QED
  BY <1>1, InitPInv, PTL DEF Spec

\* A pipeline uses the pool as its specification says: it copies and returns vectors,
\* whichever they are by then, and changes nothing of it else.
THEOREM PipelineUsesPool == Spec => PoolSpec
<1>1. Init => PoolInit
  BY DEF Init
<1>2. PInv /\ [Next]_vars => [PoolNext]_poolVars
  BY NextPInv
<1> QED
  BY <1>1, <1>2, Invariant, PTL DEF Spec, PoolSpec

-----------------------------------------------------------------------------
\* What follows of the storage and the actions.

\* For any records and command lines, each way through the transform leaves the
\* storage of a payload in the action or beside it, and a worker that is between
\* two records has no data of the last one.
THEOREM StorageComesBack == Spec => []StorageReturns
<1>1. ASSUME PInv PROVE StorageReturns
  <2>1. ASSUME NEW c \in completed
        PROVE  IF Log[c.record].payload = None THEN c.bytes = None /\ c.spare = None
                                               ELSE (c.bytes = None) # (c.spare = None)
    <3>1. Completed(c)
      BY <1>1 DEF PInv, CompletedWell
    <3> QED
      BY <3>1, Nones DEF Completed
  <2> QED
    BY <1>1, <2>1 DEF StorageReturns, PInv, ScratchWell, Healthy
<1> QED
  BY <1>1, Invariant, PTL

\* When a run is over no record is on its way.
LEMMA DoneFacts ==
    ASSUME PInv, Done
    PROVE  completed = {} /\ Decided = Len(Log) /\ Entered = Len(Log) /\ Len(Log) \in Nat
<1> DEFINE n == Cardinality(completed)
           m == Len(work)
           k == IF current = None THEN 0 ELSE 1
           l == Len(released)
<1>1. n \in Nat /\ m \in Nat /\ k \in {0, 1} /\ l \in Nat
  BY FS_CardinalityType DEF PInv, CompletedWell, Typed
<1>2. m + k + n + l = 0
  BY DEF Done, InFlight
<1> HIDE DEF n, m, k, l
<1>3. n = 0 /\ m = 0 /\ k = 0
  BY <1>1, <1>2
<1>4. completed = {}
  BY <1>3, FS_EmptySet DEF n, PInv, CompletedWell
<1>5. current = None /\ Len(work) = 0 /\ pending = None /\ polled = Len(Log)
  BY <1>3 DEF k, m, Done
<1> QED
  BY <1>4, <1>5, Positions

LEMMA EmittedAreWritten ==
    ASSUME PInv, Done, failure = None
    PROVE  {w.record : w \in written} = Emitted
<1>1. ASSUME NEW i \in Emitted PROVE \E w \in written : w.record = i
  <2>1. i \in 1..Decided /\ Promised(i) # "drop"
    BY DoneFacts, Positions DEF Emitted
  <2> QED
    BY <2>1, DoneFacts DEF PInv, Accounted
<1>2. ASSUME NEW w \in written PROVE w.record \in Emitted
  BY Positions DEF PInv, WrittenWell, Emitted
<1> QED
  BY <1>1, <1>2

\* For any records and command lines, whatever is written of a record has the action
\* that the documentation promises, a run without failures writes all that is to be
\* written, and write_action never finds a payload in the wrong form.
THEOREM ActionsAreAsPromised == Spec => []ActionsAsPromised
<1>1. ASSUME PInv PROVE ActionsAsPromised
  <2>1. ASSUME NEW w \in written
        PROVE  w.record \in Emitted /\ w.action = Promised(w.record)
    <3>1. /\ w.record \in 1..Decided /\ Promised(w.record) \notin {"drop", "fatal"}
          /\ w = [record |-> w.record, action |-> Promised(w.record), line |-> OwnLine(w.record)]
      BY <1>1 DEF PInv, WrittenWell
    <3>2. w.action = Promised(w.record)
      BY <3>1
    <3> QED
      BY <1>1, <3>1, <3>2, Positions DEF Emitted
  <2> QED
    BY <1>1, <2>1, EmittedAreWritten DEF PInv, Accounted, ActionsAsPromised
<1> QED
  BY <1>1, Invariant, PTL

-----------------------------------------------------------------------------
\* The totals.

LEMMA Apart ==
    ASSUME NEW S, NEW T, IsFiniteSet(S), IsFiniteSet(T), S \intersect T = {}
    PROVE  /\ IsFiniteSet(S \union T)
           /\ Cardinality(S \union T) = Cardinality(S) + Cardinality(T)
           /\ Cardinality(S) \in Nat /\ Cardinality(T) \in Nat
<1>1. Cardinality(S \union T) = Cardinality(S) + Cardinality(T) - Cardinality(S \intersect T)
      /\ IsFiniteSet(S \union T)
  BY FS_Union
<1>2. Cardinality(S \intersect T) = 0
  BY FS_EmptySet
<1>3. Cardinality(S) \in Nat /\ Cardinality(T) \in Nat
  BY FS_CardinalityType
<1> QED
  BY <1>1, <1>2, <1>3

\* There is one line for each record written.
LEMMA WrittenCount ==
    ASSUME PInv
    PROVE  Cardinality({w.record : w \in written}) = Cardinality(written)
<1> DEFINE records == {w.record : w \in written}
           f == [w \in written |-> w.record]
<1>1. \A v, w \in written : v.record = w.record => v = w
  <2> SUFFICES ASSUME NEW v \in written, NEW w \in written, v.record = w.record PROVE v = w
    OBVIOUS
  <2>1. /\ v = [record |-> v.record, action |-> Promised(v.record), line |-> OwnLine(v.record)]
        /\ w = [record |-> w.record, action |-> Promised(w.record), line |-> OwnLine(w.record)]
    BY DEF PInv, WrittenWell
  <2> QED
    BY <2>1
<1>2. f \in Bijection(written, records)
  <2>1. f \in [written -> records]
    OBVIOUS
  <2>2. IsInjective(f)
    BY <1>1 DEF IsInjective
  <2>3. \A r \in records : \E w \in written : f[w] = r
    OBVIOUS
  <2> QED
    BY <2>1, <2>2, <2>3 DEF Bijection, Injection, Surjection
<1>3. ExistsBijection(written, records)
  BY <1>2 DEF ExistsBijection
<1>4. IsFiniteSet(written)
  BY DEF PInv, WrittenWell
<1> QED
  BY <1>3, <1>4, FS_Bijection

\* In a run without failures each record is dropped, passed, projected, a tombstone
\* that was generated, or a source tombstone that is kept.
LEMMA Totals ==
    ASSUME PInv, Done, failure = None
    PROVE  LET kept == IF options.dropTombstones THEN 0 ELSE stats.sourceTombstones IN
           /\ stats.output = stats.pass + stats.project + stats.tombstone + kept
           /\ stats.admitted = stats.output + stats.drop
<1> DEFINE n == Len(Log)
           drops == DecidedAs(n, {"drop"})
           passes == DecidedAs(n, {"exact", "json"})
           projects == DecidedAs(n, {"project"})
           generated == Generated(n)
           sources == IF options.dropTombstones THEN {} ELSE Sources(n)
           kept == IF options.dropTombstones THEN 0 ELSE stats.sourceTombstones
<1>1. n \in Nat /\ completed = {} /\ Decided = n /\ Entered = n /\ DOMAIN Log = 1..n
  BY DoneFacts, Positions
<1>2. /\ stats.admitted = n /\ stats.output = Cardinality(Emitted)
      /\ stats.drop = Cardinality(drops) /\ stats.pass = Cardinality(passes)
      /\ stats.project = Cardinality(projects) /\ stats.tombstone = Cardinality(generated)
  <2>1. Healthy
    BY <1>1 DEF Healthy
  <2>2. Cardinality(Emitted) = Cardinality(written)
    BY WrittenCount, EmittedAreWritten
  <2> QED
    BY <1>1, <2>1, <2>2 DEF PInv, Counts
<1>3. kept = Cardinality(sources)
  <2>1. Cardinality({}) = 0
    BY FS_EmptySet
  <2>2. stats.sourceTombstones = Cardinality(Sources(n))
    BY <1>1 DEF PInv, Counts
  <2> QED
    BY <2>1, <2>2
<1>4. \A i \in 1..n : /\ Promised(i) \in Actions \ {"fatal"}
                      /\ Log[i].payload = None =>
                           Promised(i) = IF options.dropTombstones THEN "drop" ELSE "tombstone"
  <2> SUFFICES ASSUME NEW i \in 1..n
               PROVE  /\ Promised(i) \in Actions \ {"fatal"}
                      /\ Log[i].payload = None =>
                           Promised(i) = IF options.dropTombstones THEN "drop" ELSE "tombstone"
    OBVIOUS
  <2>1. Promised(i) \in Actions /\ (Log[i].payload = None => Promised(i) = TombstoneAction)
    BY <1>1, PromisedKinds DEF PInv, Typed
  <2>2. Promised(i) = "drop" \/ \E w \in written : w.record = i
    BY <1>1 DEF PInv, Accounted
  <2>3. Promised(i) # "fatal"
    BY <2>2 DEF PInv, WrittenWell
  <2> QED
    BY <2>1, <2>3 DEF TombstoneAction
<1>5. /\ 1..n = drops \union Emitted /\ drops \intersect Emitted = {}
      /\ Emitted = ((passes \union projects) \union generated) \union sources
      /\ passes \intersect projects = {} /\ (passes \union projects) \intersect generated = {}
      /\ ((passes \union projects) \union generated) \intersect sources = {}
  <2>1. 1..n = drops \union Emitted /\ drops \intersect Emitted = {}
    BY <1>1, <1>4 DEF DecidedAs, Emitted
  <2>2. Emitted = ((passes \union projects) \union generated) \union sources
    BY <1>1, <1>4 DEF DecidedAs, Emitted, Generated, Sources, Actions
  <2>3. passes \intersect projects = {} /\ (passes \union projects) \intersect generated = {}
    BY DEF DecidedAs, Generated
  <2>4. ((passes \union projects) \union generated) \intersect sources = {}
    BY <1>4 DEF DecidedAs, Generated, Sources
  <2> QED
    BY <2>1, <2>2, <2>3, <2>4
<1>6. IsFiniteSet(1..n) /\ Cardinality(1..n) = n
  <2>1. n \in Nat
    BY <1>1
  <2> HIDE DEF n
  <2> QED
    BY <2>1, FS_Interval
<1>7. /\ IsFiniteSet(drops) /\ IsFiniteSet(Emitted) /\ IsFiniteSet(passes) /\ IsFiniteSet(projects)
      /\ IsFiniteSet(generated) /\ IsFiniteSet(sources)
  <2>1. \A S : S \subseteq 1..n => IsFiniteSet(S)
    BY <1>6, FS_Subset
  <2>2. drops \subseteq 1..n /\ passes \subseteq 1..n /\ projects \subseteq 1..n
    BY DEF DecidedAs
  <2>3. generated \subseteq 1..n /\ sources \subseteq 1..n /\ Emitted \subseteq 1..n
    BY <1>1 DEF Generated, DecidedAs, Sources, Emitted
  <2> QED
    BY <2>1, <2>2, <2>3
<1> HIDE DEF n, drops, passes, projects, generated, sources, kept
<1>8. n = Cardinality(drops) + Cardinality(Emitted)
  BY <1>5, <1>6, <1>7, Apart
<1>9. /\ IsFiniteSet(passes \union projects)
      /\ Cardinality(passes \union projects) = Cardinality(passes) + Cardinality(projects)
  BY <1>5, <1>7, Apart
<1>10. /\ IsFiniteSet((passes \union projects) \union generated)
       /\ Cardinality((passes \union projects) \union generated)
            = Cardinality(passes \union projects) + Cardinality(generated)
  BY <1>5, <1>7, <1>9, Apart
<1>11. Cardinality(Emitted)
         = Cardinality((passes \union projects) \union generated) + Cardinality(sources)
  BY <1>5, <1>7, <1>10, Apart
<1>12. Cardinality(drops) \in Nat /\ Cardinality(Emitted) \in Nat
  BY <1>7, FS_CardinalityType
<1>13. stats.output = stats.pass + stats.project + stats.tombstone + kept
  BY <1>2, <1>3, <1>9, <1>10, <1>11
<1>14. stats.admitted = stats.output + stats.drop
  BY <1>2, <1>8, <1>12
<1> QED
  BY <1>13, <1>14 DEF kept

\* For any records and command lines, the counters that poller, worker and writer keep
\* apart account for every record once.
THEOREM RecordsAddUp == Spec => []StatsAddUp
<1>1. ASSUME PInv PROVE StatsAddUp
  <2>1. stats.output = Cardinality(written)
    BY <1>1 DEF PInv, Counts
  <2> QED
    BY <1>1, <2>1, Totals DEF StatsAddUp
<1> QED
  BY <1>1, Invariant, PTL

-----------------------------------------------------------------------------
\* Sums.

LEMMA SumRun ==
    ASSUME NEW list \in Seq(Nat), NEW n, n = Len(list)
    PROVE  \E g \in [0..n -> Nat] : g[0] = 0 /\ (\A k \in 1..n : g[k] = g[k - 1] + list[k]) /\ Sum(list) = g[n]
<1> DEFINE V == Nat
           F == [a \in V \X (1..n) |-> Plus(a[1], list[a[2]])]
<1>1. n \in Nat /\ DOMAIN list = 1..n /\ 0 \in V
  OBVIOUS
<1>2. ASSUME NEW v \in V, NEW k \in 1..n PROVE Plus(v, list[k]) \in V
  BY <1>1 DEF Plus
<1>3. F \in Steps(V, n) /\ \A v \in V, k \in 1..n : F[<<v, k>>] = Plus(v, list[k])
  BY <1>2 DEF Steps
<1>4. PICK h \in [SUBSET (1..n) -> V] : IsFold(h, 0, n, F)
  <2> HIDE DEF V, F
  <2> QED
    BY <1>1, <1>3, Iterates
<1>5. PICK g \in [0..n -> V] : IsRun(g, 0, n, F, h[1..n])
  <2> HIDE DEF V, F
  <2> QED
    BY <1>1, <1>4, Runs
<1>6. ASSUME NEW k \in 1..n PROVE g[k] = Plus(g[k - 1], list[k])
  <2> HIDE DEF V, F
  <2>1. g[k - 1] \in V
    BY <1>1
  <2> QED
    BY <1>3, <1>5, <2>1 DEF IsRun
<1> DEFINE E(f) == f = [t \in SUBSET (1..n) |->
                          IF t = {} THEN 0 ELSE Plus(f[t \ {Max(t)}], list[Max(t)])]
<1>7. E(h)
  <2> HIDE DEF V, F
  <2> SUFFICES ASSUME NEW t \in SUBSET (1..n)
               PROVE  h[t] = IF t = {} THEN 0 ELSE Plus(h[t \ {Max(t)}], list[Max(t)])
    OBVIOUS
  <2>1. CASE t = {}
    BY <1>4, <2>1 DEF IsFold
  <2>2. CASE t # {}
    <3>1. Max(t) \in 1..n /\ t \ {Max(t)} \in SUBSET (1..n)
      BY <1>1, <2>2, LargestIn
    <3>2. h[t] = F[<<h[t \ {Max(t)}], Max(t)>>] /\ h[t \ {Max(t)}] \in V
      BY <1>4, <2>2, <3>1 DEF IsFold
    <3> QED
      BY <1>3, <2>2, <3>1, <3>2
  <2> QED
    BY <2>1, <2>2
<1> DEFINE iter == CHOOSE f : E(f)
<1>8. E(iter)
  <2> HIDE DEF E
  <2> QED
    BY <1>7
<1>9. FoldLeft(Plus, 0, list) = iter[1..n]
  BY <1>1 DEF FoldLeft, MapThenFoldSet
<1> HIDE DEF iter, V
<1>10. iter = h
  <2>1. OfPlaces(iter, n) /\ OfPlaces(h, n)
    BY <1>8 DEF OfPlaces
  <2>2. Alike(iter, h, n)
    <3>1. ASSUME NEW f, E(f), NEW t \in SUBSET (1..n)
          PROVE  f[t] = IF t = {} THEN 0 ELSE Plus(f[t \ {Max(t)}], list[Max(t)])
      BY <3>1
    <3> HIDE DEF E
    <3>2. iter[{}] = h[{}]
      BY <1>7, <1>8, <3>1
    <3>3. ASSUME NEW t \in SUBSET (1..n), t # {}, iter[t \ {Max(t)}] = h[t \ {Max(t)}]
          PROVE  iter[t] = h[t]
      <4>1. iter[t] = Plus(iter[t \ {Max(t)}], list[Max(t)])
        BY <1>8, <3>1, <3>3
      <4>2. h[t] = Plus(h[t \ {Max(t)}], list[Max(t)])
        BY <1>7, <3>1, <3>3
      <4> QED
        BY <3>3, <4>1, <4>2
    <3> QED
      BY <3>2, <3>3 DEF Alike
  <2> HIDE DEF E
  <2> QED
    BY <1>1, <2>1, <2>2, SameFold
<1> QED
  BY <1>5, <1>6, <1>9, <1>10 DEF IsRun, V, Plus, Sum

LEMMA SumNat == ASSUME NEW list \in Seq(Nat) PROVE Sum(list) \in Nat
<1>1. PICK g \in [0..Len(list) -> Nat] : Sum(list) = g[Len(list)]
  BY SumRun
<1>2. Len(list) \in 0..Len(list)
  OBVIOUS
<1> QED
  BY <1>1, <1>2

\* A sum that has grown by the last number.
LEMMA SumAdds ==
    ASSUME NEW list \in Seq(Nat), NEW x \in Nat
    PROVE  Sum(Append(list, x)) = Sum(list) + x
<1> DEFINE n == Len(list)
           longer == Append(list, x)
<1>1. n \in Nat /\ longer \in Seq(Nat) /\ Len(longer) = n + 1 /\ longer[n + 1] = x
      /\ \A k \in 1..n : longer[k] = list[k] /\ list[k] \in Nat
  OBVIOUS
<1>2. PICK g \in [0..n -> Nat] :
        g[0] = 0 /\ (\A k \in 1..n : g[k] = g[k - 1] + list[k]) /\ Sum(list) = g[n]
  BY SumRun
<1> HIDE DEF n, longer
<1>3. PICK h \in [0..(n + 1) -> Nat] :
        h[0] = 0 /\ (\A k \in 1..(n + 1) : h[k] = h[k - 1] + longer[k]) /\ Sum(longer) = h[n + 1]
  BY <1>1, SumRun
<1> DEFINE Equal == {k \in 0..n : h[k] = g[k]}
<1>4. 0 \in Equal
  BY <1>1, <1>2, <1>3
<1>5. ASSUME NEW k \in 1..n, k - 1 \in Equal PROVE k \in Equal
  <2>1. k \in 1..(n + 1) /\ k \in 0..n
    BY <1>1
  <2>2. h[k] = h[k - 1] + longer[k] /\ g[k] = g[k - 1] + list[k]
    BY <1>2, <1>3, <2>1
  <2> QED
    BY <1>1, <1>5, <2>1, <2>2
<1>6. h[n] = g[n]
  <2>1. n \in 0..n
    BY <1>1
  <2>2. n \in Equal
    <3> HIDE DEF Equal
    <3> QED
      BY <1>1, <1>4, <1>5, <2>1, Climbs
  <2> QED
    BY <2>2
<1>7. h[n + 1] = h[n] + x
  <2>1. n + 1 \in 1..(n + 1) /\ (n + 1) - 1 = n
    BY <1>1
  <2> QED
    BY <1>1, <1>3, <2>1
<1> QED
  BY <1>2, <1>3, <1>6, <1>7 DEF longer

\* The same number more at each place.
LEMMA SumLifts ==
    ASSUME NEW n \in Nat, NEW c \in Nat, NEW f \in [1..n -> Nat]
    PROVE  Sum([k \in 1..n |-> f[k] + c]) = Sum(f) + n * c
<1> DEFINE more == [k \in 1..n |-> f[k] + c]
<1>1. f \in Seq(Nat) /\ Len(f) = n
  <2>1. f \in Seq(Nat)
    BY SeqDef
  <2> QED
    BY <2>1
<1>2. more \in Seq(Nat) /\ Len(more) = n
  <2>1. more \in [1..n -> Nat]
    OBVIOUS
  <2>2. more \in Seq(Nat)
    BY <2>1, SeqDef
  <2> HIDE DEF more
  <2> QED
    BY <2>1, <2>2
<1>3. \A k \in 1..n : more[k] = f[k] + c
  OBVIOUS
<1> HIDE DEF more
<1>4. PICK g \in [0..n -> Nat] :
        g[0] = 0 /\ (\A k \in 1..n : g[k] = g[k - 1] + f[k]) /\ Sum(f) = g[n]
  BY <1>1, SumRun
<1>5. PICK h \in [0..n -> Nat] :
        h[0] = 0 /\ (\A k \in 1..n : h[k] = h[k - 1] + more[k]) /\ Sum(more) = h[n]
  BY <1>2, SumRun
<1> DEFINE Lifted == {k \in 0..n : h[k] = g[k] + k * c}
<1>6. 0 \in Lifted
  BY <1>4, <1>5
<1>7. ASSUME NEW k \in 1..n, k - 1 \in Lifted PROVE k \in Lifted
  <2>1. k \in 0..n /\ k \in Nat
    OBVIOUS
  <2>2. h[k] = h[k - 1] + more[k] /\ g[k] = g[k - 1] + f[k] /\ more[k] = f[k] + c
    BY <1>3, <1>4, <1>5
  <2>3. h[k - 1] = g[k - 1] + (k - 1) * c
    BY <1>7
  <2>4. (k - 1) * c + c = k * c /\ k * c \in Int /\ (k - 1) * c \in Int
    BY <2>1
  <2>5. g[k - 1] \in Nat /\ f[k] \in Nat
    <3>1. k - 1 \in 0..n
      BY <2>1
    <3> QED
      BY <3>1
  <2>6. h[k] = g[k] + k * c
    <3> DEFINE p == (k - 1) * c
               q == k * c
    <3>1. p + c = q /\ p \in Int /\ q \in Int
      BY <2>4
    <3>2. h[k - 1] = g[k - 1] + p
      BY <2>3
    <3> HIDE DEF p, q, Lifted
    <3> DEFINE a == g[k - 1]
               b == f[k]
    <3>3. h[k] = (a + p) + (b + c) /\ g[k] = a + b
      BY <2>2, <3>2
    <3>4. a \in Int /\ b \in Int
      BY <2>5
    <3> HIDE DEF a, b
    <3>5. h[k] = g[k] + q
      BY <3>1, <3>3, <3>4
    <3> QED
      BY <3>5 DEF q
  <2> QED
    BY <2>1, <2>6
<1>8. n \in Lifted
  <2>1. n \in 0..n
    OBVIOUS
  <2> HIDE DEF Lifted
  <2> QED
    BY <1>6, <1>7, <2>1, Climbs
<1> QED
  BY <1>4, <1>5, <1>8 DEF more

-----------------------------------------------------------------------------
\* What a token writes.

Tokens(C) == [field : Placeholders \union {"literal"}, text : Seq(C)]

LEMMA ShortLists ==
    /\ IsList(<<>>)
    /\ \A x : IsList(<<x>>)
<1>1. Range(<<>>) = {} /\ <<>> \in Seq({})
  BY DEF Range
<1>2. ASSUME NEW x PROVE IsList(<<x>>)
  <2>1. x \in Range(<<x>>)
    <3>1. 1 \in DOMAIN <<x>> /\ <<x>>[1] = x
      OBVIOUS
    <3> QED
      BY <3>1 DEF Range
  <2> QED
    BY <2>1 DEF IsList
<1> QED
  BY <1>1, <1>2 DEF IsList

LEMMA ConcatList ==
    ASSUME NEW a, NEW b, IsList(a), IsList(b)
    PROVE  IsList(a \o b) /\ Range(a \o b) = Range(a) \union Range(b)
<1> DEFINE V == Range(a) \union Range(b)
<1>1. a \in Seq(V) /\ b \in Seq(V)
  <2>1. Range(a) \subseteq V /\ Range(b) \subseteq V
    OBVIOUS
  <2> HIDE DEF V
  <2> QED
    BY <2>1, ListOf DEF IsList
<1>2. Range(a \o b) = V /\ a \o b \in Seq(V)
  <2>1. Range(a \o b) = V
    <3> HIDE DEF V
    <3> QED
      BY <1>1, ConcatRange DEF V
  <2>2. a \o b \in Seq(V)
    <3> HIDE DEF V
    <3> QED
      BY <1>1
  <2> QED
    BY <2>1, <2>2
<1> QED
  BY <1>2 DEF IsList

\* A record whose metadata are lists and byte strings.
Sound(r) ==
    /\ IsBytes(r.key)
    /\ IsList(r.headers) /\ \A h \in DOMAIN r.headers : IsBytes(r.headers[h].value)
    /\ r.payload # None => r.payload.length \in Nat /\ r.payload.reported \in Nat

\* A piece has a length, and is no length that %R cannot hold.
Proper(piece) == piece.length \in Nat /\ (piece.is = "int32" => piece.of <= I32Max)

LEMMA RawPieces ==
    ASSUME NEW bytes, IsBytes(bytes)
    PROVE  IsList(Raw(bytes)) /\ \A piece \in Range(Raw(bytes)) : Proper(piece)
<1>1. CASE bytes = None \/ bytes.length = 0
  <2>1. Raw(bytes) = <<>> /\ Range(<<>>) = {}
    BY <1>1 DEF Raw, Range
  <2> QED
    BY <2>1, ShortLists
<1>2. CASE ~(bytes = None \/ bytes.length = 0)
  <2> DEFINE piece == Piece("bytes", bytes.data, bytes.length)
  <2>1. Proper(piece)
    BY <1>2 DEF Proper, Piece, IsBytes
  <2>2. Raw(bytes) = <<piece>>
    BY <1>2 DEF Raw
  <2> HIDE DEF piece
  <2>3. Range(<<piece>>) = {piece}
    BY DEF Range
  <2> QED
    BY <2>1, <2>2, <2>3, ShortLists
<1> QED
  BY <1>1, <1>2

LEMMA Singles ==
    /\ \A x : Proper(Literal(x)) /\ Proper(Number(x))
    /\ \A x : Range(<<x>>) = {x}
<1>1. \A x : Proper(Literal(x)) /\ Proper(Number(x))
  BY DEF Proper, Literal, Number, Piece
<1>2. \A x : Range(<<x>>) = {x}
  BY DEF Range
<1> QED
  BY <1>1, <1>2

\* What is written of each header.
HeaderLists(headers) ==
    [i \in DOMAIN headers |->
        (IF i = 1 THEN <<>> ELSE <<Literal(",")>>)
          \o <<Literal(headers[i].name), Literal("=")>>
          \o IF headers[i].value = None THEN <<Literal("NULL")>> ELSE Raw(headers[i].value)]

LEMMA HeaderLines ==
    ASSUME NEW headers, IsList(headers), \A h \in DOMAIN headers : IsBytes(headers[h].value)
    PROVE  /\ IsList(HeaderPieces(headers))
           /\ \A piece \in Range(HeaderPieces(headers)) : Proper(piece)
<1> DEFINE Good(s) == IsList(s) /\ \A piece \in Range(s) : Proper(piece)
           lists == HeaderLists(headers)
<1>1. ASSUME NEW a, NEW b, Good(a), Good(b) PROVE Good(a \o b)
  BY <1>1, ConcatList
<1>2. \A x : Good(<<Literal(x)>>)
  BY Singles, ShortLists
<1>3. Good(<<>>)
  BY ShortLists DEF Range
<1> HIDE DEF Good
<1>4. ASSUME NEW i \in DOMAIN headers PROVE Good(lists[i])
  <2> DEFINE first == IF i = 1 THEN <<>> ELSE <<Literal(",")>>
             name == <<Literal(headers[i].name), Literal("=")>>
             value == IF headers[i].value = None THEN <<Literal("NULL")>> ELSE Raw(headers[i].value)
  <2>1. Good(first)
    BY <1>2, <1>3
  <2>2. Good(name)
    <3>1. name = <<Literal(headers[i].name)>> \o <<Literal("=")>>
      OBVIOUS
    <3> HIDE DEF name
    <3> QED
      BY <1>1, <1>2, <3>1
  <2>3. Good(value)
    BY <1>2, RawPieces DEF Good
  <2>4. lists[i] = first \o name \o value
    BY DEF HeaderLists
  <2> HIDE DEF first, name, value, lists
  <2>5. Good(first \o name)
    BY <1>1, <2>1, <2>2
  <2> QED
    BY <1>1, <2>3, <2>4, <2>5
<1>5. IsList(lists)
  <2>1. headers \in [1..Len(headers) -> Range(headers)] /\ Len(headers) \in Nat
        /\ DOMAIN headers = 1..Len(headers)
    BY DEF IsList
  <2>2. lists = [i \in 1..Len(headers) |-> lists[i]]
    BY <2>1 DEF HeaderLists
  <2>3. lists \in [1..Len(headers) -> Range(lists)]
    <3> HIDE DEF lists
    <3> QED
      BY <2>2 DEF Range
  <2> HIDE DEF lists
  <2> QED
    BY <2>1, <2>3, SeqDef DEF IsList
<1>6. HeaderPieces(headers) = FlattenSeq(lists)
  BY DEF HeaderPieces, HeaderLists
<1>7. DOMAIN lists = DOMAIN headers
  BY DEF HeaderLists
<1> HIDE DEF lists
<1>8. /\ IsList(FlattenSeq(lists))
      /\ Range(FlattenSeq(lists)) = UNION {Range(l) : l \in Range(lists)}
  BY <1>4, <1>5, <1>7, FlattenedList DEF IsList, Good
<1>9. \A piece \in Range(FlattenSeq(lists)) : Proper(piece)
  BY <1>4, <1>7, <1>8 DEF Range, Good
<1> QED
  BY <1>6, <1>8, <1>9

LEMMA LiteralPieces ==
    ASSUME NEW C, NEW text \in Seq(C)
    PROVE  LET s == [i \in DOMAIN text |-> Literal(text[i])] IN
           /\ IsList(s) /\ Len(s) = Len(text) /\ \A piece \in Range(s) : Proper(piece)
<1> DEFINE s == [i \in DOMAIN text |-> Literal(text[i])]
<1>1. Len(text) \in Nat /\ DOMAIN text = 1..Len(text)
  OBVIOUS
<1>2. s \in [1..Len(text) -> Range(s)]
  BY <1>1 DEF Range
<1>3. s \in Seq(Range(s))
  <2> HIDE DEF s
  <2> QED
    BY <1>1, <1>2, SeqDef
<1>4. \A piece \in Range(s) : Proper(piece)
  BY Singles DEF Range
<1>5. Len(s) = Len(text)
  <2>1. DOMAIN s = 1..Len(text)
    BY <1>1
  <2> HIDE DEF s
  <2> QED
    BY <1>1, <1>3, <2>1
<1> HIDE DEF s
<1> QED
  BY <1>3, <1>4, <1>5 DEF IsList, s

LEMMA TokenPieces ==
    ASSUME NEW C, NEW t \in Tokens(C), NEW r, Sound(r)
    PROVE  /\ IsList(Pieces(t, r))
           /\ (t.field = "%R" => PayloadLength(r.payload) <= I32Max) =>
                \A piece \in Range(Pieces(t, r)) : Proper(piece)
<1> DEFINE Good(s) == IsList(s) /\ \A piece \in Range(s) : Proper(piece)
<1>1. \A x : Good(<<Literal(x)>>) /\ Good(<<Number(x)>>)
  BY Singles, ShortLists
<1>2. CASE t.field = "literal"
  <2>1. Pieces(t, r) = [i \in DOMAIN t.text |-> Literal(t.text[i])] /\ t.text \in Seq(C)
    BY <1>2 DEF Pieces, Tokens
  <2> QED
    BY <2>1, LiteralPieces
<1>3. CASE t.field = "%k"
  <2>1. Pieces(t, r) = Raw(r.key)
    BY <1>3 DEF Pieces
  <2> QED
    BY <2>1, RawPieces DEF Sound
<1>4. CASE t.field = "%s"
  <2>1. Pieces(t, r) = Raw(r.payload) /\ IsBytes(r.payload)
    BY <1>4 DEF Pieces, Sound, IsBytes
  <2> QED
    BY <2>1, RawPieces
<1>5. CASE t.field = "%R"
  <2> DEFINE piece == Piece("int32", PayloadLength(r.payload), 4)
  <2>1. Pieces(t, r) = <<piece>>
    BY <1>5 DEF Pieces
  <2>2. PayloadLength(r.payload) <= I32Max => Proper(piece)
    BY DEF Proper, Piece
  <2> HIDE DEF piece
  <2> QED
    BY <1>5, <2>1, <2>2, Singles, ShortLists
<1>6. CASE t.field = "%h"
  <2>1. Pieces(t, r) = HeaderPieces(r.headers)
    BY <1>6 DEF Pieces
  <2> QED
    BY <2>1, HeaderLines DEF Sound
<1>7. CASE t.field \in {"%o", "%K", "%S", "%L", "%t", "%p", "%T", "%a"}
  <2>1. \E x : Pieces(t, r) = <<Literal(x)>> \/ Pieces(t, r) = <<Number(x)>>
    BY <1>7 DEF Pieces
  <2> HIDE DEF Good
  <2>2. Good(Pieces(t, r))
    BY <1>1, <2>1
  <2> QED
    BY <2>2 DEF Good
<1>8. t.field \in Placeholders \union {"literal"}
  BY DEF Tokens
<1> QED
  BY <1>2, <1>3, <1>4, <1>5, <1>6, <1>7, <1>8 DEF Placeholders

-----------------------------------------------------------------------------
\* A line, token by token.

PieceSet(C, r) == UNION {Range(Pieces(t, r)) : t \in Tokens(C)}
LineLists(format, r) == [i \in DOMAIN format |-> Pieces(format[i], r)]

LEMMA PiecesIn ==
    ASSUME NEW C, NEW t \in Tokens(C), NEW r, Sound(r)
    PROVE  Pieces(t, r) \in Seq(PieceSet(C, r))
<1>1. Range(Pieces(t, r)) \subseteq PieceSet(C, r)
  BY DEF PieceSet
<1> QED
  BY <1>1, TokenPieces, ListOf DEF IsList

LEMMA LineListsIn ==
    ASSUME NEW C, NEW format \in Seq(Tokens(C)), NEW r, Sound(r)
    PROVE  /\ LineLists(format, r) \in Seq(Seq(PieceSet(C, r)))
           /\ Line(format, r) = FlattenSeq(LineLists(format, r))
<1> DEFINE lists == LineLists(format, r)
           P == PieceSet(C, r)
<1>1. Len(format) \in Nat /\ DOMAIN format = 1..Len(format)
      /\ \A i \in 1..Len(format) : format[i] \in Tokens(C)
  OBVIOUS
<1>2. lists \in [1..Len(format) -> Seq(P)]
  BY <1>1, PiecesIn DEF LineLists
<1>3. Line(format, r) = FlattenSeq(lists)
  BY DEF Line, LineLists
<1> HIDE DEF lists, P
<1>4. lists \in Seq(Seq(P))
  BY <1>1, <1>2, SeqDef
<1> QED
  BY <1>3, <1>4 DEF lists, P

LEMMA LineIn ==
    ASSUME NEW C, NEW format \in Seq(Tokens(C)), NEW r, Sound(r)
    PROVE  /\ Line(format, r) \in Seq(PieceSet(C, r))
           /\ ~Overflows(format, r) => \A piece \in Range(Line(format, r)) : Proper(piece)
           /\ \A n \in DOMAIN Line(format, r) : Line(format, r)[n].length \in Nat
<1> DEFINE lists == LineLists(format, r)
           P == PieceSet(C, r)
<1>1. lists \in Seq(Seq(P)) /\ Line(format, r) = FlattenSeq(lists)
  BY LineListsIn
<1>2. DOMAIN lists = DOMAIN format /\ \A i \in DOMAIN format : lists[i] = Pieces(format[i], r)
  BY DEF LineLists
<1> HIDE DEF lists, P
<1>3. Line(format, r) \in Seq(P) /\ Range(Line(format, r)) = UNION {Range(l) : l \in Range(lists)}
  BY <1>1, FlattenedRange
<1>4. ASSUME NEW piece \in Range(Line(format, r))
      PROVE  \E i \in DOMAIN format : piece \in Range(Pieces(format[i], r))
  <2>1. PICK l \in Range(lists) : piece \in Range(l)
    BY <1>3
  <2>2. PICK i \in DOMAIN lists : l = lists[i]
    BY DEF Range
  <2> QED
    BY <1>2, <2>1, <2>2
<1>5. \A i \in DOMAIN format : format[i] \in Tokens(C)
  OBVIOUS
<1>6. ASSUME ~Overflows(format, r), NEW i \in DOMAIN format
      PROVE  format[i].field = "%R" => PayloadLength(r.payload) <= I32Max
  <2>1. PayloadLength(r.payload) \in Int
    BY DEF PayloadLength, Sound
  <2> QED
    BY <1>6, <2>1, I32MaxAssumption DEF Overflows, Uses
<1>7. ~Overflows(format, r) => \A piece \in Range(Line(format, r)) : Proper(piece)
  BY <1>4, <1>5, <1>6, TokenPieces
<1>8. ASSUME NEW piece \in Range(Line(format, r)) PROVE piece.length \in Nat
  <2>1. PICK i \in DOMAIN format : piece \in Range(Pieces(format[i], r))
    BY <1>4
  <2>2. CASE format[i].field = "%R"
    <3>1. Pieces(format[i], r) = <<Piece("int32", PayloadLength(r.payload), 4)>>
      BY <2>2 DEF Pieces
    <3>2. piece = Piece("int32", PayloadLength(r.payload), 4)
      BY <2>1, <3>1, Singles
    <3> QED
      BY <3>2 DEF Piece
  <2>3. CASE format[i].field # "%R"
    BY <1>5, <2>1, <2>3, TokenPieces DEF Proper
  <2> QED
    BY <2>2, <2>3
<1>9. \A n \in DOMAIN Line(format, r) : Line(format, r)[n].length \in Nat
  BY <1>8 DEF Range
<1> QED
  BY <1>3, <1>7, <1>9 DEF P

LEMMA LineAdds ==
    ASSUME NEW C, NEW format \in Seq(Tokens(C)), NEW t \in Tokens(C), NEW r, Sound(r)
    PROVE  Line(Append(format, t), r) = Line(format, r) \o Pieces(t, r)
<1> DEFINE lists == LineLists(format, r)
           longer == Append(format, t)
           P == PieceSet(C, r)
<1>1. longer \in Seq(Tokens(C)) /\ Len(format) \in Nat /\ Len(longer) = Len(format) + 1
      /\ longer[Len(longer)] = t /\ \A i \in 1..Len(format) : longer[i] = format[i]
      /\ DOMAIN longer = 1..Len(longer) /\ DOMAIN format = 1..Len(format)
  OBVIOUS
<1>2. lists \in Seq(Seq(P)) /\ Line(format, r) = FlattenSeq(lists) /\ Pieces(t, r) \in Seq(P)
  BY LineListsIn, PiecesIn
<1>3. Line(longer, r) = FlattenSeq(LineLists(longer, r))
  BY DEF Line, LineLists
<1>4. LineLists(longer, r) = Append(lists, Pieces(t, r))
  <2>1. Len(lists) = Len(format)
    <3>1. DOMAIN lists = 1..Len(format)
      BY <1>1 DEF LineLists
    <3> HIDE DEF lists
    <3> QED
      BY <1>1, <1>2, <3>1
  <2>2. LineLists(longer, r)
          = [i \in 1..(Len(format) + 1) |-> IF i = Len(format) + 1 THEN Pieces(t, r) ELSE lists[i]]
    <3> HIDE DEF longer
    <3> QED
      BY <1>1 DEF LineLists
  <2> HIDE DEF lists, P, longer
  <2>3. Append(lists, Pieces(t, r))
          = [i \in 1..(Len(format) + 1) |-> IF i = Len(format) + 1 THEN Pieces(t, r) ELSE lists[i]]
    BY <1>1, <1>2, <2>1, AppendPlaces
  <2> QED
    BY <2>2, <2>3
<1> HIDE DEF lists, P
<1>5. FlattenSeq(Append(lists, Pieces(t, r))) = FlattenSeq(lists) \o Pieces(t, r)
  BY <1>2, FlattenedLast
<1> QED
  BY <1>2, <1>3, <1>4, <1>5

-----------------------------------------------------------------------------
\* Compiling a source turns it into a format that writes the same.

Scans(C) == [tokens : Seq(Tokens(C)), literal : Seq(C), failed : BOOLEAN]
Spelled(text) == [i \in DOMAIN text |-> Literal(text[i])]

\* What is written of what has been scanned, and of what the scanner takes next.
Scanned(scan, r) == Line(scan.tokens, r) \o Spelled(scan.literal)
TextOf(x, r) ==
    IF x \in Placeholders THEN Pieces(Token(x, <<>>), r) ELSE <<Literal(Escaped(x))>>

LEMMA TurnsDiffer ==
    \A x : /\ x \in Malformed => x \notin Placeholders /\ x # "%%"
           /\ x \in Placeholders => x # "%%"
  BY DEF Malformed, Placeholders

LEMMA LiteralToken ==
    ASSUME NEW C, NEW text \in Seq(C), NEW r, Sound(r)
    PROVE  /\ Token("literal", text) \in Tokens(C)
           /\ Pieces(Token("literal", text), r) = Spelled(text)
           /\ Spelled(text) \in Seq(PieceSet(C, r))
<1>1. Token("literal", text) \in Tokens(C)
  BY DEF Token, Tokens
<1>2. Pieces(Token("literal", text), r) = Spelled(text)
  BY DEF Pieces, Token, Spelled
<1> QED
  BY <1>1, <1>2, PiecesIn

LEMMA SpelledAdds ==
    ASSUME NEW C, NEW text \in Seq(C), NEW c \in C
    PROVE  Spelled(Append(text, c)) = Append(Spelled(text), Literal(c))
<1> DEFINE n == Len(text)
<1>1. n \in Nat /\ DOMAIN text = 1..n
  OBVIOUS
<1>2. Spelled(text) \in Seq({Literal(d) : d \in C}) /\ Len(Spelled(text)) = n
  <2>1. Spelled(text) = [i \in 1..n |-> Literal(text[i])]
    BY <1>1 DEF Spelled
  <2>2. Spelled(text) \in [1..n -> {Literal(d) : d \in C}]
    BY <2>1
  <2>3. DOMAIN Spelled(text) = 1..n
    BY <2>1
  <2> HIDE DEF n
  <2> QED
    BY <1>1, <2>2, <2>3, SeqDef
<1>3. Append(text, c) = [i \in 1..(n + 1) |-> IF i = n + 1 THEN c ELSE text[i]]
  BY <1>1, AppendPlaces
<1>4. Append(Spelled(text), Literal(c))
        = [i \in 1..(n + 1) |-> IF i = n + 1 THEN Literal(c) ELSE Spelled(text)[i]]
  <2> HIDE DEF n
  <2> QED
    BY <1>1, <1>2, AppendPlaces
<1>5. Spelled(Append(text, c))
        = [i \in 1..(n + 1) |-> IF i = n + 1 THEN Literal(c) ELSE Spelled(text)[i]]
  <2> HIDE DEF n
  <2>1. \A i \in 1..n : Spelled(text)[i] = Literal(text[i])
    BY <1>1 DEF Spelled
  <2>2. \A i \in 1..(n + 1) : i # n + 1 => i \in 1..n
    BY <1>1
  <2> QED
    BY <1>3, <2>1, <2>2 DEF Spelled
<1> QED
  BY <1>4, <1>5

LEMMA FlushedLine ==
    ASSUME NEW C, NEW scan \in Scans(C), NEW r, Sound(r)
    PROVE  /\ Flushed(scan) \in Seq(Tokens(C))
           /\ Line(Flushed(scan), r) = Scanned(scan, r)
<1> DEFINE P == PieceSet(C, r)
<1>1. scan.tokens \in Seq(Tokens(C)) /\ scan.literal \in Seq(C)
  BY DEF Scans
<1>2. Line(scan.tokens, r) \in Seq(P) /\ Spelled(scan.literal) \in Seq(P)
  BY <1>1, LineIn, LiteralToken
<1> HIDE DEF P
<1>3. CASE scan.literal = <<>>
  <2>1. Spelled(scan.literal) = <<>>
    BY <1>3 DEF Spelled
  <2>2. Scanned(scan, r) = Line(scan.tokens, r)
    BY <1>2, <2>1, ConcatEmptySeq DEF Scanned
  <2> QED
    BY <1>1, <1>3, <2>2 DEF Flushed
<1>4. CASE scan.literal # <<>>
  <2>1. Flushed(scan) = Append(scan.tokens, Token("literal", scan.literal))
    BY <1>4 DEF Flushed
  <2>2. /\ Token("literal", scan.literal) \in Tokens(C)
        /\ Pieces(Token("literal", scan.literal), r) = Spelled(scan.literal)
    BY <1>1, LiteralToken
  <2>3. Line(Flushed(scan), r) = Line(scan.tokens, r) \o Pieces(Token("literal", scan.literal), r)
    BY <1>1, <2>1, <2>2, LineAdds
  <2> QED
    BY <1>1, <2>1, <2>2, <2>3 DEF Scanned
<1> QED
  BY <1>3, <1>4

LEMMA ScanType ==
    ASSUME NEW C, NEW scan \in Scans(C), NEW x, Escaped(x) \in C
    PROVE  Scan(scan, x) \in Scans(C)
<1>1. Flushed(scan) \in Seq(Tokens(C))
  <2>1. Token("literal", scan.literal) \in Tokens(C)
    BY DEF Scans, Tokens, Token
  <2> QED
    BY <2>1 DEF Flushed, Scans
<1>2. CASE x \in Malformed
  BY <1>2, TurnsDiffer DEF Scan, Scans
<1>3. CASE x \notin Malformed /\ x \in Placeholders
  <2>1. Token(x, <<>>) \in Tokens(C)
    BY <1>3 DEF Token, Tokens
  <2>2. Append(Flushed(scan), Token(x, <<>>)) \in Seq(Tokens(C))
    BY <1>1, <2>1
  <2>3. Scan(scan, x) = [scan EXCEPT !.tokens = Append(Flushed(scan), Token(x, <<>>)),
                                     !.literal = <<>>]
    BY <1>3, TurnsDiffer DEF Scan
  <2>4. <<>> \in Seq(C)
    OBVIOUS
  <2> QED
    BY <2>2, <2>3, <2>4 DEF Scans
<1>4. CASE x \notin Malformed /\ x \notin Placeholders /\ x = "%%"
  <2> DEFINE token == Token("literal", <<Escaped(x)>>)
  <2>1. token \in Tokens(C)
    <3>1. <<Escaped(x)>> \in Seq(C)
      OBVIOUS
    <3> QED
      BY <3>1 DEF Token, Tokens
  <2>2. Append(Flushed(scan), token) \in Seq(Tokens(C))
    <3> HIDE DEF token
    <3> QED
      BY <1>1, <2>1
  <2>3. Scan(scan, x) = [scan EXCEPT !.tokens = Append(Flushed(scan), token), !.literal = <<>>]
    BY <1>4 DEF Scan
  <2>4. <<>> \in Seq(C)
    OBVIOUS
  <2> HIDE DEF token
  <2> QED
    BY <2>2, <2>3, <2>4 DEF Scans
<1>5. CASE x \notin Malformed /\ x \notin Placeholders /\ x # "%%"
  <2>1. Scan(scan, x) = [scan EXCEPT !.literal = Append(scan.literal, Escaped(x))]
    BY <1>5 DEF Scan
  <2>2. Append(scan.literal, Escaped(x)) \in Seq(C)
    BY DEF Scans
  <2> QED
    BY <2>1, <2>2 DEF Scans
<1> QED
  BY <1>2, <1>3, <1>4, <1>5

\* A turn of the scanner adds to the line what it takes from the source.
LEMMA ScanAdds ==
    ASSUME NEW C, NEW scan \in Scans(C), NEW x, Escaped(x) \in C, NEW r, Sound(r)
    PROVE  \/ Scan(scan, x).failed
           \/ /\ ~scan.failed
              /\ Scanned(Scan(scan, x), r) = Scanned(scan, r) \o TextOf(x, r)
<1> DEFINE P == PieceSet(C, r)
           after == Scan(scan, x)
<1>1. /\ scan.tokens \in Seq(Tokens(C)) /\ scan.literal \in Seq(C) /\ scan.failed \in BOOLEAN
      /\ DOMAIN scan = {"tokens", "literal", "failed"}
  BY DEF Scans
<1>2. /\ Flushed(scan) \in Seq(Tokens(C)) /\ Line(Flushed(scan), r) = Scanned(scan, r)
      /\ Scanned(scan, r) \in Seq(P)
  BY FlushedLine, LineIn
<1>3. Spelled(<<>>) = <<>>
  BY DEF Spelled
<1>4. ASSUME NEW token \in Tokens(C), after.failed = scan.failed,
             after.tokens = Append(Flushed(scan), token), after.literal = <<>>
      PROVE  Scanned(after, r) = Scanned(scan, r) \o Pieces(token, r)
  <2>1. Line(after.tokens, r) = Scanned(scan, r) \o Pieces(token, r)
    BY <1>2, <1>4, LineAdds
  <2>2. Pieces(token, r) \in Seq(P)
    BY PiecesIn
  <2> HIDE DEF P
  <2>3. Scanned(scan, r) \o Pieces(token, r) \in Seq(P)
    BY <1>2, <2>2
  <2> HIDE DEF after
  <2>4. Scanned(after, r) = Line(after.tokens, r) \o <<>>
    BY <1>3, <1>4 DEF Scanned
  <2> QED
    BY <2>1, <2>3, <2>4, ConcatEmptySeq
<1>5. CASE x \in Malformed
  BY <1>1, <1>5, TurnsDiffer DEF Scan
<1>6. CASE x \notin Malformed /\ x \in Placeholders
  <2>1. Token(x, <<>>) \in Tokens(C)
    BY <1>6 DEF Token, Tokens
  <2>2. after = [scan EXCEPT !.tokens = Append(Flushed(scan), Token(x, <<>>)), !.literal = <<>>]
    BY <1>6, TurnsDiffer DEF Scan
  <2>3. /\ after.failed = scan.failed /\ after.literal = <<>>
        /\ after.tokens = Append(Flushed(scan), Token(x, <<>>))
    <3> HIDE DEF after
    <3> QED
      BY <1>1, <2>2
  <2>4. TextOf(x, r) = Pieces(Token(x, <<>>), r)
    BY <1>6 DEF TextOf
  <2> HIDE DEF after
  <2>5. Scanned(after, r) = Scanned(scan, r) \o TextOf(x, r)
    BY <1>4, <2>1, <2>3, <2>4
  <2> QED
    BY <1>1, <2>3, <2>5 DEF after
<1>7. CASE x \notin Malformed /\ x \notin Placeholders /\ x = "%%"
  <2> DEFINE token == Token("literal", <<Escaped(x)>>)
  <2>1. token \in Tokens(C) /\ Pieces(token, r) = Spelled(<<Escaped(x)>>)
    <3>1. <<Escaped(x)>> \in Seq(C)
      OBVIOUS
    <3> QED
      BY <3>1, LiteralToken
  <2>2. after = [scan EXCEPT !.tokens = Append(Flushed(scan), token), !.literal = <<>>]
    BY <1>7 DEF Scan
  <2>3. /\ after.failed = scan.failed /\ after.literal = <<>>
        /\ after.tokens = Append(Flushed(scan), token)
    <3> HIDE DEF after, token
    <3> QED
      BY <1>1, <2>2
  <2>4. TextOf(x, r) = <<Literal(Escaped(x))>>
    BY <1>7 DEF TextOf
  <2>5. Spelled(<<Escaped(x)>>) = <<Literal(Escaped(x))>>
    BY DEF Spelled
  <2> HIDE DEF after, token
  <2>6. Scanned(after, r) = Scanned(scan, r) \o TextOf(x, r)
    BY <1>4, <2>1, <2>3, <2>4, <2>5
  <2> QED
    BY <1>1, <2>3, <2>6 DEF after
<1>8. CASE x \notin Malformed /\ x \notin Placeholders /\ x # "%%"
  <2>1. after = [scan EXCEPT !.literal = Append(scan.literal, Escaped(x))]
    BY <1>8 DEF Scan
  <2>2. /\ after.failed = scan.failed /\ after.tokens = scan.tokens
        /\ after.literal = Append(scan.literal, Escaped(x))
    <3> HIDE DEF after
    <3> QED
      BY <1>1, <2>1
  <2>3. TextOf(x, r) = <<Literal(Escaped(x))>>
    BY <1>8 DEF TextOf
  <2>4. Spelled(after.literal) = Append(Spelled(scan.literal), Literal(Escaped(x)))
    <3> HIDE DEF after
    <3> QED
      BY <1>1, <2>2, SpelledAdds
  <2> DEFINE a == Line(scan.tokens, r)
             b == Spelled(scan.literal)
             c == Literal(Escaped(x))
             Q == P \union {c}
  <2>5. a \in Seq(P) /\ b \in Seq(P)
    BY <1>1, LineIn, LiteralToken
  <2>6. a \in Seq(Q) /\ b \in Seq(Q) /\ c \in Q
    <3> HIDE DEF P, a, b, c
    <3>1. \A s \in Seq(P) : s \in Seq(Q)
      <4> SUFFICES ASSUME NEW s \in Seq(P) PROVE s \in Seq(Q)
        OBVIOUS
      <4>1. Len(s) \in Nat /\ s \in [1..Len(s) -> P]
        OBVIOUS
      <4>2. s \in [1..Len(s) -> Q]
        BY <4>1
      <4> QED
        BY <4>1, <4>2, SeqDef
    <3> QED
      BY <2>5, <3>1
  <2>7. Scanned(after, r) = a \o Append(b, c) /\ Scanned(scan, r) = a \o b
    <3> HIDE DEF after
    <3> QED
      BY <2>2, <2>4 DEF Scanned
  <2> HIDE DEF after, a, b, c, Q
  <2>8. a \o Append(b, c) = (a \o b) \o <<c>>
    <3>1. Append(b, c) = b \o <<c>> /\ <<c>> \in Seq(Q)
      BY <2>6
    <3>2. a \o (b \o <<c>>) = (a \o b) \o <<c>>
      BY <2>6, <3>1, ConcatAssociative
    <3> QED
      BY <3>1, <3>2
  <2>9. Scanned(after, r) = Scanned(scan, r) \o TextOf(x, r)
    BY <2>3, <2>7, <2>8 DEF c
  <2> QED
    BY <1>1, <2>2, <2>9 DEF after
<1> QED
  BY <1>5, <1>6, <1>7, <1>8

\* What the scanner has at the end of a source.
Turns(source) == FoldLeft(Scan, ScanStart, source)

ScanOf(g, C, source, n) ==
    /\ g \in [0..n -> Scans(C)]
    /\ g[0] = ScanStart
    /\ \A k \in 1..n : g[k] = Scan(g[k - 1], source[k])
    /\ Turns(source) = g[n]

LEMMA ScanRun ==
    ASSUME NEW C, NEW list, IsList(list), \A i \in DOMAIN list : Escaped(list[i]) \in C,
           NEW n, n = Len(list)
    PROVE  \E g : ScanOf(g, C, list, n)
<1> DEFINE V == Scans(C)
           F == [a \in V \X (1..n) |-> Scan(a[1], list[a[2]])]
<1>1. n \in Nat /\ DOMAIN list = 1..n /\ ScanStart \in V
  BY DEF IsList, ScanStart, Scans
<1>2. ASSUME NEW v \in V, NEW k \in 1..n PROVE Scan(v, list[k]) \in V
  BY <1>1, ScanType
<1>3. F \in Steps(V, n) /\ \A v \in V, k \in 1..n : F[<<v, k>>] = Scan(v, list[k])
  <2> HIDE DEF V
  <2> QED
    BY <1>2 DEF Steps
<1>4. PICK h \in [SUBSET (1..n) -> V] : IsFold(h, ScanStart, n, F)
  <2> HIDE DEF V, F
  <2> QED
    BY <1>1, <1>3, Iterates
<1>5. PICK g \in [0..n -> V] : IsRun(g, ScanStart, n, F, h[1..n])
  <2> HIDE DEF V, F
  <2> QED
    BY <1>1, <1>4, Runs
<1>6. ASSUME NEW k \in 1..n PROVE g[k] = Scan(g[k - 1], list[k])
  <2> HIDE DEF V, F
  <2>1. g[k - 1] \in V
    BY <1>1
  <2> QED
    BY <1>3, <1>5, <2>1 DEF IsRun
<1> DEFINE E(f) == f = [t \in SUBSET (1..n) |->
                          IF t = {} THEN ScanStart ELSE Scan(f[t \ {Max(t)}], list[Max(t)])]
<1>7. E(h)
  <2> HIDE DEF V, F
  <2> SUFFICES ASSUME NEW t \in SUBSET (1..n)
               PROVE  h[t] = IF t = {} THEN ScanStart ELSE Scan(h[t \ {Max(t)}], list[Max(t)])
    OBVIOUS
  <2>1. CASE t = {}
    BY <1>4, <2>1 DEF IsFold
  <2>2. CASE t # {}
    <3>1. Max(t) \in 1..n /\ t \ {Max(t)} \in SUBSET (1..n)
      BY <1>1, <2>2, LargestIn
    <3>2. h[t] = F[<<h[t \ {Max(t)}], Max(t)>>] /\ h[t \ {Max(t)}] \in V
      BY <1>4, <2>2, <3>1 DEF IsFold
    <3> QED
      BY <1>3, <2>2, <3>1, <3>2
  <2> QED
    BY <2>1, <2>2
<1> DEFINE iter == CHOOSE f : E(f)
<1>8. E(iter)
  <2> HIDE DEF E
  <2> QED
    BY <1>7
<1>9. FoldLeft(Scan, ScanStart, list) = iter[1..n]
  BY <1>1 DEF FoldLeft, MapThenFoldSet
<1> HIDE DEF iter, V
<1>10. iter = h
  <2>1. OfPlaces(iter, n) /\ OfPlaces(h, n)
    BY <1>8 DEF OfPlaces
  <2>2. Alike(iter, h, n)
    <3>1. ASSUME NEW f, E(f), NEW t \in SUBSET (1..n)
          PROVE  f[t] = IF t = {} THEN ScanStart ELSE Scan(f[t \ {Max(t)}], list[Max(t)])
      BY <3>1
    <3> HIDE DEF E
    <3>2. iter[{}] = h[{}]
      BY <1>7, <1>8, <3>1
    <3>3. ASSUME NEW t \in SUBSET (1..n), t # {}, iter[t \ {Max(t)}] = h[t \ {Max(t)}]
          PROVE  iter[t] = h[t]
      <4>1. iter[t] = Scan(iter[t \ {Max(t)}], list[Max(t)])
        BY <1>8, <3>1, <3>3
      <4>2. h[t] = Scan(h[t \ {Max(t)}], list[Max(t)])
        BY <1>7, <3>1, <3>3
      <4> QED
        BY <3>3, <4>1, <4>2
    <3> QED
      BY <3>2, <3>3 DEF Alike
  <2> HIDE DEF E
  <2> QED
    BY <1>1, <2>1, <2>2, SameFold
<1> QED
  BY <1>5, <1>6, <1>9, <1>10 DEF IsRun, V, Turns, ScanOf

LEMMA TextIn ==
    ASSUME NEW C, NEW x, Escaped(x) \in C, NEW r, Sound(r)
    PROVE  TextOf(x, r) \in Seq(PieceSet(C, r))
<1>1. CASE x \in Placeholders
  <2>1. Token(x, <<>>) \in Tokens(C) /\ TextOf(x, r) = Pieces(Token(x, <<>>), r)
    BY <1>1 DEF Token, Tokens, TextOf
  <2> QED
    BY <2>1, PiecesIn
<1>2. CASE x \notin Placeholders
  <2>1. <<Escaped(x)>> \in Seq(C)
    OBVIOUS
  <2>2. Spelled(<<Escaped(x)>>) \in Seq(PieceSet(C, r))
    BY <2>1, LiteralToken
  <2>3. Spelled(<<Escaped(x)>>) = <<Literal(Escaped(x))>>
    BY DEF Spelled
  <2>4. TextOf(x, r) = Spelled(<<Escaped(x)>>)
    BY <1>2, <2>3 DEF TextOf
  <2> QED
    BY <2>2, <2>4
<1> QED
  BY <1>1, <1>2

\* What a source compiles to writes the source, read from left to right.
LEMMA FormatIsText ==
    ASSUME NEW source, IsList(source), Compile(source) # None
    PROVE  \E C : /\ Compile(source) \in Seq(Tokens(C))
                  /\ \A r : Sound(r) => Line(Compile(source), r) = Text(source, r)
<1> DEFINE n == Len(source)
           C == {Escaped(source[i]) : i \in DOMAIN source}
<1>1. n \in Nat /\ n = Len(source) /\ DOMAIN source = 1..n /\ \A i \in DOMAIN source : Escaped(source[i]) \in C
  BY DEF IsList
<1> HIDE DEF n, C
<1>2. PICK g \in [0..n -> Scans(C)] :
        /\ g[0] = ScanStart
        /\ \A k \in 1..n : g[k] = Scan(g[k - 1], source[k])
        /\ Turns(source) = g[n]
  <2>1. \E g : ScanOf(g, C, source, n)
    BY <1>1, ScanRun
  <2> QED
    BY <2>1 DEF ScanOf
<1>3. ~g[n].failed /\ Compile(source) = Flushed(g[n]) /\ g[n] \in Scans(C)
  <2>1. g[n] \in Scans(C)
    <3>1. n \in 0..n
      BY <1>1
    <3> QED
      BY <3>1
  <2> QED
    BY <1>2, <2>1 DEF Compile, Turns
<1>4. ASSUME NEW r, Sound(r) PROVE Line(Compile(source), r) = Text(source, r)
  <2> DEFINE lists == [i \in DOMAIN source |-> TextOf(source[i], r)]
             P == PieceSet(C, r)
  <2>1. lists \in Seq(Seq(P)) /\ Len(lists) = n /\ \A k \in 1..n : lists[k] = TextOf(source[k], r)
    <3>1. lists \in [1..n -> Seq(P)]
      BY <1>1, <1>4, TextIn
    <3>2. \A k \in 1..n : lists[k] = TextOf(source[k], r)
      BY <1>1
    <3> HIDE DEF lists, P
    <3>3. lists \in Seq(Seq(P)) /\ DOMAIN lists = 1..n
      BY <1>1, <3>1, SeqDef
    <3> QED
      BY <1>1, <3>2, <3>3
  <2>2. Text(source, r) = FlattenSeq(lists)
    BY DEF Text, TextOf
  <2> HIDE DEF lists, P
  <2>3. PICK t \in [0..n -> Seq(P)] : Joins(t, lists, n)
    BY <2>1, Flattens
  <2> DEFINE Agreeing == {k \in 0..n : g[k].failed \/ Scanned(g[k], r) = t[k]}
  <2>4. 0 \in Agreeing
    <3>1. Line(<<>>, r) = <<>>
      <4>1. LineLists(<<>>, r) = <<>> /\ Line(<<>>, r) = FlattenSeq(LineLists(<<>>, r))
        BY DEF LineLists, Line
      <4> QED
        BY <4>1, FlattenedNone
    <3>2. Spelled(<<>>) = <<>> /\ <<>> \o <<>> = <<>>
      BY DEF Spelled
    <3>3. Scanned(ScanStart, r) = <<>>
      BY <3>1, <3>2 DEF Scanned, ScanStart
    <3>4. t[0] = <<>>
      BY <2>3 DEF Joins
    <3> QED
      BY <1>1, <1>2, <3>3, <3>4
  <2>5. ASSUME NEW k \in 1..n, k - 1 \in Agreeing PROVE k \in Agreeing
    <3>1. k - 1 \in 0..n /\ k \in 0..n
      BY <1>1
    <3>2. g[k - 1] \in Scans(C) /\ g[k] = Scan(g[k - 1], source[k]) /\ Escaped(source[k]) \in C
      BY <1>1, <1>2, <3>1
    <3>3. \/ g[k].failed
          \/ /\ ~g[k - 1].failed
             /\ Scanned(g[k], r) = Scanned(g[k - 1], r) \o TextOf(source[k], r)
      BY <1>4, <3>2, ScanAdds
    <3>4. t[k] = t[k - 1] \o TextOf(source[k], r)
      BY <2>1, <2>3 DEF Joins
    <3>5. g[k - 1].failed \/ Scanned(g[k - 1], r) = t[k - 1]
      BY <2>5
    <3>6. g[k].failed \/ Scanned(g[k], r) = t[k]
      BY <3>3, <3>4, <3>5
    <3> QED
      BY <3>1, <3>6
  <2>6. Scanned(g[n], r) = t[n]
    <3>1. n \in 0..n
      BY <1>1
    <3>2. n \in Agreeing
      <4> HIDE DEF Agreeing
      <4> QED
        BY <1>1, <2>4, <2>5, <3>1, Climbs
    <3> QED
      BY <1>3, <3>2
  <2>7. t[n] = FlattenSeq(lists)
    BY <2>3 DEF Joins
  <2>8. Line(Flushed(g[n]), r) = Scanned(g[n], r)
    BY <1>3, <1>4, FlushedLine
  <2> QED
    BY <1>3, <2>2, <2>6, <2>7, <2>8
<1>5. Compile(source) \in Seq(Tokens(C))
  <2>1. Sound([key |-> None, headers |-> <<>>, payload |-> None])
    BY ShortLists DEF Sound, IsBytes
  <2> QED
    BY <1>3, <2>1, FlushedLine
<1> QED
  BY <1>4, <1>5

\* Compiling keeps of the metadata what the format writes.
LEMMA PiecesAgree ==
    ASSUME NEW C, NEW format \in Seq(Tokens(C)), NEW r, NEW s,
           /\ r.offset = s.offset /\ r.payload = s.payload /\ r.sourceLength = s.sourceLength
           /\ r.action = s.action,
           "key" \in Requirements(format) => r.key = s.key,
           "headers" \in Requirements(format) => r.headers = s.headers,
           "timestamp" \in Requirements(format) => r.timestamp = s.timestamp
    PROVE  Line(format, r) = Line(format, s)
<1>1. /\ Uses(format, {"%k", "%K"}) => r.key = s.key
      /\ Uses(format, {"%h"}) => r.headers = s.headers
      /\ Uses(format, {"%T"}) => r.timestamp = s.timestamp
  BY DEF Requirements
<1>2. ASSUME NEW i \in DOMAIN format PROVE Pieces(format[i], r) = Pieces(format[i], s)
  <2>1. format[i].field \in {"%k", "%K"} => r.key = s.key
    BY <1>1 DEF Uses
  <2>2. format[i].field = "%h" => r.headers = s.headers
    BY <1>1 DEF Uses
  <2>3. format[i].field = "%T" => r.timestamp = s.timestamp
    BY <1>1 DEF Uses
  <2>4. format[i].field \in Placeholders \union {"literal"}
    <3>1. format[i] \in Tokens(C)
      OBVIOUS
    <3> QED
      BY <3>1 DEF Tokens
  <2> QED
    BY <2>1, <2>2, <2>3, <2>4 DEF Pieces, Placeholders
<1>3. LineLists(format, r) = LineLists(format, s)
  BY <1>2 DEF LineLists
<1> QED
  BY <1>3 DEF Line, LineLists

-----------------------------------------------------------------------------
\* The envelope.

ProperList(s) == IsList(s) /\ \A piece \in Range(s) : Proper(piece)

LEMMA ProperLists ==
    /\ ProperList(<<>>)
    /\ \A x : Proper(x) => ProperList(<<x>>)
    /\ \A a, b : ProperList(a) /\ ProperList(b) => ProperList(a \o b)
<1>1. ProperList(<<>>)
  BY ShortLists DEF ProperList, Range
<1>2. ASSUME NEW x, Proper(x) PROVE ProperList(<<x>>)
  <2>1. IsList(<<x>>) /\ Range(<<x>>) = {x}
    BY ShortLists, Singles
  <2> QED
    BY <1>2, <2>1 DEF ProperList
<1>3. ASSUME NEW a, NEW b, ProperList(a), ProperList(b) PROVE ProperList(a \o b)
  BY <1>3, ConcatList DEF ProperList
<1> QED
  BY <1>1, <1>2, <1>3

LEMMA ThreePieces ==
    /\ \A x, y : Proper(x) /\ Proper(y) => ProperList(<<x, y>>)
    /\ \A x, y, z : Proper(x) /\ Proper(y) /\ Proper(z) => ProperList(<<x, y, z>>)
<1>1. ASSUME NEW x, NEW y, Proper(x), Proper(y) PROVE ProperList(<<x, y>>)
  <2> DEFINE both == <<x>> \o <<y>>
  <2>1. both = <<x, y>>
    <3>1. <<x>> \in Seq({x, y}) /\ <<y>> \in Seq({x, y})
      OBVIOUS
    <3>2. both \in Seq({x, y}) /\ Len(both) = 2 /\ both[1] = x /\ both[2] = y
      BY <3>1
    <3>3. DOMAIN both = 1..2
      BY <3>2
    <3> HIDE DEF both
    <3> QED
      BY <3>2, <3>3
  <2> QED
    BY <1>1, <2>1, ProperLists
<1>2. ASSUME NEW x, NEW y, NEW z, Proper(x), Proper(y), Proper(z) PROVE ProperList(<<x, y, z>>)
  <2>1. <<x, y, z>> = <<x, y>> \o <<z>>
    OBVIOUS
  <2> QED
    BY <1>1, <1>2, <2>1, ProperLists
<1> QED
  BY <1>1, <1>2

LEMMA FieldPieces ==
    /\ \A bytes : IsBytes(bytes) => ProperList(BytesFields(bytes))
    /\ \A payload : payload.length \in Nat => ProperList(JsonFields(payload))
    /\ \A timestamp : ProperList(TimestampFields(timestamp))
<1>1. ASSUME NEW bytes, IsBytes(bytes) PROVE ProperList(BytesFields(bytes))
  <2>1. CASE bytes = None
    BY <2>1, Singles, ThreePieces DEF BytesFields
  <2>2. CASE bytes # None
    <3> DEFINE value == IF bytes.utf8 THEN Piece("utf8", bytes.data, bytes.length)
                        ELSE Piece("base64", bytes.data, 4 * ((bytes.length + 2) \div 3))
               encoding == Literal(IF bytes.utf8 THEN "utf8" ELSE "base64")
    <3>1. Proper(value)
      <4>1. bytes.length \in Nat
        BY <1>1, <2>2 DEF IsBytes
      <4>2. 4 * ((bytes.length + 2) \div 3) \in Nat
        BY <4>1
      <4> QED
        BY <4>1, <4>2 DEF Proper, Piece
    <3>2. BytesFields(bytes) = <<value, encoding, Number(bytes.length)>>
      BY <2>2 DEF BytesFields
    <3>3. Proper(encoding)
      BY Singles
    <3> HIDE DEF value, encoding
    <3> QED
      BY <3>1, <3>2, <3>3, Singles, ThreePieces
  <2> QED
    BY <2>1, <2>2
<1>2. ASSUME NEW payload, payload.length \in Nat PROVE ProperList(JsonFields(payload))
  <2> DEFINE value == Piece("json", payload.data, payload.length)
  <2>1. Proper(value)
    BY <1>2 DEF Proper, Piece
  <2>2. JsonFields(payload) = <<value, Literal("json"), Number(payload.reported)>>
    BY DEF JsonFields
  <2> HIDE DEF value
  <2> QED
    BY <2>1, <2>2, Singles, ThreePieces
<1>3. ASSUME NEW timestamp PROVE ProperList(TimestampFields(timestamp))
  <2>1. TimestampFields(timestamp) = <<Literal("null"), Literal("null")>>
        \/ \E x, y : TimestampFields(timestamp) = <<Number(x), Literal(y)>>
    BY DEF TimestampFields
  <2> QED
    BY <2>1, Singles, ThreePieces
<1> QED
  BY <1>1, <1>2, <1>3

\* What the envelope has of each header.
HeaderFields(headers) ==
    [i \in DOMAIN headers |-> <<Literal(headers[i].name)>> \o BytesFields(headers[i].value)]

LEMMA HeaderFieldLists ==
    ASSUME NEW headers, IsList(headers), \A h \in DOMAIN headers : IsBytes(headers[h].value)
    PROVE  ProperList(FlattenSeq(HeaderFields(headers)))
<1> DEFINE lists == HeaderFields(headers)
<1>1. ASSUME NEW i \in DOMAIN headers PROVE ProperList(lists[i])
  <2>1. lists[i] = <<Literal(headers[i].name)>> \o BytesFields(headers[i].value)
    BY DEF HeaderFields
  <2>2. ProperList(<<Literal(headers[i].name)>>) /\ ProperList(BytesFields(headers[i].value))
    BY Singles, ProperLists, FieldPieces
  <2> QED
    BY <2>1, <2>2, ProperLists
<1>2. IsList(lists)
  <2>1. headers \in [1..Len(headers) -> Range(headers)] /\ Len(headers) \in Nat
        /\ DOMAIN headers = 1..Len(headers)
    BY DEF IsList
  <2>2. lists = [i \in 1..Len(headers) |-> lists[i]]
    BY <2>1 DEF HeaderFields
  <2>3. lists \in [1..Len(headers) -> Range(lists)]
    <3> HIDE DEF lists
    <3> QED
      BY <2>2 DEF Range
  <2> HIDE DEF lists
  <2> QED
    BY <2>1, <2>3, SeqDef DEF IsList
<1>3. DOMAIN lists = DOMAIN headers
  BY DEF HeaderFields
<1> HIDE DEF lists
<1>4. /\ IsList(FlattenSeq(lists))
      /\ Range(FlattenSeq(lists)) = UNION {Range(l) : l \in Range(lists)}
  BY <1>1, <1>2, <1>3, FlattenedList DEF IsList, ProperList
<1>5. \A piece \in Range(FlattenSeq(lists)) : Proper(piece)
  BY <1>1, <1>3, <1>4 DEF Range, ProperList
<1> QED
  BY <1>4, <1>5 DEF ProperList, lists

LEMMA EnvelopePieces ==
    ASSUME NEW r, Sound(r)
    PROVE  ProperList(Envelope(r))
<1> DEFINE place == <<Literal("topic"), Literal("partition"), Number(r.offset)>>
           headers == FlattenSeq(HeaderFields(r.headers))
           action == <<Literal("]"), Literal(r.action)>>
           payload == IF r.payload # None /\ r.payload.json THEN JsonFields(r.payload)
                                                            ELSE BytesFields(r.payload)
<1>1. ProperList(place) /\ ProperList(action) /\ ProperList(<<Literal("[")>>)
  BY Singles, ThreePieces, ProperLists
<1>2. ProperList(headers)
  BY HeaderFieldLists DEF Sound
<1>3. ProperList(payload)
  BY FieldPieces DEF Sound, IsBytes
<1>4. ProperList(TimestampFields(r.timestamp)) /\ ProperList(BytesFields(r.key))
  BY FieldPieces DEF Sound
<1>5. Envelope(r) = place \o TimestampFields(r.timestamp) \o BytesFields(r.key) \o <<Literal("[")>>
                      \o headers \o action \o payload
  BY DEF Envelope, HeaderFields
<1> HIDE DEF place, headers, action, payload
<1> QED
  BY <1>1, <1>2, <1>3, <1>4, <1>5, ProperLists

-----------------------------------------------------------------------------
\* The line of a record.

LEMMA LineWritten ==
    ASSUME NEW line, IsList(line), \A n \in DOMAIN line : line[n].length \in Nat
    PROVE  Written(line) \in Nat
<1> DEFINE sizes == [n \in DOMAIN line |-> line[n].length]
<1>1. Len(line) \in Nat /\ DOMAIN line = 1..Len(line)
  BY DEF IsList
<1>2. sizes \in [1..Len(line) -> Nat]
  BY <1>1
<1>3. sizes \in Seq(Nat)
  <2> HIDE DEF sizes
  <2> QED
    BY <1>1, <1>2, SeqDef
<1>4. Written(line) = Sum(sizes)
  BY DEF Written
<1> HIDE DEF sizes
<1> QED
  BY <1>3, <1>4, SumNat

LEMMA TypedIsList == ASSUME NEW V, NEW s \in Seq(V) PROVE IsList(s)
<1>1. Len(s) \in Nat /\ s \in [1..Len(s) -> Range(s)]
  BY DEF Range
<1> QED
  BY <1>1, SeqDef DEF IsList

\* The metadata of a record, all of it or what is kept.
WholeMetadata(i) ==
    [timestamp |-> TimestampOf(Log[i].timestamp), key |-> Log[i].key, headers |-> HeadersOf(i)]

LEMMA MetadataFacts ==
    ASSUME NEW i \in DOMAIN Log
    PROVE  /\ IsBytes(Log[i].key)
           /\ IsList(HeadersOf(i))
           /\ \A h \in DOMAIN HeadersOf(i) : IsBytes(HeadersOf(i)[h].value)
<1>1. IsBytes(Log[i].key)
  BY LogAssumption
<1>2. CASE Log[i].headers = None
  BY <1>1, <1>2, ShortLists DEF HeadersOf
<1>3. CASE Log[i].headers # None
  BY <1>1, <1>3, LogAssumption DEF HeadersOf
<1> QED
  BY <1>2, <1>3

SoundMetadata(m) ==
    /\ IsBytes(m.key)
    /\ IsList(m.headers) /\ \A h \in DOMAIN m.headers : IsBytes(m.headers[h].value)

LEMMA MetadataSound ==
    ASSUME NEW i \in DOMAIN Log
    PROVE  SoundMetadata(Metadata(i)) /\ SoundMetadata(WholeMetadata(i))
<1>1. SoundMetadata(WholeMetadata(i))
  BY MetadataFacts DEF SoundMetadata, WholeMetadata
<1>2. Metadata(i).key \in {Log[i].key, None} /\ Metadata(i).headers \in {HeadersOf(i), <<>>}
  BY DEF Metadata, Kept
<1>3. IsBytes(Metadata(i).key)
  BY <1>2, MetadataFacts DEF IsBytes
<1>4. IsList(Metadata(i).headers)
  BY <1>2, MetadataFacts, ShortLists
<1>5. \A h \in DOMAIN Metadata(i).headers : IsBytes(Metadata(i).headers[h].value)
  <2>1. CASE Metadata(i).headers = HeadersOf(i)
    BY <2>1, MetadataFacts
  <2>2. CASE Metadata(i).headers = <<>>
    BY <2>2
  <2> QED
    BY <1>2, <2>1, <2>2
<1> QED
  BY <1>1, <1>3, <1>4, <1>5 DEF SoundMetadata

SoundPayload(p) == p # None => p.length \in Nat /\ p.reported \in Nat

LEMMA RecordSound ==
    ASSUME NEW i, NEW m, NEW action, NEW p, SoundMetadata(m), SoundPayload(p)
    PROVE  Sound(OutputRecord(i, m, action, p))
BY DEF Sound, SoundMetadata, SoundPayload, OutputRecord

LEMMA PayloadSound ==
    ASSUME NEW i \in DOMAIN Log, NEW action, NEW data
    PROVE  SoundPayload(PayloadOf(i, action, data))
<1>1. CASE action = "tombstone"
  BY <1>1 DEF SoundPayload, PayloadOf
<1>2. CASE action # "tombstone"
  BY <1>2, LogAssumption DEF SoundPayload, PayloadOf
<1> QED
  BY <1>1, <1>2

\* Formats that are accepted compile.
LEMMA FormatsCompile ==
    ASSUME options \in Requests, Accepts(options), ~options.output.envelope
    PROVE  LET format == options.output.format
               inner == options.output.payloadFormat IN
           /\ \E C : /\ Compile(format) \in Seq(Tokens(C))
                     /\ \A r : Sound(r) => Line(Compile(format), r) = Text(format, r)
           /\ inner # None =>
                \E C : /\ Compile(inner) \in Seq(Tokens(C))
                       /\ \A r : Sound(r) => Line(Compile(inner), r) = Text(inner, r)
<1>1. /\ IsList(options.output.format) /\ Compile(options.output.format) # None
      /\ options.output.payloadFormat # None =>
            /\ IsList(options.output.payloadFormat)
            /\ Compile(options.output.payloadFormat) # None
  BY RequestsAssumption DEF Accepts, PlanCompiles
<1> QED
  BY <1>1, FormatIsText

\* What differs between what is kept of a record and what the log has of it is
\* nothing that is asked for.
LEMMA KeptAgrees ==
    ASSUME NEW i \in DOMAIN Log
    PROVE  LET m == Metadata(i)
               w == WholeMetadata(i)
               needs == PlanRequirements(options.output) IN
           /\ "key" \in needs => m.key = w.key
           /\ "headers" \in needs => m.headers = w.headers
           /\ "timestamp" \in needs => m.timestamp = w.timestamp
BY DEF Metadata, WholeMetadata, Kept

LEMMA LinesAgree ==
    ASSUME NEW C, NEW format \in Seq(Tokens(C)), NEW i \in DOMAIN Log, NEW action, NEW p,
           Requirements(format) \subseteq PlanRequirements(options.output)
    PROVE  Line(format, OutputRecord(i, Metadata(i), action, p))
             = Line(format, OutputRecord(i, WholeMetadata(i), action, p))
<1> DEFINE r == OutputRecord(i, Metadata(i), action, p)
           s == OutputRecord(i, WholeMetadata(i), action, p)
<1>1. /\ r.offset = s.offset /\ r.payload = s.payload /\ r.sourceLength = s.sourceLength
      /\ r.action = s.action
      /\ r.key = Metadata(i).key /\ s.key = WholeMetadata(i).key
      /\ r.headers = Metadata(i).headers /\ s.headers = WholeMetadata(i).headers
      /\ r.timestamp = Metadata(i).timestamp /\ s.timestamp = WholeMetadata(i).timestamp
  BY DEF OutputRecord
<1> HIDE DEF r, s
<1>2. /\ "key" \in Requirements(format) => r.key = s.key
      /\ "headers" \in Requirements(format) => r.headers = s.headers
      /\ "timestamp" \in Requirements(format) => r.timestamp = s.timestamp
  BY <1>1, KeptAgrees
<1>3. Line(format, r) = Line(format, s)
  BY <1>1, <1>2, PiecesAgree
<1> QED
  BY <1>3 DEF r, s

WellLine(line) ==
    /\ IsList(line) /\ Written(line) \in Nat
    /\ \A n \in DOMAIN line : line[n].is = "int32" => line[n].of <= I32Max

LEMMA FormatLine ==
    ASSUME NEW C, NEW format \in Seq(Tokens(C)), NEW r, Sound(r)
    PROVE  /\ IsList(Line(format, r)) /\ Written(Line(format, r)) \in Nat
           /\ ~Overflows(format, r) => WellLine(Line(format, r))
<1> DEFINE line == Line(format, r)
<1>1. line \in Seq(PieceSet(C, r)) /\ \A n \in DOMAIN line : line[n].length \in Nat
  BY LineIn
<1>2. ~Overflows(format, r) => \A piece \in Range(line) : Proper(piece)
  BY LineIn
<1> HIDE DEF line
<1>3. IsList(line)
  BY <1>1, TypedIsList
<1>4. Written(line) \in Nat
  BY <1>1, <1>3, LineWritten
<1>5. ASSUME ~Overflows(format, r), NEW n \in DOMAIN line PROVE line[n].is = "int32" => line[n].of <= I32Max
  <2>1. line[n] \in Range(line)
    BY DEF Range
  <2> QED
    BY <1>2, <1>5, <2>1 DEF Proper
<1> QED
  BY <1>3, <1>4, <1>5 DEF WellLine, line

\* The record as it is kept writes what the record of the log does.
LEMMA OwnLineIsPromised ==
    ASSUME options \in Requests, Accepts(options), NEW i \in DOMAIN Log,
           ~Unwritable(OwnRecord(i))
    PROVE  OwnLine(i) = PromisedLine(i) /\ WellLine(OwnLine(i))
<1> DEFINE action == Promised(i)
           p == PayloadOf(i, Promised(i), PromisedData(i))
           own == OutputRecord(i, Metadata(i), action, p)
           whole == OutputRecord(i, WholeMetadata(i), action, p)
<1>1. OwnRecord(i) = own /\ PromisedRecord(i) = whole
  <2>1. OwnRecord(i) = own
    BY DEF OwnRecord
  <2>2. PromisedRecord(i) = whole
    BY DEF PromisedRecord, WholeMetadata, OutputRecord
  <2> QED
    BY <2>1, <2>2
<1>2. SoundPayload(p) /\ SoundMetadata(Metadata(i)) /\ SoundMetadata(WholeMetadata(i))
  BY PayloadSound, MetadataSound
<1>3. own.payload = p /\ whole.payload = p
  BY DEF OutputRecord
<1> HIDE DEF action, p
<1>4. ASSUME NEW q, SoundPayload(q)
      PROVE  /\ Sound(OutputRecord(i, Metadata(i), action, q))
             /\ Sound(OutputRecord(i, WholeMetadata(i), action, q))
             /\ [own EXCEPT !.payload = q] = OutputRecord(i, Metadata(i), action, q)
             /\ [whole EXCEPT !.payload = q]
                  = OutputRecord(i, WholeMetadata(i), action, q)
  <2>1. Sound(OutputRecord(i, Metadata(i), action, q))
        /\ Sound(OutputRecord(i, WholeMetadata(i), action, q))
    BY <1>2, <1>4, RecordSound
  <2>2. [own EXCEPT !.payload = q] = OutputRecord(i, Metadata(i), action, q)
    BY DEF OutputRecord
  <2>3. [whole EXCEPT !.payload = q] = OutputRecord(i, WholeMetadata(i), action, q)
    BY DEF OutputRecord
  <2> QED
    BY <2>1, <2>2, <2>3
<1> HIDE DEF own, whole
<1>5. Sound(own) /\ Sound(whole)
  BY <1>2, <1>4 DEF own, whole
<1>6. CASE options.output.envelope
  <2>1. own = whole
    <3>1. PlanRequirements(options.output) = {"key", "headers", "timestamp"}
      BY <1>6 DEF PlanRequirements
    <3> QED
      BY <3>1, KeptAgrees DEF own, whole, OutputRecord
  <2>2. OwnLine(i) = Envelope(own) /\ PromisedLine(i) = Envelope(whole)
    BY <1>1, <1>6 DEF OwnLine, LineOf, PromisedLine
  <2>3. ProperList(Envelope(own))
    BY <1>5, EnvelopePieces
  <2>4. \A n \in DOMAIN Envelope(own) : Proper(Envelope(own)[n])
    BY <2>3 DEF ProperList, Range
  <2>5. WellLine(Envelope(own))
    BY <2>3, <2>4, LineWritten DEF WellLine, ProperList, Proper
  <2> QED
    BY <2>1, <2>2, <2>5
<1>7. CASE ~options.output.envelope
  <2> DEFINE format == options.output.format
             inner == options.output.payloadFormat
             F == Compile(format)
             I == Compile(inner)
             needs == PlanRequirements(options.output)
  <2>1. PICK C : F \in Seq(Tokens(C)) /\ \A r : Sound(r) => Line(F, r) = Text(format, r)
    BY <1>7, FormatsCompile
  <2>2. Requirements(F) \subseteq needs /\ (inner # None => Requirements(I) \subseteq needs)
    BY <1>7 DEF PlanRequirements
  <2>3. CASE ~Stages(own)
    <3>1. inner = None \/ p = None
      BY <1>3, <1>7, <2>3 DEF Stages
    <3>2. Outer(own) = own
      BY <2>3 DEF Outer
    <3>3. OwnLine(i) = Line(F, own) /\ ~Overflows(F, own)
      BY <1>1, <1>7, <3>2 DEF OwnLine, LineOf, Unwritable
    <3>4. PromisedLine(i) = Text(format, whole)
      BY <1>1, <1>3, <1>7, <3>1 DEF PromisedLine
    <3> HIDE DEF F, format, inner, needs
    <3>5. Line(F, own) = Line(F, whole)
      BY <2>1, <2>2, LinesAgree DEF own, whole, needs
    <3>6. Line(F, whole) = Text(format, whole)
      BY <1>5, <2>1
    <3>7. WellLine(Line(F, own))
      BY <1>5, <2>1, <3>3, FormatLine
    <3> QED
      BY <3>3, <3>4, <3>5, <3>6, <3>7
  <2>4. CASE Stages(own)
    <3>1. inner # None /\ p # None
      BY <1>3, <2>4 DEF Stages
    <3>2. PICK D : I \in Seq(Tokens(D)) /\ \A r : Sound(r) => Line(I, r) = Text(inner, r)
      BY <1>7, <3>1, FormatsCompile
    <3>3. ~InnerOverflows(own)
      BY <1>1, <1>7 DEF Unwritable
    <3>4. Stage(own) = Line(I, own)
      BY <2>4, <3>3 DEF Stage
    <3>5. Outer(own) = [own EXCEPT !.payload = Staged(Line(I, own))]
      BY <2>4, <3>4 DEF Outer
    <3>6. OwnLine(i) = Line(F, Outer(own)) /\ ~Overflows(F, Outer(own))
      BY <1>1, <1>7 DEF OwnLine, LineOf, Unwritable
    <3>7. PromisedLine(i) = Text(format, [whole EXCEPT !.payload = Staged(Text(inner, whole))])
      BY <1>1, <1>3, <1>7, <3>1 DEF PromisedLine
    <3> HIDE DEF F, I, format, inner, needs
    <3>8. Line(I, own) = Text(inner, whole)
      <4>1. Line(I, own) = Line(I, whole)
        BY <2>2, <3>1, <3>2, LinesAgree DEF own, whole, needs
      <4> QED
        BY <1>5, <3>2, <4>1
    <3> DEFINE q == Staged(Line(I, own))
    <3>9. SoundPayload(q)
      <4>1. Written(Line(I, own)) \in Nat
        BY <1>5, <3>2, FormatLine
      <4> QED
        BY <4>1 DEF SoundPayload, Staged
    <3> HIDE DEF q
    <3> DEFINE ownOuter == OutputRecord(i, Metadata(i), action, q)
               wholeOuter == OutputRecord(i, WholeMetadata(i), action, q)
    <3>10. /\ Outer(own) = ownOuter /\ [whole EXCEPT !.payload = q] = wholeOuter
           /\ Sound(ownOuter) /\ Sound(wholeOuter)
      BY <1>4, <3>5, <3>9 DEF q
    <3>11. Line(F, ownOuter) = Line(F, wholeOuter)
      BY <2>1, <2>2, LinesAgree DEF needs
    <3> HIDE DEF ownOuter, wholeOuter
    <3>12. Line(F, wholeOuter) = Text(format, wholeOuter)
      BY <2>1, <3>10
    <3>13. PromisedLine(i) = Text(format, wholeOuter)
      BY <3>7, <3>8, <3>10 DEF q
    <3>14. WellLine(Line(F, ownOuter))
      BY <2>1, <3>6, <3>10, FormatLine
    <3> QED
      BY <3>6, <3>10, <3>11, <3>12, <3>13, <3>14
  <2> QED
    BY <2>3, <2>4
<1> QED
  BY <1>6, <1>7

-----------------------------------------------------------------------------
\* What is written in all.

\* A unit for each byte of the lines that were written.
LineUnits(w) == UnitsOf(w, Written(w.line))
UnitsIn(S) == UNION {LineUnits(w) : w \in S}

Measured(S) == \A w \in S : Written(w.line) \in Nat

LEMMA LineUnitsCount ==
    ASSUME NEW w, Written(w.line) \in Nat
    PROVE  IsFiniteSet(LineUnits(w)) /\ Cardinality(LineUnits(w)) = Written(w.line)
BY UnitsOfCount DEF LineUnits

LEMMA UnitsOfNone == UnitsIn({}) = {} /\ IsFiniteSet(UnitsIn({})) /\ Cardinality(UnitsIn({})) = 0
<1>1. UnitsIn({}) = {}
  BY DEF UnitsIn
<1> QED
  BY <1>1, FS_EmptySet

\* A line that is not among others has its own units.
LEMMA UnitsGrow ==
    ASSUME NEW S, NEW w, w \notin S, Written(w.line) \in Nat, IsFiniteSet(UnitsIn(S))
    PROVE  /\ IsFiniteSet(UnitsIn(S \union {w}))
           /\ Cardinality(UnitsIn(S \union {w})) = Cardinality(UnitsIn(S)) + Written(w.line)
<1>1. UnitsIn(S \union {w}) = UnitsIn(S) \union LineUnits(w)
  BY DEF UnitsIn
<1>2. UnitsIn(S) \intersect LineUnits(w) = {}
  <2>1. ASSUME NEW v \in S PROVE LineUnits(v) \intersect LineUnits(w) = {}
    BY DEF LineUnits, UnitsOf
  <2> QED
    BY <2>1 DEF UnitsIn
<1>3. IsFiniteSet(LineUnits(w)) /\ Cardinality(LineUnits(w)) = Written(w.line)
  BY LineUnitsCount
<1> QED
  BY <1>1, <1>2, <1>3, Apart

LEMMA UnitsInFinite ==
    ASSUME NEW S, IsFiniteSet(S), Measured(S)
    PROVE  IsFiniteSet(UnitsIn(S))
<1> DEFINE n == Cardinality(S)
           Good == {k \in 0..n : \A s \in SUBSET S : Cardinality(s) = k => IsFiniteSet(UnitsIn(s))}
<1>1. n \in Nat /\ n \in 0..n
  BY FS_CardinalityType
<1>2. 0 \in Good
  <2>1. \A s \in SUBSET S : Cardinality(s) = 0 => s = {}
    BY FS_Subset, FS_EmptySet
  <2> QED
    BY <1>1, <2>1, UnitsOfNone
<1>3. ASSUME NEW k \in 1..n, k - 1 \in Good PROVE k \in Good
  <2> SUFFICES ASSUME NEW s \in SUBSET S, Cardinality(s) = k PROVE IsFiniteSet(UnitsIn(s))
    BY <1>1
  <2>1. IsFiniteSet(s)
    BY FS_Subset
  <2>2. PICK w : w \in s
    BY <1>1, FS_EmptySet
  <2>3. Cardinality(s \ {w}) = k - 1 /\ s \ {w} \in SUBSET S
    BY <2>1, <2>2, FS_RemoveElement
  <2>4. IsFiniteSet(UnitsIn(s \ {w}))
    BY <1>3, <2>3
  <2>5. (s \ {w}) \union {w} = s /\ w \notin s \ {w} /\ Written(w.line) \in Nat
    BY <2>2 DEF Measured
  <2>6. IsFiniteSet(UnitsIn((s \ {w}) \union {w}))
    BY <2>4, <2>5, UnitsGrow
  <2> QED
    BY <2>5, <2>6
<1>4. n \in Good
  <2> HIDE DEF n, Good
  <2> QED
    BY <1>1, <1>2, <1>3, Climbs
<1> QED
  BY <1>4

\* The sum of all lines is the number of those units, in whichever order it is taken.
LEMMA WrittenInAll ==
    ASSUME NEW S, IsFiniteSet(S), Measured(S)
    PROVE  FoldSet(AddWritten, 0, S) = Cardinality(UnitsIn(S))
<1> DEFINE One(s) == CHOOSE x \in s : TRUE
           E(f) == f = [s \in SUBSET S |->
                          IF s = {} THEN 0 ELSE AddWritten(One(s), f[s \ {One(s)}])]
           h == [s \in SUBSET S |-> Cardinality(UnitsIn(s))]
<1>1. ASSUME NEW s \in SUBSET S, s # {}
      PROVE  /\ One(s) \in s /\ s \ {One(s)} \in SUBSET S
             /\ Cardinality(UnitsIn(s)) = AddWritten(One(s), Cardinality(UnitsIn(s \ {One(s)})))
  <2>1. One(s) \in s
    BY <1>1
  <2> DEFINE w == One(s)
             r == s \ {w}
  <2> HIDE DEF w
  <2>2. w \in s
    BY <2>1 DEF w
  <2>3. r \union {w} = s /\ w \notin r /\ r \in SUBSET S
    BY <2>2
  <2>4. IsFiniteSet(UnitsIn(r))
    <3>1. IsFiniteSet(r) /\ Measured(r)
      BY <2>3, FS_Subset DEF Measured
    <3> HIDE DEF r
    <3> QED
      BY <3>1, UnitsInFinite
  <2>5. Written(w.line) \in Nat
    BY <2>2 DEF Measured
  <2>6. Cardinality(UnitsIn(r \union {w})) = Cardinality(UnitsIn(r)) + Written(w.line)
    <3> HIDE DEF r
    <3> QED
      BY <2>3, <2>4, <2>5, UnitsGrow
  <2>7. Cardinality(UnitsIn(s)) = Cardinality(UnitsIn(r)) + Written(w.line)
    BY <2>3, <2>6
  <2> QED
    BY <2>2, <2>3, <2>7 DEF w, AddWritten
<1> HIDE DEF One
<1>2. E(h)
  <2> SUFFICES ASSUME NEW s \in SUBSET S
               PROVE  h[s] = IF s = {} THEN 0 ELSE AddWritten(One(s), h[s \ {One(s)}])
    OBVIOUS
  <2>1. CASE s = {}
    BY <2>1, UnitsOfNone
  <2>2. CASE s # {}
    BY <1>1, <2>2
  <2> QED
    BY <2>1, <2>2
<1> DEFINE iter == CHOOSE f : E(f)
<1>3. E(iter)
  <2> HIDE DEF E
  <2> QED
    BY <1>2
<1>4. FoldSet(AddWritten, 0, S) = iter[S]
  BY DEF FoldSet, MapThenFoldSet, One
<1> HIDE DEF iter, h
<1>5. ASSUME NEW f, E(f), NEW s \in SUBSET S
      PROVE  f[s] = IF s = {} THEN 0 ELSE AddWritten(One(s), f[s \ {One(s)}])
  BY <1>5
<1> HIDE DEF E
<1> DEFINE n == Cardinality(S)
           Equal == {k \in 0..n : \A s \in SUBSET S : Cardinality(s) = k => iter[s] = h[s]}
<1>6. n \in Nat /\ n \in 0..n
  BY FS_CardinalityType
<1>7. 0 \in Equal
  <2>1. \A s \in SUBSET S : Cardinality(s) = 0 => s = {}
    BY FS_Subset, FS_EmptySet
  <2>2. iter[{}] = h[{}]
    BY <1>2, <1>3, <1>5
  <2> QED
    BY <1>6, <2>1, <2>2
<1>8. ASSUME NEW k \in 1..n, k - 1 \in Equal PROVE k \in Equal
  <2> SUFFICES ASSUME NEW s \in SUBSET S, Cardinality(s) = k PROVE iter[s] = h[s]
    BY <1>6
  <2>1. IsFiniteSet(s) /\ s # {}
    BY <1>6, FS_Subset, FS_EmptySet
  <2>2. One(s) \in s /\ s \ {One(s)} \in SUBSET S
    BY <1>1, <2>1
  <2>3. Cardinality(s \ {One(s)}) = k - 1
    BY <2>1, <2>2, FS_RemoveElement
  <2>4. iter[s \ {One(s)}] = h[s \ {One(s)}]
    BY <1>8, <2>2, <2>3
  <2>5. iter[s] = AddWritten(One(s), iter[s \ {One(s)}])
    BY <1>3, <1>5, <2>1
  <2>6. h[s] = AddWritten(One(s), h[s \ {One(s)}])
    BY <1>2, <1>5, <2>1
  <2> QED
    BY <2>4, <2>5, <2>6
<1>9. n \in Equal
  <2> HIDE DEF n, Equal
  <2> QED
    BY <1>6, <1>7, <1>8, Climbs
<1>10. iter[S] = h[S]
  BY <1>9
<1> QED
  BY <1>4, <1>10 DEF h

LEMMA WrittenGrows ==
    ASSUME NEW S, IsFiniteSet(S), Measured(S), NEW w, w \notin S, Written(w.line) \in Nat
    PROVE  /\ FoldSet(AddWritten, 0, S \union {w}) = FoldSet(AddWritten, 0, S) + Written(w.line)
           /\ FoldSet(AddWritten, 0, S) \in Nat
<1>1. IsFiniteSet(UnitsIn(S)) /\ FoldSet(AddWritten, 0, S) = Cardinality(UnitsIn(S))
  BY UnitsInFinite, WrittenInAll
<1>2. FoldSet(AddWritten, 0, S \union {w}) = Cardinality(UnitsIn(S \union {w}))
  <2>1. IsFiniteSet(S \union {w}) /\ Measured(S \union {w})
    BY FS_AddElement DEF Measured
  <2> QED
    BY <2>1, WrittenInAll
<1> QED
  BY <1>1, <1>2, UnitsGrow, FS_CardinalityType

-----------------------------------------------------------------------------
\* What a record is charged for.

LEMMA SumOfNone == Sum(<<>>) = 0
<1> DEFINE none == <<>>
<1>1. none \in Seq(Nat) /\ 0 = Len(none)
  OBVIOUS
<1> HIDE DEF none
<1>2. PICK g \in [0..0 -> Nat] :
        g[0] = 0 /\ (\A k \in 1..0 : g[k] = g[k - 1] + none[k]) /\ Sum(none) = g[0]
  BY <1>1, SumRun
<1> QED
  BY <1>2 DEF none

\* Each header kept is charged with its slot and its bytes.
LEMMA HeldHeaders ==
    ASSUME NEW i \in DOMAIN Log
    PROVE  Sum([h \in DOMAIN HeadersOf(i) |-> HeaderSlot + 1 + SizeOf(HeadersOf(i)[h].value)])
             = HeaderBytes(i)
<1> DEFINE hs == HeadersOf(i)
           n == Len(hs)
           f == [h \in 1..n |-> 1 + SizeOf(hs[h].value)]
<1>1. n \in Nat /\ DOMAIN hs = 1..n /\ \A h \in DOMAIN hs : IsBytes(hs[h].value)
  BY MetadataFacts DEF IsList
<1>2. HeaderSlot \in Nat
  BY HeaderSlotAssumption
<1>3. f \in [1..n -> Nat]
  BY <1>1 DEF IsBytes, SizeOf
<1>4. \A h \in 1..n : f[h] + HeaderSlot = HeaderSlot + 1 + SizeOf(hs[h].value)
  BY <1>1, <1>2 DEF IsBytes, SizeOf
<1>5. HeaderBytes(i) = n * HeaderSlot + Sum(f)
  BY <1>1 DEF HeaderBytes
<1>6. [h \in DOMAIN hs |-> HeaderSlot + 1 + SizeOf(hs[h].value)]
        = [h \in 1..n |-> f[h] + HeaderSlot]
  BY <1>1, <1>4
<1>7. Sum(f) \in Nat
  <2>1. f \in Seq(Nat)
    <3> HIDE DEF f, n
    <3> QED
      BY <1>1, <1>3, SeqDef
  <2> HIDE DEF f
  <2> QED
    BY <2>1, SumNat
<1> HIDE DEF f, n
<1>8. Sum([h \in 1..n |-> f[h] + HeaderSlot]) = Sum(f) + n * HeaderSlot
  BY <1>1, <1>2, <1>3, SumLifts
<1>9. n * HeaderSlot \in Nat
  BY <1>1, <1>2
<1> DEFINE p == n * HeaderSlot
<1> HIDE DEF p
<1>10. HeaderBytes(i) = p + Sum(f) /\ Sum([h \in 1..n |-> f[h] + HeaderSlot]) = Sum(f) + p
  BY <1>5, <1>8 DEF p
<1>11. HeaderBytes(i) = Sum([h \in 1..n |-> f[h] + HeaderSlot])
  BY <1>7, <1>9, <1>10 DEF p
<1> QED
  BY <1>6, <1>11

LEMMA ChargedIsHeld ==
    ASSUME NEW i \in DOMAIN Log
    PROVE  Charge(i) = Log[i].size + Held(Metadata(i))
<1> DEFINE m == Metadata(i)
           needs == PlanRequirements(options.output)
           sizes == [h \in DOMAIN m.headers |-> HeaderSlot + 1 + SizeOf(m.headers[h].value)]
<1>1. /\ m.key = Kept("key", Log[i].key, None)
      /\ m.headers = Kept("headers", HeadersOf(i), <<>>)
  BY DEF Metadata
<1>2. SizeOf(m.key) = Kept("key", SizeOf(Log[i].key), 0)
  BY <1>1 DEF Kept, SizeOf
<1>3. Sum(sizes) = Kept("headers", HeaderBytes(i), 0)
  <2>1. CASE "headers" \in needs
    <3>1. m.headers = HeadersOf(i)
      BY <1>1, <2>1 DEF Kept
    <3>2. Sum(sizes) = HeaderBytes(i)
      BY <3>1, HeldHeaders
    <3> QED
      BY <2>1, <3>2 DEF Kept
  <2>2. CASE "headers" \notin needs
    <3>1. m.headers = <<>>
      BY <1>1, <2>2 DEF Kept
    <3>2. sizes = <<>>
      BY <3>1
    <3> QED
      BY <2>2, <3>2, SumOfNone DEF Kept
  <2> QED
    BY <2>1, <2>2
<1>4. Held(m) = SizeOf(m.key) + Sum(sizes)
  BY DEF Held
<1>5. Log[i].size \in Nat /\ SizeOf(m.key) \in Nat /\ IsBytes(m.key)
  BY LogAssumption, MetadataSound DEF SizeOf, IsBytes, SoundMetadata
<1>6. Charge(i) = Log[i].size + SizeOf(m.key) + Sum(sizes)
  BY <1>2, <1>3 DEF Charge
<1>7. Sum(sizes) \in Int
  <2>1. m.headers \in {HeadersOf(i), <<>>}
    BY <1>1 DEF Kept
  <2>2. IsList(m.headers) /\ \A h \in DOMAIN m.headers : IsBytes(m.headers[h].value)
    BY MetadataSound DEF SoundMetadata
  <2> DEFINE n == Len(m.headers)
  <2>3. n \in Nat /\ DOMAIN m.headers = 1..n
    BY <2>2 DEF IsList
  <2>4. sizes \in [1..n -> Nat]
    BY <2>2, <2>3, HeaderSlotAssumption DEF IsBytes, SizeOf
  <2> HIDE DEF sizes, n
  <2>5. sizes \in Seq(Nat)
    BY <2>3, <2>4, SeqDef
  <2> QED
    BY <2>5, SumNat
<1> HIDE DEF sizes, m
<1> QED
  BY <1>4, <1>5, <1>6, <1>7 DEF m

-----------------------------------------------------------------------------
\* The bytes that are counted.

\* The payloads of the first n records.
SizesTo(n) == [i \in 1..n |-> Log[i].size]

\* What is written could be, and each byte of it is counted.
BytesCounted ==
    /\ stats.inputBytes = Sum(SizesTo(Entered))
    /\ stats.outputBytes = FoldSet(AddWritten, 0, written)
    /\ \A w \in written : ~Unwritable(OwnRecord(w.record))

LEMMA SizesFacts ==
    ASSUME NEW n \in Nat, n <= Len(Log)
    PROVE  /\ SizesTo(n) \in Seq(Nat) /\ Sum(SizesTo(n)) \in Nat
           /\ n + 1 \in DOMAIN Log => Sum(SizesTo(n + 1)) = Sum(SizesTo(n)) + Log[n + 1].size
<1>1. Len(Log) \in Nat /\ DOMAIN Log = 1..Len(Log) /\ \A i \in DOMAIN Log : Log[i].size \in Nat
  BY LogAssumption
<1>2. ASSUME NEW m \in Nat, m <= Len(Log) PROVE SizesTo(m) \in Seq(Nat) /\ Len(SizesTo(m)) = m
  <2>1. \A i \in 1..m : Log[i].size \in Nat
    BY <1>1, <1>2
  <2>2. SizesTo(m) \in [1..m -> Nat]
    BY <2>1 DEF SizesTo
  <2>3. SizesTo(m) \in Seq(Nat)
    BY <2>2, SeqDef
  <2> QED
    BY <2>2, <2>3
<1>3. SizesTo(n) \in Seq(Nat) /\ Len(SizesTo(n)) = n /\ Sum(SizesTo(n)) \in Nat
  BY <1>2, SumNat
<1>4. ASSUME n + 1 \in DOMAIN Log
      PROVE  Sum(SizesTo(n + 1)) = Sum(SizesTo(n)) + Log[n + 1].size
  <2> DEFINE x == Log[n + 1].size
             longer == Append(SizesTo(n), x)
  <2>1. n + 1 \in Nat /\ n + 1 <= Len(Log) /\ x \in Nat
    BY <1>1, <1>4
  <2>2. SizesTo(n + 1) \in Seq(Nat) /\ Len(SizesTo(n + 1)) = n + 1
    BY <1>2, <2>1
  <2>3. longer \in Seq(Nat) /\ Len(longer) = n + 1
    BY <1>3, <2>1
  <2>4. \A i \in 1..(n + 1) : SizesTo(n + 1)[i] = longer[i]
    <3> SUFFICES ASSUME NEW i \in 1..(n + 1) PROVE SizesTo(n + 1)[i] = longer[i]
      OBVIOUS
    <3>1. SizesTo(n + 1)[i] = Log[i].size
      BY DEF SizesTo
    <3>2. CASE i = n + 1
      BY <1>3, <2>1, <3>1, <3>2
    <3>3. CASE i # n + 1
      <4>1. i \in 1..n
        BY <3>3
      <4>2. longer[i] = SizesTo(n)[i]
        BY <1>3, <2>1, <4>1
      <4> QED
        BY <3>1, <4>1, <4>2 DEF SizesTo
    <3> QED
      BY <3>2, <3>3
  <2>5. SizesTo(n + 1) = longer
    <3> HIDE DEF longer
    <3> QED
      BY <2>2, <2>3, <2>4, SeqEqual
  <2>6. Sum(longer) = Sum(SizesTo(n)) + x
    BY <1>3, <2>1, SumAdds
  <2> QED
    BY <2>5, <2>6
<1> QED
  BY <1>3, <1>4

LEMMA LinesMeasured ==
    ASSUME PInv, BytesCounted
    PROVE  /\ Measured(written)
           /\ \A w \in written : w.line = PromisedLine(w.record) /\ WellLine(w.line)
<1>1. ASSUME NEW w \in written PROVE w.line = PromisedLine(w.record) /\ WellLine(w.line)
  <2>1. /\ w.record \in 1..Decided
        /\ w = [record |-> w.record, action |-> Promised(w.record), line |-> OwnLine(w.record)]
    BY DEF PInv, WrittenWell
  <2>2. w.record \in DOMAIN Log
    BY <2>1, Positions
  <2>3. w.line = OwnLine(w.record)
    BY <2>1
  <2> QED
    BY <2>2, <2>3, OwnLineIsPromised DEF BytesCounted, PInv, Typed
<1> QED
  BY <1>1 DEF Measured, WellLine

LEMMA BytesAreNat ==
    ASSUME PInv, BytesCounted
    PROVE  stats.inputBytes \in Nat /\ stats.outputBytes \in Nat
<1>1. Sum(SizesTo(Entered)) \in Nat
  BY Positions, SizesFacts
<1>2. IsFiniteSet(written) /\ Measured(written)
  BY LinesMeasured DEF PInv, WrittenWell
<1>3. FoldSet(AddWritten, 0, written) = Cardinality(UnitsIn(written)) /\ IsFiniteSet(UnitsIn(written))
  BY <1>2, UnitsInFinite, WrittenInAll
<1>4. Cardinality(UnitsIn(written)) \in Nat
  BY <1>3, FS_CardinalityType
<1> QED
  BY <1>1, <1>3, <1>4 DEF BytesCounted

\* No action and no issue is a counter of bytes.
LEMMA CountedBytes ==
    ASSUME NEW s, s = [c \in Counters |-> s[c]], s.inputBytes \in Nat, s.outputBytes \in Nat,
           NEW i, NEW action \in Actions, NEW issue \in {None, "invalid", "evaluation"}
    PROVE  /\ Counted(s, i, action, issue).inputBytes = s.inputBytes
           /\ Counted(s, i, action, issue).outputBytes = s.outputBytes
<1> DEFINE counter == CASE action \in {"exact", "json"} -> "pass" [] OTHER -> action
           t == Counted(s, i, action, issue)
<1>1. t = [c \in Counters |->
             s[c] + IF \/ c = issue
                       \/ c = counter /\ (action = "tombstone" => Log[i].payload # None)
                    THEN 1 ELSE 0]
  BY DEF Counted
<1>2. counter = IF action \in {"exact", "json"} THEN "pass" ELSE action
  OBVIOUS
<1> HIDE DEF counter, t
<1>3. ASSUME NEW c \in {"inputBytes", "outputBytes"} PROVE t[c] = s[c]
  <2>1. c # issue /\ c # counter
    BY <1>2, NoneAssumption DEF Actions
  <2>2. c \in Counters /\ s[c] \in Nat
    BY DEF Counters
  <2> QED
    BY <1>1, <2>1, <2>2
<1> QED
  BY <1>3 DEF t

\* What a worker does of the counters is to count its decision.
LEMMA WorkerCounts ==
    ASSUME PInv, Worker
    PROVE  /\ UNCHANGED <<options, pollerVars, writerVars>>
           /\ \/ UNCHANGED stats
              \/ \E i \in DOMAIN Log, action \in Actions, issue \in {None, "invalid", "evaluation"} :
                    stats' = Counted(stats, i, action, issue)
<1> DEFINE Counting == \E i \in DOMAIN Log, action \in Actions,
                          issue \in {None, "invalid", "evaluation"} :
                             stats' = Counted(stats, i, action, issue)
<1> SUFFICES UNCHANGED <<options, pollerVars, writerVars>> /\ (UNCHANGED stats \/ Counting)
  OBVIOUS
<1>1. ASSUME current # None, NEW action \in Actions, NEW issue \in {None, "invalid", "evaluation"},
             NEW bytes, NEW spare, Complete(action, bytes, spare, issue)
      PROVE  UNCHANGED <<options, pollerVars, writerVars>> /\ Counting
  <2>1. current.record \in DOMAIN Log
    BY <1>1, CurrentFacts
  <2> QED
    BY <1>1, <2>1 DEF Complete
<1>2. ASSUME current # None, NEW action \in Actions, NEW issue \in {None, "invalid", "evaluation"},
             Decide(action, issue)
      PROVE  UNCHANGED <<options, pollerVars, writerVars>> /\ Counting
  BY <1>1, <1>2 DEF Decide
<1>3. ASSUME current # None, NEW policy \in {"fail", "drop", "tombstone"},
             NEW issue \in {None, "invalid", "evaluation"}, Fail(policy, issue)
      PROVE  UNCHANGED <<options, pollerVars, writerVars>> /\ Counting
  BY <1>2, <1>3 DEF Fail, Actions
<1> HIDE DEF Counting
<1>4. TombstoneAction \in Actions /\ options.onEvalError \in {"fail", "drop", "tombstone"}
      /\ InvalidPolicy \in {"fail", "pass", "drop", "tombstone"}
  BY OptionFacts DEF PInv, Typed, TombstoneAction, InvalidPolicy, Actions
<1>5. CASE Take \/ Panic
  BY <1>5 DEF Take, Panic
<1>6. CASE ExecuteTombstone
  BY <1>2, <1>4, <1>6 DEF ExecuteTombstone
<1>7. CASE RejectJson
  <2>1. CASE InvalidPolicy = "pass"
    BY <1>1, <1>7, <2>1 DEF RejectJson, Actions
  <2>2. CASE InvalidPolicy # "pass"
    BY <1>3, <1>4, <1>7, <2>2 DEF RejectJson
  <2> QED
    BY <2>1, <2>2
<1>8. CASE EvaluatePredicate
  <2>1. current # None /\ Verdict \in {"true", "false", "error"}
    <3>1. /\ Parsed /\ index <= Predicates /\ current # None
          /\ Reached \in DOMAIN Log /\ current.record = Reached
      BY <1>8, CurrentFacts DEF EvaluatePredicate, Parsed
    <3>2. index \in 1..Predicates /\ Log[Reached].payload = "valid"
      BY <3>1, ParsedFacts
    <3>3. index \in DOMAIN Log[Reached].verdicts
      BY <3>1, <3>2, OptionFacts DEF PInv, Typed
    <3> QED
      BY <3>1, <3>2, <3>3, LogFacts DEF Verdict
  <2>2. CASE Verdict = "true"
    <3>1. \E action \in {"drop", TombstoneAction} : Decide(action, None)
      BY <1>8, <2>2 DEF EvaluatePredicate
    <3> QED
      BY <1>2, <1>4, <2>1, <3>1 DEF Actions
  <2>3. CASE Verdict = "error"
    BY <1>3, <1>4, <1>8, <2>1, <2>3 DEF EvaluatePredicate
  <2>4. CASE Verdict = "false"
    BY <1>8, <2>4 DEF EvaluatePredicate
  <2> QED
    BY <2>1, <2>2, <2>3, <2>4
<1>9. CASE Serialize
  <2>1. PICK output \in Outputs :
          Complete(IF options.projects THEN "project" ELSE "json", output, None, None)
    BY <1>9 DEF Serialize
  <2>2. PICK action \in {"project", "json"} : Complete(action, output, None, None)
    BY <2>1
  <2> QED
    BY <1>1, <1>9, <2>2 DEF Serialize, Serializing, Parsed, Actions
<1>10. CASE SerializeFails
  BY <1>3, <1>4, <1>10 DEF SerializeFails, Serializing, Parsed
<1>11. CASE PassExact
  BY <1>1, <1>11 DEF PassExact, Parsed, Actions
<1> QED
  BY <1>5, <1>6, <1>7, <1>8, <1>9, <1>10, <1>11 DEF Worker

LEMMA StillUnwritable ==
    ASSUME UNCHANGED options
    PROVE  \A i : Unwritable(OwnRecord(i))' <=> Unwritable(OwnRecord(i))
<1>1. \A i : Metadata(i)' = Metadata(i) /\ Promised(i)' = Promised(i)
             /\ PromisedData(i)' = PromisedData(i)
  BY Same
<1>2. \A i : OwnRecord(i)' = OwnRecord(i)
  BY <1>1 DEF OwnRecord, OutputRecord, PayloadOf
<1>3. \A r : Unwritable(r)' <=> Unwritable(r)
  BY DEF Unwritable, Outer, Stages, Stage, InnerOverflows, Staged
<1> QED
  BY <1>2, <1>3 DEF Unwritable

LEMMA StillBytes ==
    ASSUME BytesCounted, UNCHANGED <<options, written>>, Entered' = Entered,
           stats'.inputBytes = stats.inputBytes, stats'.outputBytes = stats.outputBytes
    PROVE  BytesCounted'
<1>1. SizesTo(Entered)' = SizesTo(Entered)
  BY DEF SizesTo
<1>2. \A w \in written' : ~Unwritable(OwnRecord(w.record))'
  BY StillUnwritable DEF BytesCounted
<1> QED
  BY <1>1, <1>2 DEF BytesCounted

\* A record that is admitted adds its payload.
LEMMA AdmittedBytes ==
    ASSUME PInv, BytesCounted, pending # None, pending' = None,
           UNCHANGED <<options, polled, written>>,
           stats'.inputBytes = Admitted(stats, polled).inputBytes,
           stats'.outputBytes = Admitted(stats, polled).outputBytes
    PROVE  BytesCounted'
<1>1. Entered + 1 = polled /\ polled \in DOMAIN Log /\ Entered' = Entered + 1
  BY Positions, PendingFacts DEF Entered
<1>2. /\ Admitted(stats, polled).inputBytes = stats.inputBytes + Log[polled].size
      /\ Admitted(stats, polled).outputBytes = stats.outputBytes
  BY CountsFacts DEF Admitted, Counters
<1>3. Sum(SizesTo(Entered + 1)) = Sum(SizesTo(Entered)) + Log[Entered + 1].size
  BY <1>1, Positions, SizesFacts
<1>4. SizesTo(Entered)' = SizesTo(Entered + 1)
  BY <1>1 DEF SizesTo
<1>5. stats'.inputBytes = Sum(SizesTo(Entered)')
  BY <1>1, <1>2, <1>3, <1>4 DEF BytesCounted
<1>6. \A w \in written' : ~Unwritable(OwnRecord(w.record))'
  BY StillUnwritable DEF BytesCounted
<1> QED
  BY <1>2, <1>5, <1>6 DEF BytesCounted

LEMMA WriteBytes ==
    ASSUME PInv, BytesCounted, Write
    PROVE  BytesCounted'
<1>1. PICK c \in completed :
        /\ UNCHANGED <<options, pollerVars>>
        /\ \/ UNCHANGED <<written, stats>>
           \/ /\ c.action \notin {"drop", "fatal", "panic"} /\ ~Unwritable(RecordOf(c))
              /\ written' = written \union {[record |-> c.record, action |-> c.action,
                                             line |-> LineOf(RecordOf(c))]}
              /\ stats' = [stats EXCEPT !.output = @ + 1,
                                        !.outputBytes = @ + Written(LineOf(RecordOf(c)))]
  BY DEF Write
<1>2. Completed(c) /\ c.record \in DOMAIN Log
  BY <1>1, Positions DEF PInv, CompletedWell, Completed
<1>3. Entered' = Entered
  BY <1>1 DEF Entered, pollerVars
<1>4. CASE UNCHANGED <<written, stats>>
  BY <1>1, <1>3, <1>4, StillBytes
<1>5. CASE ~UNCHANGED <<written, stats>>
  <2> DEFINE w == [record |-> c.record, action |-> c.action, line |-> LineOf(RecordOf(c))]
             n == Written(LineOf(RecordOf(c)))
  <2>1. /\ c.action = Promised(c.record) /\ ~Unwritable(RecordOf(c))
        /\ written' = written \union {w}
        /\ stats' = [stats EXCEPT !.output = @ + 1, !.outputBytes = @ + n]
    BY <1>1, <1>2, <1>5 DEF Completed
  <2>2. RecordOf(c) = OwnRecord(c.record)
    <3>1. /\ c.metadata = Metadata(c.record)
          /\ PromisedData(c.record) = IF c.bytes = None THEN <<>> ELSE c.bytes.data
      BY <1>1, <1>2, <1>5 DEF Completed
    <3> QED
      BY <2>1, <3>1 DEF RecordOf, OwnRecord
  <2>3. LineOf(RecordOf(c)) = OwnLine(c.record)
    BY <2>2 DEF OwnLine
  <2>4. n \in Nat
    BY <1>2, <2>1, <2>2, <2>3, OwnLineIsPromised DEF PInv, Typed, WellLine
  <2>5. w \notin written /\ w.record = c.record /\ Written(w.line) = n
    BY <1>1 DEF PInv, WrittenWell
  <2>6. stats'.inputBytes = stats.inputBytes /\ stats'.outputBytes = stats.outputBytes + n
    <3> HIDE DEF n
    <3> QED
      BY <2>1, CountsFacts DEF Counters
  <2> HIDE DEF w, n
  <2>7. FoldSet(AddWritten, 0, written \union {w}) = FoldSet(AddWritten, 0, written) + n
    BY <2>4, <2>5, LinesMeasured, WrittenGrows DEF PInv, WrittenWell
  <2>8. \A v \in written' : ~Unwritable(OwnRecord(v.record))'
    BY <1>1, <2>1, <2>2, <2>5, StillUnwritable DEF BytesCounted
  <2>9. SizesTo(Entered)' = SizesTo(Entered)
    BY <1>3 DEF SizesTo
  <2>10. stats'.outputBytes = FoldSet(AddWritten, 0, written')
    BY <2>1, <2>6, <2>7 DEF BytesCounted
  <2> QED
    BY <2>6, <2>8, <2>9, <2>10 DEF BytesCounted
<1> QED
  BY <1>4, <1>5

LEMMA NextBytes ==
    ASSUME PInv, BytesCounted, [Next]_vars
    PROVE  BytesCounted'
<1>1. CASE Poll
  <2>1. UNCHANGED <<options, written, stats>>
    BY <1>1 DEF Poll, writerVars
  <2> QED
    BY <1>1, <2>1, PollStep, StillBytes
<1>2. CASE AdmitToWorker
  <2>1. /\ pending # None /\ pending' = None /\ UNCHANGED <<options, polled, written>>
        /\ stats' = Admitted(stats, polled)
    BY <1>2, PendingFacts DEF AdmitToWorker, MayAdmit, writerVars
  <2> QED
    BY <2>1, AdmittedBytes
<1>3. CASE AdmitToWriter
  <2> DEFINE action == IF Log[polled].payload = None THEN TombstoneAction ELSE "exact"
             s == Admitted(stats, polled)
  <2>1. /\ pending # None /\ pending' = None /\ UNCHANGED <<options, polled, written>>
        /\ stats' = Counted(s, polled, action, None)
    BY <1>3, PendingFacts DEF AdmitToWriter, MayAdmit, writerVars
  <2>2. s = [c \in Counters |-> s[c]] /\ action \in Actions
    BY <2>1, AdmittedFacts DEF TombstoneAction, Actions
  <2>3. s.inputBytes \in Nat /\ s.outputBytes \in Nat
    <3>1. stats.inputBytes \in Nat /\ stats.outputBytes \in Nat /\ Log[polled].size \in Nat
      BY <2>1, BytesAreNat, PendingFacts, LogFacts
    <3> QED
      BY <3>1, CountsFacts DEF Admitted, Counters
  <2> HIDE DEF action, s
  <2>4. stats'.inputBytes = s.inputBytes /\ stats'.outputBytes = s.outputBytes
    BY <2>1, <2>2, <2>3, CountedBytes
  <2> QED
    BY <2>1, <2>4, AdmittedBytes DEF s
<1>4. CASE RecycleReleased
  <2>1. UNCHANGED <<options, pollerVars, written, stats>>
    BY <1>4 DEF RecycleReleased
  <2>2. Entered' = Entered
    BY <2>1 DEF Entered, pollerVars
  <2> QED
    BY <2>1, <2>2, StillBytes
<1>5. CASE Worker
  <2>1. UNCHANGED <<options, pollerVars, writerVars>>
    BY <1>5, WorkerCounts
  <2>2. Entered' = Entered
    BY <2>1 DEF Entered, pollerVars
  <2>3. stats'.inputBytes = stats.inputBytes /\ stats'.outputBytes = stats.outputBytes
    BY <1>5, WorkerCounts, CountedBytes, BytesAreNat, CountsFacts
  <2> QED
    BY <2>1, <2>2, <2>3, StillBytes DEF writerVars
<1>6. CASE Write
  BY <1>6, WriteBytes
<1>7. CASE End \/ UNCHANGED vars
  <2>1. UNCHANGED <<options, pollerVars, written, stats>>
    BY <1>7 DEF End, vars, writerVars
  <2>2. Entered' = Entered
    BY <2>1 DEF Entered, pollerVars
  <2> QED
    BY <2>1, <2>2, StillBytes
<1> QED
  BY <1>1, <1>2, <1>3, <1>4, <1>5, <1>6, <1>7 DEF Next

LEMMA InitBytes == Init => BytesCounted
<1> SUFFICES ASSUME Init PROVE BytesCounted
  OBVIOUS
<1>1. Entered = 0 /\ written = {} /\ stats.inputBytes = 0 /\ stats.outputBytes = 0
  BY DEF Init, Entered
<1>2. SizesTo(0) = <<>>
  BY DEF SizesTo
<1>3. FoldSet(AddWritten, 0, {}) = 0
  <2>1. IsFiniteSet({}) /\ Measured({})
    BY FS_EmptySet DEF Measured
  <2> QED
    BY <2>1, WrittenInAll, UnitsOfNone
<1> QED
  BY <1>1, <1>2, <1>3, SumOfNone DEF BytesCounted

LEMMA BytesInvariant == Spec => [](PInv /\ BytesCounted)
<1>1. Init => PInv /\ BytesCounted
  BY InitPInv, InitBytes
<1>2. PInv /\ BytesCounted /\ [Next]_vars => PInv' /\ BytesCounted'
  BY NextPInv, NextBytes
<1> QED
  BY <1>1, <1>2, PTL DEF Spec

\* For any records, formats, command lines, allocator and failures, a run writes what
\* the documentation promises: the actions, the lines as the source of the format
\* reads them, from metadata of which only what the format asks for was kept, and
\* no length above what %R can hold; and it counts every byte once.
THEOREM OutputIsAsPromised == Spec => []OutputAsPromised
<1>1. ASSUME PInv, BytesCounted PROVE LinesAsPromised
  BY <1>1, LinesMeasured DEF LinesAsPromised, WellLine
<1>2. ASSUME PInv, BytesCounted PROVE BytesAddUp
  <2>1. ASSUME pending # None
        PROVE  pending.metadata.retained = Log[pending.record].size + Held(pending.metadata)
    <3>1. /\ polled \in DOMAIN Log /\ pending.record = polled
          /\ pending.metadata = Metadata(polled)
      BY <1>2, <2>1, PendingFacts
    <3>2. Metadata(polled).retained = Charge(polled)
      BY DEF Metadata
    <3> QED
      BY <3>1, <3>2, ChargedIsHeld
  <2>2. stats.outputBytes = FoldSet(AddWritten, 0, written)
    BY <1>2 DEF BytesCounted
  <2>3. ASSUME Done PROVE stats.inputBytes = Sum([i \in DOMAIN Log |-> Log[i].size])
    <3>1. Entered = Len(Log) /\ DOMAIN Log = 1..Len(Log)
      BY <1>2, <2>3, DoneFacts, Positions
    <3> QED
      BY <1>2, <3>1 DEF BytesCounted, SizesTo
  <2> QED
    BY <2>1, <2>2, <2>3 DEF BytesAddUp
<1>3. PInv /\ BytesCounted => LinesAsPromised /\ BytesAddUp
  BY <1>1, <1>2
<1>4. Spec => [](LinesAsPromised /\ BytesAddUp)
  BY <1>3, BytesInvariant, PTL
<1>5. ActionsAsPromised /\ LinesAsPromised /\ BytesAddUp => OutputAsPromised
  BY DEF OutputAsPromised
<1> QED
  BY <1>4, <1>5, ActionsAreAsPromised, PTL
=============================================================================
