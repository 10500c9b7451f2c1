--------------------------- MODULE PipelineProofs ---------------------------
(***************************************************************************)
(* Proofs about Pipeline, for any number of threads, any partitions,       *)
(* limits and faults. First, every admitted record is in one place until   *)
(* its credit has been taken back. Then what a run writes: in order and    *)
(* once, nothing after a failure, and everything when it completes; and    *)
(* that a run in which nothing fails reports no failure.                   *)
(***************************************************************************)
EXTENDS Pipeline, ListTheorems

\* The poller that admitted a record, and takes back its credit.
Owner(r) == Assigned[r[1]]
OneOwner(S) == \A q, r \in S : Owner(q) = Owner(r)

\* The records of several batches, and batches that share none.
Recs(f) == UNION {Range(f[i]) : i \in DOMAIN f}
Flat(f) ==
    /\ \A i \in DOMAIN f : IsInjective(f[i])
    /\ \A i, k \in DOMAIN f : i # k => Range(f[i]) \intersect Range(f[k]) = {}

\* The places a record passes through, and the records in each.
Places == {"buf", "work", "hold", "completion", "wbatch", "reorder", "ready",
           "returned", "releases"}
Stage(place) ==
    CASE place = "buf" -> Recs(buf)
      [] place = "work" -> Recs(work)
      [] place = "hold" -> Recs(hold)
      [] place = "completion" -> Recs(completion)
      [] place = "wbatch" -> Range(wbatch)
      [] place = "reorder" -> reorder
      [] place = "ready" -> Range(ready)
      [] place = "returned" -> Range(returned)
      [] place = "releases" -> UNION {Recs(releases[c]) : c \in Pollers}
Located == UNION {Stage(place) : place \in Places}
Mine(p) == {r \in Located : r[1] = p}

\* The places a record leaves only by being written or dropped.
Upstream == UNION {Stage(place) : place \in Places \ {"returned", "releases"}}

Typed ==
    /\ TypeOK
    /\ buf \in [Pollers -> Seq(RecordType)] /\ hold \in [Workers -> Seq(RecordType)]
    /\ written \in [Partitions -> Seq(Nat)]
    /\ releases \in [Pollers -> Seq(Seq(RecordType))]

\* Threads start in order, hold a batch only while they work on it, and leave
\* a run without a failure only when nothing is theirs any more.
ThreadsWell ==
    /\ main = "pollers" => \A c \in Pollers : c > spawned => poller[c] = "unborn"
    /\ main \in {"pollers", "workers"} =>
        \A w \in Workers : main = "pollers" \/ w > spawned => worker[w] = "unborn"
    /\ ~ParsesJson => main # "workers" /\ \A w \in Workers : worker[w] = "unborn"
    /\ \A w \in Workers : hold[w] # <<>> => worker[w] = "busy"
    /\ \A c \in Pollers :
        /\ pending[c] \in PartitionsOf(c) \union {NoPartition}
        /\ poller[c] = "reserve" => pending[c] # NoPartition
    /\ wfail # None => firstFailure # None
    /\ Unbroken =>
        /\ \A c \in Pollers : Over(poller[c]) => Idle(c)
        /\ WriterGone \/ main = "flushing" =>
                \A w \in Workers : worker[w] \notin {"recv", "busy"}

\* Batches hold a record once, and records of one poller only.
BatchesWell ==
    /\ Flat(buf) /\ Flat(work) /\ Flat(hold) /\ Flat(completion)
    /\ IsInjective(wbatch) /\ IsInjective(ready) /\ IsInjective(returned)
    /\ \A c \in Pollers :
        /\ Flat(releases[c])
        /\ \A i \in DOMAIN releases[c] : releases[c][i] # <<>>
        /\ \A r \in Recs(releases[c]) \union Range(buf[c]) : Owner(r) = c
    /\ \A i \in DOMAIN work : OneOwner(Range(work[i]))
    /\ \A w \in Workers : OneOwner(Range(hold[w]))
    /\ \A i \in DOMAIN completion : OneOwner(Range(completion[i]))
    /\ OneOwner(Range(wbatch) \union Range(ready) \union Range(returned))

Apart ==
    \A a, b \in Places : a # b => Stage(a) \intersect Stage(b) = {}

\* Every located record has a credit, and without a failure every credit has
\* its record.
CreditsWell ==
    /\ IsFiniteSet(Located)
    /\ \A r \in Located : r \in RecordType /\ r[2] < next[r[1]]
    /\ \A p \in Partitions :
        /\ frontier[p] <= next[p]
        /\ Cardinality(Mine(p)) <= inflight[p]
    /\ Cardinality(Located) <= records
    /\ Unbroken =>
        /\ \A p \in Partitions : Cardinality(Mine(p)) = inflight[p]
        /\ Cardinality(Located) = records

\* Without a failure a record that was admitted is not lost before it is
\* written or dropped.
WritesWell ==
    Unbroken => \A p \in Partitions : \A s \in 0..(next[p] - 1) :
        <<p, s>> \in Upstream \/ s \in Range(written[p])

IInv == Typed /\ ThreadsWell /\ BatchesWell /\ Apart /\ CreditsWell /\ WritesWell

-----------------------------------------------------------------------------
\* Sequences and batches.

LEMMA SeqFacts ==
    ASSUME NEW S, NEW s \in Seq(S)
    PROVE  /\ Len(s) \in Nat /\ DOMAIN s = 1..Len(s) /\ Range(s) \subseteq S
           /\ s # <<>> => 1 \in DOMAIN s /\ Head(s) = s[1]
           /\ \A i \in DOMAIN s : s[i] \in S
<1>1. Len(s) \in Nat /\ DOMAIN s = 1..Len(s) /\ \A i \in 1..Len(s) : s[i] \in S
  BY ElementOfSeq
<1>2. s # <<>> => Len(s) \in Nat \ {0}
  BY EmptySeq
<1> QED
  BY <1>1, <1>2 DEF Range

LEMMA RangeTail ==
    ASSUME NEW S, NEW s \in Seq(S), s # <<>>, IsInjective(s)
    PROVE  /\ Head(s) \in S /\ Head(s) \in Range(s) /\ Tail(s) \in Seq(S)
           /\ Range(Tail(s)) = Range(s) \ {Head(s)} /\ IsInjective(Tail(s))
           /\ \A i \in DOMAIN Tail(s) : i + 1 \in DOMAIN s /\ Tail(s)[i] = s[i + 1]
<1>1. Len(s) \in Nat /\ DOMAIN s = 1..Len(s) /\ 1 \in DOMAIN s /\ Head(s) = s[1]
  BY SeqFacts
<1>2. /\ Head(s) \in S /\ Tail(s) \in Seq(S) /\ Len(Tail(s)) = Len(s) - 1
      /\ \A i \in 1..Len(Tail(s)) : Tail(s)[i] = s[i + 1]
  BY HeadTailProperties
<1>3. DOMAIN Tail(s) = 1..(Len(s) - 1)
  BY <1>2, SeqFacts
<1>4. \A i \in DOMAIN Tail(s) : i + 1 \in DOMAIN s /\ Tail(s)[i] = s[i + 1] /\ i + 1 # 1
  BY <1>1, <1>2, <1>3
<1>5. \A k \in DOMAIN s : k # 1 => k - 1 \in DOMAIN Tail(s) /\ Tail(s)[k - 1] = s[k]
  BY <1>1, <1>2, <1>3
<1>6. IsInjective(Tail(s))
  <2> SUFFICES ASSUME NEW i \in DOMAIN Tail(s), NEW k \in DOMAIN Tail(s),
                      Tail(s)[i] = Tail(s)[k]
               PROVE  i = k
    BY DEF IsInjective
  <2>1. i + 1 = k + 1
    BY <1>4 DEF IsInjective
  <2> QED
    BY <1>1, <1>3, <2>1
<1>7. Range(Tail(s)) = Range(s) \ {Head(s)}
  <2>1. ASSUME NEW x \in Range(Tail(s)) PROVE x \in Range(s) /\ x # Head(s)
    <3>1. PICK i \in DOMAIN Tail(s) : x = Tail(s)[i]
      BY DEF Range
    <3> QED
      BY <1>1, <1>4, <3>1 DEF Range, IsInjective
  <2>2. ASSUME NEW x \in Range(s), x # Head(s) PROVE x \in Range(Tail(s))
    <3>1. PICK k \in DOMAIN s : x = s[k]
      BY DEF Range
    <3>2. k - 1 \in DOMAIN Tail(s) /\ Tail(s)[k - 1] = x
      BY <1>1, <1>5, <2>2, <3>1
    <3> QED
      BY <3>2 DEF Range
  <2> QED
    BY <2>1, <2>2
<1> QED
  BY <1>1, <1>2, <1>4, <1>6, <1>7 DEF Range

LEMMA RangeAppend ==
    ASSUME NEW S, NEW s \in Seq(S), NEW e \in S
    PROVE  /\ Append(s, e) \in Seq(S) /\ Range(Append(s, e)) = Range(s) \union {e}
           /\ Append(s, e) # <<>>
           /\ IsInjective(s) /\ e \notin Range(s) => IsInjective(Append(s, e))
<1> DEFINE t == Append(s, e)
           n == Len(s)
<1>1. n \in Nat /\ DOMAIN s = 1..n
  BY SeqFacts
<1>2. /\ t \in Seq(S) /\ t # <<>> /\ Len(t) = n + 1
      /\ \A i \in 1..n : t[i] = s[i]
      /\ t[n + 1] = e
  BY AppendProperties
<1>3. DOMAIN t = 1..(n + 1)
  BY <1>2, SeqFacts
<1> HIDE DEF t
<1>4. \A i \in 1..(n + 1) : i \in 1..n \/ i = n + 1
  BY <1>1
<1>5. \A i \in 1..n : i \in 1..(n + 1) /\ i # n + 1
  BY <1>1
<1>6. n + 1 \in 1..(n + 1)
  BY <1>1
<1>7. Range(t) = Range(s) \union {e}
  BY <1>1, <1>2, <1>3, <1>4, <1>5, <1>6 DEF Range
<1>8. ASSUME IsInjective(s), e \notin Range(s) PROVE IsInjective(t)
  BY <1>1, <1>2, <1>3, <1>4, <1>8 DEF Range, IsInjective
<1> QED
  BY <1>2, <1>7, <1>8 DEF t

LEMMA EmptyBatch ==
    /\ \A S : <<>> \in Seq(S)
    /\ Range(<<>>) = {} /\ IsInjective(<<>>) /\ Recs(<<>>) = {} /\ Flat(<<>>)
<1>1. \A S : <<>> \in Seq(S)
  BY EmptySeq
<1>2. DOMAIN <<>> = {}
  OBVIOUS
<1> QED
  BY <1>1, <1>2 DEF Range, IsInjective, Recs, Flat

LEMMA FlatTail ==
    ASSUME NEW S, NEW ss \in Seq(Seq(S)), ss # <<>>, Flat(ss)
    PROVE  /\ Head(ss) \in Seq(S) /\ Tail(ss) \in Seq(Seq(S))
           /\ Range(Head(ss)) \subseteq Recs(ss) /\ IsInjective(Head(ss))
           /\ Flat(Tail(ss)) /\ Recs(Tail(ss)) = Recs(ss) \ Range(Head(ss))
           /\ 1 \in DOMAIN ss /\ Head(ss) = ss[1]
           /\ \A i \in DOMAIN Tail(ss) : i + 1 \in DOMAIN ss /\ Tail(ss)[i] = ss[i + 1]
<1>1. Len(ss) \in Nat /\ DOMAIN ss = 1..Len(ss) /\ 1 \in DOMAIN ss /\ Head(ss) = ss[1]
  BY SeqFacts
<1>2. /\ Head(ss) \in Seq(S) /\ Tail(ss) \in Seq(Seq(S)) /\ Len(Tail(ss)) = Len(ss) - 1
      /\ \A i \in 1..Len(Tail(ss)) : Tail(ss)[i] = ss[i + 1]
  BY HeadTailProperties
<1>3. DOMAIN Tail(ss) = 1..(Len(ss) - 1)
  BY <1>2, SeqFacts
<1>4. \A i \in DOMAIN Tail(ss) : i + 1 \in DOMAIN ss /\ Tail(ss)[i] = ss[i + 1] /\ i + 1 # 1
  BY <1>1, <1>2, <1>3
<1>5. \A k \in DOMAIN ss : k # 1 => k - 1 \in DOMAIN Tail(ss) /\ Tail(ss)[k - 1] = ss[k]
  BY <1>1, <1>2, <1>3
<1>6. Range(Head(ss)) \subseteq Recs(ss) /\ IsInjective(Head(ss))
  BY <1>1 DEF Recs, Flat
<1>7. Flat(Tail(ss))
  <2>1. \A i \in DOMAIN Tail(ss) : IsInjective(Tail(ss)[i])
    BY <1>4 DEF Flat
  <2>2. ASSUME NEW i \in DOMAIN Tail(ss), NEW k \in DOMAIN Tail(ss), i # k
        PROVE  Range(Tail(ss)[i]) \intersect Range(Tail(ss)[k]) = {}
    <3>1. i + 1 # k + 1
      BY <1>1, <1>3, <2>2
    <3> QED
      BY <1>4, <3>1 DEF Flat
  <2> QED
    BY <2>1, <2>2 DEF Flat
<1>8. Recs(Tail(ss)) = Recs(ss) \ Range(Head(ss))
  <2>1. ASSUME NEW x \in Recs(Tail(ss)) PROVE x \in Recs(ss) /\ x \notin Range(Head(ss))
    <3>1. PICK i \in DOMAIN Tail(ss) : x \in Range(Tail(ss)[i])
      BY DEF Recs
    <3>2. i + 1 \in DOMAIN ss /\ x \in Range(ss[i + 1]) /\ i + 1 # 1
      BY <1>4, <3>1
    <3> QED
      BY <1>1, <3>2 DEF Recs, Flat
  <2>2. ASSUME NEW x \in Recs(ss), x \notin Range(Head(ss)) PROVE x \in Recs(Tail(ss))
    <3>1. PICK k \in DOMAIN ss : x \in Range(ss[k])
      BY DEF Recs
    <3>2. k - 1 \in DOMAIN Tail(ss) /\ Tail(ss)[k - 1] = ss[k]
      BY <1>1, <1>5, <2>2, <3>1
    <3> QED
      BY <3>1, <3>2 DEF Recs
  <2> QED
    BY <2>1, <2>2
<1> QED
  BY <1>1, <1>2, <1>4, <1>6, <1>7, <1>8

LEMMA FlatAppend ==
    ASSUME NEW S, NEW ss \in Seq(Seq(S)), NEW b \in Seq(S), Flat(ss), IsInjective(b),
           Range(b) \intersect Recs(ss) = {}
    PROVE  /\ Append(ss, b) \in Seq(Seq(S)) /\ Flat(Append(ss, b))
           /\ Recs(Append(ss, b)) = Recs(ss) \union Range(b)
           /\ \A i \in DOMAIN Append(ss, b) :
                Append(ss, b)[i] = b \/ (i \in DOMAIN ss /\ Append(ss, b)[i] = ss[i])
<1> DEFINE tt == Append(ss, b)
           n == Len(ss)
<1>1. n \in Nat /\ DOMAIN ss = 1..n
  BY SeqFacts
<1>2. /\ tt \in Seq(Seq(S)) /\ Len(tt) = n + 1
      /\ \A i \in 1..n : tt[i] = ss[i]
      /\ tt[n + 1] = b
  BY AppendProperties
<1>3. DOMAIN tt = 1..(n + 1)
  BY <1>2, SeqFacts
<1> HIDE DEF tt
<1>4. \A i \in 1..(n + 1) : i \in 1..n \/ i = n + 1
  BY <1>1
<1>5. \A i \in 1..n : i \in 1..(n + 1) /\ i # n + 1
  BY <1>1
<1>6. n + 1 \in 1..(n + 1)
  BY <1>1
<1>7. \A i \in DOMAIN tt : (i = n + 1 /\ tt[i] = b) \/ (i \in DOMAIN ss /\ tt[i] = ss[i])
  BY <1>1, <1>2, <1>3, <1>4
<1>8. \A i \in DOMAIN ss : Range(b) \intersect Range(ss[i]) = {}
  BY DEF Recs
<1>9. Flat(tt)
  <2>1. \A i \in DOMAIN tt : IsInjective(tt[i])
    BY <1>7 DEF Flat
  <2>2. ASSUME NEW i \in DOMAIN tt, NEW k \in DOMAIN tt, i # k
        PROVE  Range(tt[i]) \intersect Range(tt[k]) = {}
    BY <1>7, <1>8, <2>2 DEF Flat
  <2> QED
    BY <2>1, <2>2 DEF Flat
<1>10. Recs(tt) = Recs(ss) \union Range(b)
  <2>1. ASSUME NEW x \in Recs(tt) PROVE x \in Recs(ss) \/ x \in Range(b)
    BY <1>7 DEF Recs
  <2>2. Range(b) \subseteq Recs(tt)
    BY <1>2, <1>3, <1>6 DEF Recs
  <2>3. Recs(ss) \subseteq Recs(tt)
    BY <1>1, <1>2, <1>3, <1>5 DEF Recs
  <2> QED
    BY <2>1, <2>2, <2>3
<1>11. \A i \in DOMAIN tt : tt[i] = b \/ (i \in DOMAIN ss /\ tt[i] = ss[i])
  BY <1>7
<1> QED
  BY <1>2, <1>9, <1>10, <1>11, Zenon DEF tt

LEMMA FlatExcept ==
    ASSUME NEW D, NEW f, DOMAIN f = D, NEW c \in D, NEW b, Flat(f), IsInjective(b),
           Range(b) \intersect (Recs(f) \ Range(f[c])) = {}
    PROVE  /\ Flat([f EXCEPT ![c] = b])
           /\ Recs([f EXCEPT ![c] = b]) = (Recs(f) \ Range(f[c])) \union Range(b)
           /\ Range(f[c]) \subseteq Recs(f)
<1> DEFINE g == [f EXCEPT ![c] = b]
<1>1. DOMAIN g = D /\ \A d \in D : g[d] = IF d = c THEN b ELSE f[d]
  OBVIOUS
<1> HIDE DEF g
<1>2. \A d \in D \ {c} : Range(f[d]) \subseteq Recs(f) \ Range(f[c])
  BY DEF Flat, Recs
<1>3. Flat(g)
  BY <1>1, <1>2 DEF Flat
<1>4. Recs(g) = (Recs(f) \ Range(f[c])) \union Range(b)
  <2>1. ASSUME NEW x \in Recs(g) PROVE x \in (Recs(f) \ Range(f[c])) \union Range(b)
    BY <1>1, <1>2 DEF Recs
  <2>2. ASSUME NEW x \in (Recs(f) \ Range(f[c])) \union Range(b) PROVE x \in Recs(g)
    BY <1>1 DEF Recs
  <2> QED
    BY <2>1, <2>2
<1> QED
  BY <1>3, <1>4 DEF g, Recs

-----------------------------------------------------------------------------
\* What the operators of the model return.

\* As many credits return as the batch has records, in all and per partition.
LEMMA BatchCounts ==
    ASSUME NEW batch \in Seq(RecordType), IsInjective(batch)
    PROVE  /\ IsFiniteSet(Range(batch)) /\ Cardinality(Range(batch)) = Len(batch)
           /\ \A p \in Partitions : Cardinality({i \in DOMAIN batch : batch[i][1] = p})
                                    = Cardinality({r \in Range(batch) : r[1] = p})
<1>1. Len(batch) \in Nat /\ DOMAIN batch = 1..Len(batch)
  BY SeqFacts
<1>2. IsFiniteSet(DOMAIN batch) /\ Cardinality(DOMAIN batch) = Len(batch)
  BY <1>1, FS_Interval
<1>3. batch \in Bijection(DOMAIN batch, Range(batch))
  <2>1. batch \in [DOMAIN batch -> Range(batch)]
    <3>1. batch \in [1..Len(batch) -> RecordType]
      BY LenProperties
    <3> QED
      BY <3>1 DEF Range
  <2> QED
    BY <2>1 DEF Bijection, Injection, Surjection, Range
<1>4. IsFiniteSet(Range(batch)) /\ Cardinality(Range(batch)) = Len(batch)
  BY <1>2, <1>3, FS_Bijection DEF ExistsBijection
<1>5. ASSUME NEW p \in Partitions
      PROVE  Cardinality({i \in DOMAIN batch : batch[i][1] = p})
             = Cardinality({r \in Range(batch) : r[1] = p})
  <2> DEFINE I == {i \in DOMAIN batch : batch[i][1] = p}
             R == {r \in Range(batch) : r[1] = p}
             g == [i \in I |-> batch[i]]
  <2>1. g \in Bijection(I, R)
    BY DEF Bijection, Injection, Surjection, Range, IsInjective
  <2>2. IsFiniteSet(I)
    BY <1>2, FS_Subset
  <2> QED
    BY <2>1, <2>2, FS_Bijection DEF ExistsBijection
<1> QED
  BY <1>4, <1>5

\* A finite set as a sequence.
LEMMA SetToSeqIs ==
    ASSUME NEW S, IsFiniteSet(S)
    PROVE  /\ SetToSeq(S) \in Seq(S) /\ IsInjective(SetToSeq(S)) /\ Range(SetToSeq(S)) = S
           /\ S # {} => SetToSeq(S) # <<>>
<1> DEFINE D == 1..Cardinality(S)
<1>1. Cardinality(S) \in Nat /\ ExistsBijection(D, S)
  BY FS_CardinalityType
<1>2. PICK g : g \in Bijection(D, S)
  BY <1>1 DEF ExistsBijection
<1>3. g \in [D -> S] /\ IsInjective(g)
  BY <1>2 DEF Bijection, Injection
<1>4. SetToSeq(S) \in [D -> S] /\ IsInjective(SetToSeq(S))
  BY <1>3 DEF SetToSeq
<1> DEFINE f == SetToSeq(S)
<1> HIDE DEF f
<1>5. f \in [D -> S] /\ IsInjective(f)
  BY <1>4 DEF f
<1>6. f \in Injection(D, S) /\ Cardinality(D) = Cardinality(S)
  BY <1>1, <1>5, FS_Interval DEF Injection
<1>7. f \in Surjection(D, S)
  BY <1>6, FS_Injection
<1>8. Range(f) = S
  BY <1>7, <1>5 DEF Surjection, Range
<1>9. f \in Seq(S)
  BY <1>1, <1>5, SeqDef
<1>10. S # {} => f # <<>>
  BY <1>8, <1>9, EmptySeq DEF Range
<1> QED
  BY <1>5, <1>8, <1>9, <1>10 DEF f

\* The drained run is what the pool holds from the frontier up to the first
\* sequence it does not hold.
LEMMA DrainIs ==
    ASSUME NEW p \in Partitions, frontier[p] \in Nat, NEW pool, IsFiniteSet(pool)
    PROVE  /\ Drain(p, pool) \in Seq(RecordType) /\ IsInjective(Drain(p, pool))
           /\ Len(Drain(p, pool)) \in Nat /\ Range(Drain(p, pool)) \subseteq pool
           /\ <<p, frontier[p] + Len(Drain(p, pool))>> \notin pool
           /\ \A i \in 1..Len(Drain(p, pool)) : Drain(p, pool)[i] = <<p, frontier[p] + i - 1>>
           /\ DOMAIN Drain(p, pool) = 1..Len(Drain(p, pool))
<1> DEFINE f == frontier[p]
           n == Cardinality(pool)
           Free == {e \in Nat : e >= f /\ <<p, e>> \notin pool}
           IsEnd(e) == /\ <<p, e>> \notin pool
                       /\ \A s \in f..(e - 1) : <<p, s>> \in pool
           end == CHOOSE e \in f..(f + n) : IsEnd(e)
<1>1. n \in Nat
  BY FS_CardinalityType
<1>2. \E e \in f..(f + n) : <<p, e>> \notin pool
  <2> SUFFICES ASSUME \A e \in f..(f + n) : <<p, e>> \in pool PROVE FALSE
    OBVIOUS
  <2> DEFINE g == [e \in f..(f + n) |-> <<p, e>>]
  <2>1. g \in Injection(f..(f + n), pool)
    BY DEF Injection, IsInjective
  <2>2. Cardinality(f..(f + n)) = n + 1
    BY <1>1, FS_Interval
  <2>3. Cardinality(f..(f + n)) <= n
    BY <2>1, FS_Injection
  <2> QED
    BY <1>1, <2>2, <2>3
<1>3. PICK m \in Free : \A e \in Free : m <= e
  <2>1. Free \in SUBSET Nat /\ Free # {}
    BY <1>1, <1>2
  <2> HIDE DEF Free
  <2> QED
    BY <2>1, LeastNatural, Zenon
<1>4. m \in f..(f + n) /\ IsEnd(m)
  BY <1>1, <1>2, <1>3
<1>5. end \in f..(f + n) /\ IsEnd(end)
  <2> HIDE DEF IsEnd
  <2> QED
    BY <1>4
<1> HIDE DEF end
<1> DEFINE run == [i \in 1..(end - f) |-> <<p, f + i - 1>>]
<1>6. Drain(p, pool) = run
  BY DEF Drain, end
<1>7. end - f \in Nat /\ end \in Nat
  BY <1>1, <1>5
<1>8. \A i \in 1..(end - f) : f + i - 1 \in f..(end - 1) /\ f + i - 1 \in Nat
  BY <1>7
<1>9. run \in [1..(end - f) -> RecordType]
  BY <1>8 DEF RecordType
<1>10. run \in Seq(RecordType) /\ Len(run) = end - f /\ DOMAIN run = 1..(end - f)
  <2>1. DOMAIN run = 1..(end - f)
    OBVIOUS
  <2> HIDE DEF run
  <2>2. run \in Seq(RecordType)
    BY <1>7, <1>9, SeqDef
  <2>3. Len(run) \in Nat /\ DOMAIN run = 1..Len(run)
    BY <2>2, LenProperties
  <2>4. Len(run) = end - f
    BY <1>7, <2>1, <2>3
  <2> QED
    BY <2>1, <2>2, <2>4
<1>11. IsInjective(run)
  BY <1>7 DEF IsInjective
<1>12. Range(run) \subseteq pool
  BY <1>5, <1>8 DEF Range
<1>13. f + (end - f) = end
  BY <1>7
<1> QED
  BY <1>5, <1>6, <1>7, <1>10, <1>11, <1>12, <1>13

-----------------------------------------------------------------------------
\* Places.

LEMMA StageIs ==
    /\ Stage("buf") = Recs(buf) /\ Stage("work") = Recs(work)
    /\ Stage("hold") = Recs(hold) /\ Stage("completion") = Recs(completion)
    /\ Stage("wbatch") = Range(wbatch) /\ Stage("reorder") = reorder
    /\ Stage("ready") = Range(ready) /\ Stage("returned") = Range(returned)
    /\ Stage("releases") = UNION {Recs(releases[c]) : c \in Pollers}
  BY DEF Stage

LEMMA StageIsPrimed ==
    /\ Stage("buf")' = Recs(buf') /\ Stage("work")' = Recs(work')
    /\ Stage("hold")' = Recs(hold') /\ Stage("completion")' = Recs(completion')
    /\ Stage("wbatch")' = Range(wbatch') /\ Stage("reorder")' = reorder'
    /\ Stage("ready")' = Range(ready') /\ Stage("returned")' = Range(returned')
    /\ Stage("releases")' = UNION {Recs(releases'[c]) : c \in Pollers}
  BY DEF Stage, Recs, Range

LEMMA SameStage ==
    /\ buf' = buf => Stage("buf")' = Stage("buf")
    /\ work' = work => Stage("work")' = Stage("work")
    /\ hold' = hold => Stage("hold")' = Stage("hold")
    /\ completion' = completion => Stage("completion")' = Stage("completion")
    /\ wbatch' = wbatch => Stage("wbatch")' = Stage("wbatch")
    /\ reorder' = reorder => Stage("reorder")' = Stage("reorder")
    /\ ready' = ready => Stage("ready")' = Stage("ready")
    /\ returned' = returned => Stage("returned")' = Stage("returned")
    /\ releases' = releases => Stage("releases")' = Stage("releases")
  BY StageIs, StageIsPrimed

LEMMA LocatedIs ==
    ASSUME NEW x
    PROVE  /\ x \in Located <=> \E s \in Places : x \in Stage(s)
           /\ x \in Located' <=> \E s \in Places : x \in Stage(s)'
           /\ x \in Upstream <=> \E s \in Places \ {"returned", "releases"} : x \in Stage(s)
           /\ x \in Stage("releases") <=> \E c \in Pollers : x \in Recs(releases[c])
           /\ x \in Stage("releases")' <=> \E c \in Pollers : x \in Recs(releases'[c])
<1>1. /\ x \in Located <=> \E s \in Places : x \in Stage(s)
      /\ x \in Located' <=> \E s \in Places : x \in Stage(s)'
      /\ x \in Upstream <=> \E s \in Places \ {"returned", "releases"} : x \in Stage(s)
  BY DEF Located, Upstream, Places
<1>2. x \in Stage("releases") <=> \E c \in Pollers : x \in Recs(releases[c])
  BY StageIs
<1>3. x \in Stage("releases")' <=> \E c \in Pollers : x \in Recs(releases'[c])
  BY StageIsPrimed
<1> QED
  BY <1>1, <1>2, <1>3

\* A step that only moves records between the places of T.
Moves(T) ==
    /\ \A s \in Places \ T : Stage(s)' = Stage(s)
    /\ \A a \in T : Stage(a)' \subseteq UNION {Stage(s) : s \in T}
    /\ \A a, b \in T : a # b => Stage(a)' \intersect Stage(b)' = {}

\* A step that loses none of the records of the places of T.
Kept(T) == \A a \in T : Stage(a) \subseteq UNION {Stage(s)' : s \in T}

LEMMA Moved ==
    ASSUME Apart, NEW T \in SUBSET Places, Moves(T)
    PROVE  /\ Apart' /\ Located' \subseteq Located
           /\ Kept(T) => Located' = Located
           /\ Kept(T) /\ T \intersect {"returned", "releases"} = {} => Upstream' = Upstream
<1> DEFINE U == UNION {Stage(s) : s \in T}
<1>1. \A s \in Places \ T : Stage(s)' = Stage(s) /\ Stage(s) \intersect U = {}
  BY DEF Moves, Apart
<1>2. \A a \in T : Stage(a)' \subseteq U
  BY DEF Moves
<1>3. Apart'
  <2> SUFFICES ASSUME NEW a \in Places, NEW b \in Places, a # b
               PROVE  Stage(a)' \intersect Stage(b)' = {}
    BY DEF Apart, Places
  <2>1. CASE a \in T /\ b \in T
    BY <2>1 DEF Moves
  <2>2. CASE a \in T /\ b \notin T
    BY <1>1, <1>2, <2>2
  <2>3. CASE a \notin T /\ b \in T
    BY <1>1, <1>2, <2>3
  <2>4. CASE a \notin T /\ b \notin T
    BY <1>1, <2>4 DEF Apart
  <2> QED
    BY <2>1, <2>2, <2>3, <2>4
<1>4. Located' \subseteq Located
  <2> SUFFICES ASSUME NEW s \in Places, NEW x \in Stage(s)' PROVE x \in Located
    BY DEF Located, Places
  <2> QED
    BY <1>1, <1>2 DEF Located
<1>5. ASSUME Kept(T)
      PROVE  /\ Located' = Located
             /\ T \intersect {"returned", "releases"} = {} => Upstream' = Upstream
  <2>1. Located \subseteq Located'
    <3> SUFFICES ASSUME NEW s \in Places, NEW x \in Stage(s) PROVE \E t \in Places : x \in Stage(t)'
      BY DEF Located, Places
    <3>1. CASE s \in T
      BY <1>5, <3>1 DEF Kept
    <3>2. CASE s \notin T
      BY <1>1, <3>2
    <3> QED
      BY <3>1, <3>2
  <2>2. ASSUME T \intersect {"returned", "releases"} = {}
        PROVE  Upstream' = Upstream
    <3> DEFINE P == Places \ {"returned", "releases"}
    <3>1. ASSUME NEW s \in P, NEW x \in Stage(s)' PROVE \E t \in P : x \in Stage(t)
      <4>1. T \subseteq P
        BY <2>2
      <4>2. CASE s \in T
        BY <1>2, <3>1, <4>1, <4>2
      <4>3. CASE s \notin T
        BY <1>1, <3>1, <4>3
      <4> QED
        BY <4>2, <4>3
    <3>2. ASSUME NEW s \in P, NEW x \in Stage(s) PROVE \E t \in P : x \in Stage(t)'
      <4>1. T \subseteq P
        BY <2>2
      <4>2. CASE s \in T
        BY <1>5, <3>2, <4>1, <4>2 DEF Kept
      <4>3. CASE s \notin T
        BY <1>1, <3>2, <4>3
      <4> QED
        BY <4>2, <4>3
    <3>3. /\ Upstream = UNION {Stage(s) : s \in P}
          /\ Upstream' = UNION {Stage(s)' : s \in P}
      BY DEF Upstream, Places
    <3> QED
      BY <3>1, <3>2, <3>3
  <2> QED
    BY <1>4, <2>1, <2>2
<1> QED
  BY <1>3, <1>4, <1>5

\* Moving keeps the credits in order if no record is lost, or its loss is that
\* of a failure.
LEMMA CreditsStay ==
    ASSUME CreditsWell, Typed, Located' \subseteq Located,
           Unbroken' => Unbroken /\ Located' = Located,
           UNCHANGED <<next, inflight, records>>,
           \A p \in Partitions : frontier'[p] <= next[p]
    PROVE  CreditsWell'
<1>1. /\ IsFiniteSet(Located') /\ Cardinality(Located') <= Cardinality(Located)
      /\ Cardinality(Located') \in Nat /\ Cardinality(Located) \in Nat
  BY FS_Subset, FS_CardinalityType DEF CreditsWell
<1>2. ASSUME NEW p \in Partitions
      PROVE  Cardinality(Mine(p)') <= inflight[p] /\ (Unbroken' => Mine(p)' = Mine(p))
  <2>1. Mine(p)' \subseteq Mine(p) /\ Mine(p) \subseteq Located
    BY DEF Mine
  <2>2. IsFiniteSet(Mine(p))
    BY <2>1, FS_Subset DEF CreditsWell
  <2>3. /\ Cardinality(Mine(p)') <= Cardinality(Mine(p)) /\ IsFiniteSet(Mine(p)')
        /\ Cardinality(Mine(p)') \in Nat /\ Cardinality(Mine(p)) \in Nat
    BY <2>1, <2>2, FS_Subset, FS_CardinalityType
  <2>4. Cardinality(Mine(p)) <= inflight[p] /\ inflight[p] \in Nat
    BY DEF CreditsWell, Typed, TypeOK
  <2> QED
    BY <2>3, <2>4 DEF Mine
<1>3. Cardinality(Located) <= records /\ records \in Nat
  BY DEF CreditsWell, Typed, TypeOK
<1>4. Unbroken' => /\ \A p \in Partitions : Cardinality(Mine(p)') = inflight[p]
                   /\ Cardinality(Located') = records
  BY <1>2 DEF CreditsWell
<1> QED
  BY <1>1, <1>2, <1>3, <1>4 DEF CreditsWell

-----------------------------------------------------------------------------
\* Credits are taken back.

LEMMA BatchesTakenBack ==
    ASSUME IInv, NEW c \in Pollers, releases[c] # <<>>, TakeCredits(c),
           UNCHANGED <<buf, work, hold, completion, wbatch, reorder, ready, returned>>
    PROVE  LET batch == Head(releases[c]) IN
           /\ batch \in Seq(RecordType) /\ IsInjective(batch)
           /\ Range(batch) \subseteq Stage("releases")
           /\ Stage("releases")' = Stage("releases") \ Range(batch)
           /\ \A s \in Places \ {"releases"} : Stage(s)' = Stage(s)
           /\ Located' = Located \ Range(batch)
           /\ BatchesWell' /\ Apart' /\ Upstream' = Upstream
           /\ releases' \in [Pollers -> Seq(Seq(RecordType))]
<1> DEFINE batch == Head(releases[c])
           rest == Tail(releases[c])
<1>1. /\ releases[c] \in Seq(Seq(RecordType)) /\ Flat(releases[c])
      /\ \A r \in Recs(releases[c]) : Owner(r) = c
      /\ releases \in [Pollers -> Seq(Seq(RecordType))]
  BY DEF IInv, Typed, BatchesWell
<1>2. /\ batch \in Seq(RecordType) /\ IsInjective(batch) /\ rest \in Seq(Seq(RecordType))
      /\ Range(batch) \subseteq Recs(releases[c]) /\ Flat(rest)
      /\ Recs(rest) = Recs(releases[c]) \ Range(batch)
      /\ \A i \in DOMAIN rest : i + 1 \in DOMAIN releases[c] /\ rest[i] = releases[c][i + 1]
  BY <1>1, FlatTail
<1>3. releases' = [releases EXCEPT ![c] = rest]
  BY DEF TakeCredits
<1> HIDE DEF batch, rest
<1>4. /\ releases' \in [Pollers -> Seq(Seq(RecordType))] /\ releases'[c] = rest
      /\ \A d \in Pollers \ {c} : releases'[d] = releases[d]
  BY <1>1, <1>2, <1>3
<1>5. \A d \in Pollers \ {c} : Range(batch) \intersect Recs(releases[d]) = {}
  BY <1>1, <1>2 DEF IInv, BatchesWell
<1>6. /\ Range(batch) \subseteq Stage("releases")
      /\ Stage("releases")' = Stage("releases") \ Range(batch)
  <2>1. Range(batch) \subseteq Stage("releases")
    BY <1>2, LocatedIs
  <2>2. ASSUME NEW x \in Stage("releases")' PROVE x \in Stage("releases") \ Range(batch)
    <3>1. PICK d \in Pollers : x \in Recs(releases'[d])
      BY <2>2, LocatedIs
    <3>2. x \in Recs(releases[d]) /\ x \notin Range(batch)
      BY <1>2, <1>4, <1>5, <3>1
    <3> QED
      BY <3>2, LocatedIs
  <2>3. ASSUME NEW x \in Stage("releases"), x \notin Range(batch) PROVE x \in Stage("releases")'
    <3>1. PICK d \in Pollers : x \in Recs(releases[d])
      BY <2>3, LocatedIs
    <3>2. x \in Recs(releases'[d])
      BY <1>2, <1>4, <2>3, <3>1
    <3> QED
      BY <3>2, LocatedIs
  <2> QED
    BY <2>1, <2>2, <2>3
<1>7. \A s \in Places \ {"releases"} : Stage(s)' = Stage(s)
  BY SameStage DEF Places
<1>8. \A s \in Places \ {"releases"} : Stage(s) \intersect Range(batch) = {}
  BY <1>6 DEF IInv, Apart, Places
<1>9. Located' = Located \ Range(batch)
  <2>1. ASSUME NEW x \in Located' PROVE x \in Located \ Range(batch)
    BY <1>6, <1>7, <1>8, <2>1, LocatedIs
  <2>2. ASSUME NEW x \in Located, x \notin Range(batch) PROVE x \in Located'
    BY <1>6, <1>7, <2>2, LocatedIs
  <2> QED
    BY <2>1, <2>2
<1>10. Apart'
  BY <1>6, <1>7 DEF IInv, Apart
<1>11. Upstream' = Upstream
  BY <1>7 DEF Upstream, Places
<1>12. BatchesWell'
  <2>1. /\ Flat(buf') /\ Flat(work') /\ Flat(hold') /\ Flat(completion')
        /\ IsInjective(wbatch') /\ IsInjective(ready') /\ IsInjective(returned')
        /\ \A i \in DOMAIN work' : OneOwner(Range(work'[i]))
        /\ \A w \in Workers : OneOwner(Range(hold'[w]))
        /\ \A i \in DOMAIN completion' : OneOwner(Range(completion'[i]))
        /\ OneOwner(Range(wbatch') \union Range(ready') \union Range(returned'))
    BY DEF IInv, BatchesWell
  <2>2. ASSUME NEW d \in Pollers
        PROVE  /\ Flat(releases'[d]) /\ \A i \in DOMAIN releases'[d] : releases'[d][i] # <<>>
               /\ \A r \in Recs(releases'[d]) \union Range(buf'[d]) : Owner(r) = d
    <3>1. \A r \in Range(buf'[d]) : Owner(r) = d
      BY DEF IInv, BatchesWell
    <3>2. CASE d = c
      BY <1>1, <1>2, <1>4, <3>1, <3>2 DEF IInv, BatchesWell
    <3>3. CASE d # c
      BY <1>4, <3>1, <3>3 DEF IInv, BatchesWell
    <3> QED
      BY <3>2, <3>3
  <2> QED
    BY <2>1, <2>2 DEF BatchesWell, Flat, OneOwner, Recs, Owner, IsInjective, Range
<1> QED
  BY <1>2, <1>4, <1>6, <1>7, <1>9, <1>10, <1>11, <1>12 DEF batch

LEMMA CreditsTakenBack ==
    ASSUME IInv, NEW c \in Pollers, releases[c] # <<>>, TakeCredits(c),
           UNCHANGED <<buf, work, hold, completion, wbatch, reorder, ready, returned,
                       frontier, written>>,
           Unbroken' => Unbroken
    PROVE  /\ inflight' \in [Partitions -> 0..MaxPerPartition] /\ records' \in 0..MaxRecords
           /\ releases' \in [Pollers -> Seq(Seq(RecordType))]
           /\ \A p \in Partitions : inflight'[p] <= inflight[p]
           /\ BatchesWell' /\ Apart' /\ CreditsWell' /\ WritesWell'
<1> DEFINE batch == Head(releases[c])
           R(p) == {r \in Range(batch) : r[1] = p}
<1>1. /\ batch \in Seq(RecordType) /\ IsInjective(batch)
      /\ Range(batch) \subseteq Stage("releases") /\ Located' = Located \ Range(batch)
      /\ BatchesWell' /\ Apart' /\ Upstream' = Upstream
      /\ releases' \in [Pollers -> Seq(Seq(RecordType))]
  BY BatchesTakenBack
<1>2. /\ IsFiniteSet(Range(batch)) /\ Cardinality(Range(batch)) = Len(batch)
      /\ \A p \in Partitions : Cardinality({i \in DOMAIN batch : batch[i][1] = p})
                               = Cardinality(R(p))
  BY <1>1, BatchCounts
<1>3. /\ records' = records - Len(batch) /\ next' = next
      /\ inflight' = [p \in Partitions |->
            inflight[p] - Cardinality({i \in DOMAIN batch : batch[i][1] = p})]
  BY DEF TakeCredits
<1> HIDE DEF batch
<1>4. Range(batch) \subseteq Located
  BY <1>1, LocatedIs DEF Places
<1>5. \A p \in Partitions : inflight'[p] = inflight[p] - Cardinality(R(p))
  BY <1>2, <1>3
<1>6. /\ IsFiniteSet(Located) /\ IsFiniteSet(Located')
      /\ Cardinality(Located') = Cardinality(Located) - Len(batch)
      /\ Cardinality(Located) \in Nat /\ Cardinality(Located') \in Nat /\ Len(batch) \in Nat
  <2>1. IsFiniteSet(Located) /\ Located \intersect Range(batch) = Range(batch)
    BY <1>4 DEF IInv, CreditsWell
  <2>2. /\ IsFiniteSet(Located \ Range(batch))
        /\ Cardinality(Located \ Range(batch)) = Cardinality(Located) - Cardinality(Range(batch))
    BY <2>1, FS_Difference
  <2>3. /\ Cardinality(Located) \in Nat /\ Cardinality(Range(batch)) \in Nat
        /\ Cardinality(Located \ Range(batch)) \in Nat
    BY <1>2, <2>1, <2>2, FS_CardinalityType
  <2> QED
    BY <1>1, <1>2, <2>1, <2>2, <2>3
<1>7. ASSUME NEW p \in Partitions
      PROVE  /\ Cardinality(Mine(p)') = Cardinality(Mine(p)) - Cardinality(R(p))
             /\ Cardinality(Mine(p)) \in Nat /\ Cardinality(Mine(p)') \in Nat
             /\ Cardinality(R(p)) \in Nat
  <2>1. /\ Mine(p)' = Mine(p) \ R(p) /\ Mine(p) \intersect R(p) = R(p)
        /\ Mine(p) \subseteq Located /\ R(p) \subseteq Located
    BY <1>1, <1>4 DEF Mine
  <2>2. IsFiniteSet(Mine(p)) /\ IsFiniteSet(R(p))
    BY <1>6, <2>1, FS_Subset
  <2> HIDE DEF R
  <2>3. /\ Cardinality(Mine(p) \ R(p)) = Cardinality(Mine(p)) - Cardinality(Mine(p) \intersect R(p))
        /\ IsFiniteSet(Mine(p) \ R(p))
    BY <2>2, FS_Difference
  <2>4. /\ Cardinality(Mine(p)) \in Nat /\ Cardinality(R(p)) \in Nat
        /\ Cardinality(Mine(p) \ R(p)) \in Nat
    BY <2>2, <2>3, FS_CardinalityType
  <2> QED
    BY <2>1, <2>3, <2>4
<1>8. /\ records \in 0..MaxRecords /\ MaxRecords \in Nat /\ MaxPerPartition \in Nat
      /\ inflight \in [Partitions -> 0..MaxPerPartition]
      /\ Cardinality(Located) <= records
      /\ \A p \in Partitions : Cardinality(Mine(p)) <= inflight[p]
  BY PipelineAssumption DEF IInv, Typed, TypeOK, CreditsWell
<1>9. records' \in 0..MaxRecords /\ Cardinality(Located') <= records'
  BY <1>3, <1>6, <1>8
<1>10. ASSUME NEW p \in Partitions
       PROVE  /\ inflight'[p] \in 0..MaxPerPartition /\ inflight'[p] <= inflight[p]
              /\ Cardinality(Mine(p)') <= inflight'[p]
              /\ Cardinality(Mine(p)) = inflight[p] => Cardinality(Mine(p)') = inflight'[p]
  <2> HIDE DEF R
  <2>1. inflight[p] \in 0..MaxPerPartition /\ Cardinality(Mine(p)) <= inflight[p]
    BY <1>8
  <2>2. inflight'[p] = inflight[p] - Cardinality(R(p))
    BY <1>5
  <2> QED
    BY <1>7, <1>8, <2>1, <2>2
<1>11. inflight' \in [Partitions -> 0..MaxPerPartition]
  BY <1>3, <1>10
<1>12. Unbroken' => /\ \A p \in Partitions : Cardinality(Mine(p)') = inflight'[p]
                    /\ Cardinality(Located') = records'
  BY <1>3, <1>6, <1>8, <1>10 DEF IInv, CreditsWell
<1>13. CreditsWell'
  <2>1. \A r \in Located' : r \in RecordType /\ r[2] < next'[r[1]]
    BY <1>1, <1>3 DEF IInv, CreditsWell
  <2>2. \A p \in Partitions : frontier'[p] <= next'[p]
    BY <1>3 DEF IInv, CreditsWell
  <2> QED
    BY <1>6, <1>9, <1>10, <1>12, <2>1, <2>2 DEF CreditsWell
<1>14. WritesWell'
  BY <1>1, <1>3 DEF IInv, WritesWell
<1> QED
  BY <1>1, <1>9, <1>10, <1>11, <1>13, <1>14

-----------------------------------------------------------------------------
\* A record is admitted.

LEMMA AdmitAdds ==
    ASSUME IInv, NEW c \in Pollers, Admit(c)
    PROVE  LET p == pending[c]
               record == <<p, next[p]>>
           IN
           /\ p \in Partitions /\ record \in RecordType /\ record \notin Located
           /\ buf' \in [Pollers -> Seq(RecordType)]
           /\ Stage("buf")' = Stage("buf") \union {record}
           /\ \A s \in Places \ {"buf"} : Stage(s)' = Stage(s)
           /\ Located' = Located \union {record} /\ Upstream' = Upstream \union {record}
           /\ BatchesWell' /\ Apart'
<1> DEFINE p == pending[c]
           record == <<p, next[p]>>
           batch == Append(buf[c], record)
<1>1. p \in PartitionsOf(c) /\ p \in Partitions
  BY DEF IInv, ThreadsWell, Admit, PartitionsOf
<1>2. next[p] \in Nat /\ record \in RecordType /\ Owner(record) = c
  BY <1>1 DEF IInv, Typed, TypeOK, RecordType, Owner, PartitionsOf
<1>3. record \notin Located
  <2>1. \A r \in Located : r[2] < next[r[1]]
    BY DEF IInv, CreditsWell
  <2> QED
    BY <1>2, <2>1
<1>4. buf' = [buf EXCEPT ![c] = batch]
  BY DEF Admit
<1>5. UNCHANGED <<work, hold, completion, wbatch, reorder, ready, returned, releases>>
  BY DEF Admit, PollerOnly, workerVars, writerVars
<1>6. \A s \in Places \ {"buf"} : Stage(s)' = Stage(s)
  BY <1>5, SameStage DEF Places
<1> HIDE DEF record, p
<1>7. /\ buf \in [Pollers -> Seq(RecordType)] /\ buf[c] \in Seq(RecordType) /\ Flat(buf)
      /\ IsInjective(buf[c]) /\ \A r \in Range(buf[c]) : Owner(r) = c
  BY DEF IInv, Typed, BatchesWell, Flat
<1>8. record \notin Recs(buf) /\ record \notin Range(buf[c])
  BY <1>3, <1>7, LocatedIs, StageIs DEF Places, Recs
<1>9. /\ batch \in Seq(RecordType) /\ Range(batch) = Range(buf[c]) \union {record}
      /\ IsInjective(batch)
  BY <1>2, <1>7, <1>8, RangeAppend
<1> HIDE DEF batch
<1>10. buf' \in [Pollers -> Seq(RecordType)]
  BY <1>4, <1>7, <1>9
<1>11. Range(batch) \intersect (Recs(buf) \ Range(buf[c])) = {} /\ DOMAIN buf = Pollers
  BY <1>7, <1>8, <1>9
<1>12. Flat(buf') /\ Recs(buf') = Recs(buf) \union {record}
  <2>1. /\ Flat([buf EXCEPT ![c] = batch])
        /\ Recs([buf EXCEPT ![c] = batch]) = (Recs(buf) \ Range(buf[c])) \union Range(batch)
        /\ Range(buf[c]) \subseteq Recs(buf)
    BY <1>7, <1>9, <1>11, FlatExcept
  <2> QED
    BY <1>4, <1>9, <2>1
<1>13. Stage("buf")' = Stage("buf") \union {record}
  BY <1>12, StageIs, StageIsPrimed
<1>14. Located' = Located \union {record}
  <2>1. ASSUME NEW x \in Located' PROVE x \in Located \union {record}
    BY <1>6, <1>13, <2>1, LocatedIs
  <2>2. ASSUME NEW x \in Located \union {record} PROVE x \in Located'
    BY <1>6, <1>13, <2>2, LocatedIs DEF Places
  <2> QED
    BY <2>1, <2>2
<1>15. Upstream' = Upstream \union {record}
  <2>1. /\ \A x : x \in Upstream <=> \E s \in Places \ {"returned", "releases"} : x \in Stage(s)
        /\ \A x : x \in Upstream' <=> \E s \in Places \ {"returned", "releases"} : x \in Stage(s)'
    BY DEF Upstream
  <2>2. "buf" \in Places \ {"returned", "releases"}
    BY DEF Places
  <2> QED
    BY <1>6, <1>13, <2>1, <2>2
<1>16. Apart'
  <2>1. \A s \in Places : record \notin Stage(s)
    BY <1>3, LocatedIs
  <2> QED
    BY <1>6, <1>13, <2>1 DEF IInv, Apart
<1>17. BatchesWell'
  <2>1. /\ Flat(buf') /\ Flat(work') /\ Flat(hold') /\ Flat(completion')
        /\ IsInjective(wbatch') /\ IsInjective(ready') /\ IsInjective(returned')
        /\ \A i \in DOMAIN work' : OneOwner(Range(work'[i]))
        /\ \A w \in Workers : OneOwner(Range(hold'[w]))
        /\ \A i \in DOMAIN completion' : OneOwner(Range(completion'[i]))
        /\ OneOwner(Range(wbatch') \union Range(ready') \union Range(returned'))
    BY <1>5, <1>12 DEF IInv, BatchesWell
  <2>2. ASSUME NEW d \in Pollers
        PROVE  /\ Flat(releases'[d]) /\ \A i \in DOMAIN releases'[d] : releases'[d][i] # <<>>
               /\ \A r \in Recs(releases'[d]) \union Range(buf'[d]) : Owner(r) = d
    <3>1. /\ Flat(releases[d]) /\ \A i \in DOMAIN releases[d] : releases[d][i] # <<>>
          /\ \A r \in Recs(releases[d]) \union Range(buf[d]) : Owner(r) = d
      BY DEF IInv, BatchesWell
    <3>2. Range(buf'[d]) \subseteq Range(buf[d]) \union IF d = c THEN {record} ELSE {}
      BY <1>4, <1>7, <1>9
    <3> QED
      BY <1>2, <1>5, <3>1, <3>2
  <2> QED
    BY <2>1, <2>2 DEF BatchesWell, Flat, OneOwner, Recs, Owner, IsInjective, Range
<1> QED
  BY <1>1, <1>2, <1>3, <1>6, <1>10, <1>13, <1>14, <1>15, <1>16, <1>17 DEF record, p

LEMMA AdmitStays ==
    ASSUME IInv, NEW c \in Pollers, Admit(c), Unbroken' => Unbroken
    PROVE  /\ inflight' \in [Partitions -> 0..MaxPerPartition] /\ records' \in 0..MaxRecords
           /\ next' \in [Partitions -> Nat] /\ buf' \in [Pollers -> Seq(RecordType)]
           /\ pending[c] \in PartitionsOf(c)
           /\ BatchesWell' /\ Apart' /\ CreditsWell' /\ WritesWell'
<1> DEFINE p == pending[c]
           record == <<p, next[p]>>
<1>1. /\ p \in Partitions /\ record \in RecordType /\ record \notin Located
      /\ buf' \in [Pollers -> Seq(RecordType)]
      /\ Located' = Located \union {record} /\ Upstream' = Upstream \union {record}
      /\ BatchesWell' /\ Apart'
  BY AdmitAdds
<1>2. p \in PartitionsOf(c)
  BY DEF IInv, ThreadsWell, Admit
<1>3. /\ next' = [next EXCEPT ![p] = @ + 1] /\ inflight' = [inflight EXCEPT ![p] = @ + 1]
      /\ records' = records + 1 /\ inflight[p] < MaxPerPartition /\ records < MaxRecords
      /\ frontier' = frontier /\ written' = written
  BY DEF Admit, CanReserve, PollerOnly, writerVars
<1> HIDE DEF p
<1>4. /\ next \in [Partitions -> Nat] /\ inflight \in [Partitions -> 0..MaxPerPartition]
      /\ records \in 0..MaxRecords /\ MaxRecords \in Nat /\ MaxPerPartition \in Nat
      /\ frontier \in [Partitions -> Nat]
  BY PipelineAssumption DEF IInv, Typed, TypeOK
<1>5. /\ inflight' \in [Partitions -> 0..MaxPerPartition] /\ records' \in 0..MaxRecords
      /\ next' \in [Partitions -> Nat]
  BY <1>1, <1>3, <1>4
<1>6. record[1] = p /\ record[2] = next[p]
  OBVIOUS
<1> HIDE DEF record
<1>7. /\ IsFiniteSet(Located) /\ IsFiniteSet(Located')
      /\ Cardinality(Located') = Cardinality(Located) + 1
  BY <1>1, FS_AddElement DEF IInv, CreditsWell
<1>8. ASSUME NEW q \in Partitions
      PROVE  /\ Cardinality(Mine(q)) \in Nat
             /\ Cardinality(Mine(q)') = IF q = p THEN Cardinality(Mine(q)) + 1
                                        ELSE Cardinality(Mine(q))
  <2>1. /\ Mine(q)' = IF q = p THEN Mine(q) \union {record} ELSE Mine(q)
        /\ record \notin Mine(q) /\ Mine(q) \subseteq Located
    BY <1>1, <1>6 DEF Mine
  <2>2. IsFiniteSet(Mine(q))
    BY <1>7, <2>1, FS_Subset
  <2> QED
    BY <2>1, <2>2, FS_AddElement, FS_CardinalityType
<1>9. ASSUME NEW q \in Partitions
      PROVE  /\ Cardinality(Mine(q)') <= inflight'[q] /\ frontier'[q] <= next'[q]
             /\ Cardinality(Mine(q)) = inflight[q] => Cardinality(Mine(q)') = inflight'[q]
  <2>1. Cardinality(Mine(q)) <= inflight[q] /\ frontier[q] <= next[q]
    BY DEF IInv, CreditsWell
  <2>2. /\ inflight'[q] = IF q = p THEN inflight[q] + 1 ELSE inflight[q]
        /\ next'[q] = IF q = p THEN next[q] + 1 ELSE next[q]
        /\ inflight[q] \in Nat /\ next[q] \in Nat /\ frontier[q] \in Nat
    BY <1>3, <1>4
  <2> QED
    BY <1>3, <1>8, <2>1, <2>2
<1>10. Cardinality(Located) <= records /\ Cardinality(Located) \in Nat
  BY <1>7, FS_CardinalityType DEF IInv, CreditsWell
<1>11. Cardinality(Located') <= records' /\ (Cardinality(Located) = records => Cardinality(Located') = records')
  BY <1>3, <1>4, <1>7, <1>10
<1>12. \A r \in Located' : r \in RecordType /\ r[2] < next'[r[1]]
  <2> SUFFICES ASSUME NEW r \in Located' PROVE r \in RecordType /\ r[2] < next'[r[1]]
    OBVIOUS
  <2>1. CASE r = record
    BY <1>1, <1>3, <1>4, <1>6, <2>1
  <2>2. CASE r \in Located
    <3>1. r \in RecordType /\ r[2] < next[r[1]] /\ r[1] \in Partitions /\ r[2] \in Nat
      BY <2>2 DEF IInv, CreditsWell, RecordType
    <3> QED
      BY <1>3, <1>4, <3>1
  <2> QED
    BY <1>1, <2>1, <2>2
<1>13. CreditsWell'
  <2>1. Unbroken' => /\ \A q \in Partitions : Cardinality(Mine(q)') = inflight'[q]
                     /\ Cardinality(Located') = records'
    BY <1>9, <1>11 DEF IInv, CreditsWell
  <2> QED
    BY <1>7, <1>9, <1>11, <1>12, <2>1 DEF CreditsWell
<1>14. WritesWell'
  <2> SUFFICES ASSUME Unbroken, NEW q \in Partitions, NEW s \in 0..(next'[q] - 1)
               PROVE  <<q, s>> \in Upstream' \/ s \in Range(written'[q])
    BY DEF WritesWell
  <2>1. CASE q = p /\ s = next[p]
    BY <1>1, <2>1 DEF record
  <2>2. CASE ~(q = p /\ s = next[p])
    <3>1. s \in 0..(next[q] - 1)
      BY <1>3, <1>4, <2>2
    <3> QED
      BY <1>1, <1>3, <3>1 DEF IInv, WritesWell
  <2> QED
    BY <2>1, <2>2
<1> QED
  BY <1>1, <1>2, <1>5, <1>13, <1>14 DEF p

-----------------------------------------------------------------------------
\* Batches move on.

LEMMA MovesStay ==
    ASSUME IInv, Unbroken' => Unbroken, NEW T \in SUBSET Places, Moves(T),
           Unbroken' => Kept(T), UNCHANGED <<next, inflight, records>>,
           \A p \in Partitions : frontier'[p] <= next[p]
    PROVE  /\ Apart' /\ CreditsWell'
           /\ written' = written /\ T \intersect {"returned", "releases"} = {} => WritesWell'
<1>1. /\ Apart' /\ Located' \subseteq Located
      /\ Unbroken' => Located' = Located
      /\ Unbroken' /\ T \intersect {"returned", "releases"} = {} => Upstream' = Upstream
  BY Moved DEF IInv
<1>2. CreditsWell'
  BY <1>1, CreditsStay DEF IInv
<1>3. ASSUME written' = written, T \intersect {"returned", "releases"} = {}
      PROVE  WritesWell'
  BY <1>1, <1>3 DEF IInv, WritesWell
<1> QED
  BY <1>1, <1>2, <1>3

LEMMA Buffers ==
    ASSUME Typed, BatchesWell, NEW c \in Pollers
    PROVE  /\ buf[c] \in Seq(RecordType) /\ Flat(buf) /\ IsInjective(buf[c])
           /\ DOMAIN buf = Pollers /\ OneOwner(Range(buf[c])) /\ Range(buf[c]) \subseteq Recs(buf)
           /\ [buf EXCEPT ![c] = <<>>] \in [Pollers -> Seq(RecordType)]
           /\ Flat([buf EXCEPT ![c] = <<>>])
           /\ Recs([buf EXCEPT ![c] = <<>>]) = Recs(buf) \ Range(buf[c])
           /\ \A d \in Pollers : Range([buf EXCEPT ![c] = <<>>][d]) \subseteq Range(buf[d])
<1>1. buf \in [Pollers -> Seq(RecordType)] /\ Flat(buf) /\ DOMAIN buf = Pollers
  BY DEF Typed, BatchesWell
<1>2. OneOwner(Range(buf[c]))
  BY DEF BatchesWell, OneOwner
<1>3. buf[c] \in Seq(RecordType) /\ IsInjective(buf[c])
  BY <1>1 DEF Flat
<1>4. /\ Flat([buf EXCEPT ![c] = <<>>]) /\ Range(buf[c]) \subseteq Recs(buf)
      /\ Recs([buf EXCEPT ![c] = <<>>]) = (Recs(buf) \ Range(buf[c])) \union {}
  <2> DEFINE b == <<>>
  <2>1. IsInjective(b) /\ Range(b) = {} /\ Range(b) \intersect (Recs(buf) \ Range(buf[c])) = {}
    BY EmptyBatch
  <2> HIDE DEF b
  <2>2. ASSUME NEW e, IsInjective(e), Range(e) \intersect (Recs(buf) \ Range(buf[c])) = {}
        PROVE  /\ Flat([buf EXCEPT ![c] = e])
               /\ Recs([buf EXCEPT ![c] = e]) = (Recs(buf) \ Range(buf[c])) \union Range(e)
               /\ Range(buf[c]) \subseteq Recs(buf)
    BY <1>1, <2>2, FlatExcept
  <2> QED
    BY <2>1, <2>2 DEF b
<1>5. [buf EXCEPT ![c] = <<>>] \in [Pollers -> Seq(RecordType)]
  BY <1>1, EmptyBatch
<1>6. \A d \in Pollers : Range([buf EXCEPT ![c] = <<>>][d]) \subseteq Range(buf[d])
  BY <1>1, EmptyBatch
<1> QED
  BY <1>1, <1>2, <1>3, <1>4, <1>5, <1>6

LEMMA Holds ==
    ASSUME Typed, BatchesWell, NEW w \in Workers, NEW b \in Seq(RecordType), IsInjective(b),
           Range(b) \intersect Recs(hold) = {}, OneOwner(Range(b))
    PROVE  /\ hold[w] \in Seq(RecordType) /\ Flat(hold) /\ IsInjective(hold[w])
           /\ OneOwner(Range(hold[w])) /\ Range(hold[w]) \subseteq Recs(hold)
           /\ [hold EXCEPT ![w] = b] \in [Workers -> Seq(RecordType)]
           /\ Flat([hold EXCEPT ![w] = b])
           /\ Recs([hold EXCEPT ![w] = b]) = (Recs(hold) \ Range(hold[w])) \union Range(b)
           /\ \A v \in Workers : OneOwner(Range([hold EXCEPT ![w] = b][v]))
<1>1. hold \in [Workers -> Seq(RecordType)] /\ Flat(hold) /\ DOMAIN hold = Workers
  BY DEF Typed, BatchesWell
<1>2. hold[w] \in Seq(RecordType) /\ IsInjective(hold[w])
  BY <1>1 DEF Flat
<1>3. /\ Flat([hold EXCEPT ![w] = b]) /\ Range(hold[w]) \subseteq Recs(hold)
      /\ Recs([hold EXCEPT ![w] = b]) = (Recs(hold) \ Range(hold[w])) \union Range(b)
  <2>1. Range(b) \intersect (Recs(hold) \ Range(hold[w])) = {}
    OBVIOUS
  <2> QED
    BY <1>1, <2>1, FlatExcept
<1>4. [hold EXCEPT ![w] = b] \in [Workers -> Seq(RecordType)]
  BY <1>1
<1>5. ASSUME NEW v \in Workers PROVE OneOwner(Range([hold EXCEPT ![w] = b][v]))
  BY <1>1 DEF BatchesWell
<1> QED
  BY <1>1, <1>2, <1>3, <1>4, <1>5 DEF BatchesWell

LEMMA WorkIsFlushed ==
    ASSUME IInv, NEW c \in Pollers, FlushWork(c), Unbroken' => Unbroken
    PROVE  /\ buf' \in [Pollers -> Seq(RecordType)] /\ work' \in Seq(Seq(RecordType))
           /\ BatchesWell' /\ Apart' /\ CreditsWell' /\ WritesWell'
           /\ Moves({"buf", "work"})
<1>1. /\ buf' = [buf EXCEPT ![c] = <<>>] /\ work' = Append(work, buf[c])
      /\ UNCHANGED <<hold, completion, wbatch, reorder, ready, returned, releases, next,
                     inflight, records, frontier, written>>
  BY DEF FlushWork, FlushSent, PollerOnly, workerVars, writerVars, admissionVars
<1>2. /\ buf[c] \in Seq(RecordType) /\ IsInjective(buf[c])
      /\ OneOwner(Range(buf[c])) /\ Range(buf[c]) \subseteq Recs(buf)
      /\ buf' \in [Pollers -> Seq(RecordType)] /\ Flat(buf')
      /\ Recs(buf') = Recs(buf) \ Range(buf[c])
      /\ \A d \in Pollers : Range(buf'[d]) \subseteq Range(buf[d])
  BY <1>1, Buffers DEF IInv
<1>3. Stage("buf") \intersect Stage("work") = {}
  BY DEF IInv, Apart, Places
<1>4. Range(buf[c]) \intersect Recs(work) = {} /\ work \in Seq(Seq(RecordType)) /\ Flat(work)
  BY <1>2, <1>3, StageIs DEF IInv, Typed, TypeOK, BatchesWell
<1> DEFINE b == buf[c]
           t == Append(work, b)
<1> HIDE DEF b
<1>5. /\ t \in Seq(Seq(RecordType)) /\ Flat(t) /\ Recs(t) = Recs(work) \union Range(b)
      /\ \A i \in DOMAIN t : t[i] = b \/ (i \in DOMAIN work /\ t[i] = work[i])
  BY <1>2, <1>4, FlatAppend DEF b
<1> HIDE DEF t
<1>6. work' = t
  BY <1>1 DEF t, b
<1> DEFINE T == {"buf", "work"}
<1>7. /\ Stage("buf")' = Stage("buf") \ Range(b)
      /\ Stage("work")' = Stage("work") \union Range(b) /\ Range(b) \subseteq Stage("buf")
  BY <1>2, <1>5, <1>6, StageIs, StageIsPrimed DEF b
<1>8. \A s \in Places \ T : Stage(s)' = Stage(s)
  BY <1>1, SameStage DEF Places
<1>9. Moves(T) /\ Kept(T)
  BY <1>3, <1>7, <1>8 DEF Moves, Kept
<1>10. Apart' /\ CreditsWell' /\ WritesWell'
  <2>1. T \in SUBSET Places /\ T \intersect {"returned", "releases"} = {}
    BY DEF Places
  <2>2. \A p \in Partitions : frontier'[p] <= next[p]
    BY <1>1 DEF IInv, CreditsWell
  <2> HIDE DEF T
  <2> QED
    BY <1>1, <1>9, <2>1, <2>2, MovesStay
<1>11. BatchesWell'
  <2>1. /\ Flat(buf') /\ Flat(work') /\ Flat(hold') /\ Flat(completion')
        /\ IsInjective(wbatch') /\ IsInjective(ready') /\ IsInjective(returned')
        /\ \A w \in Workers : OneOwner(Range(hold'[w]))
        /\ \A i \in DOMAIN completion' : OneOwner(Range(completion'[i]))
        /\ OneOwner(Range(wbatch') \union Range(ready') \union Range(returned'))
    BY <1>1, <1>2, <1>5, <1>6 DEF IInv, BatchesWell
  <2>2. \A i \in DOMAIN work' : OneOwner(Range(work'[i]))
    BY <1>2, <1>5, <1>6 DEF IInv, BatchesWell, b
  <2>3. ASSUME NEW d \in Pollers
        PROVE  /\ Flat(releases'[d]) /\ \A i \in DOMAIN releases'[d] : releases'[d][i] # <<>>
               /\ \A r \in Recs(releases'[d]) \union Range(buf'[d]) : Owner(r) = d
    BY <1>1, <1>2 DEF IInv, BatchesWell
  <2> QED
    BY <2>1, <2>2, <2>3 DEF BatchesWell, Flat, OneOwner, Recs, Owner, IsInjective, Range
<1> QED
  BY <1>2, <1>5, <1>6, <1>9, <1>10, <1>11

LEMMA CompletionIsFlushed ==
    ASSUME IInv, NEW c \in Pollers, FlushCompletion(c), Unbroken' => Unbroken
    PROVE  /\ buf' \in [Pollers -> Seq(RecordType)] /\ completion' \in Seq(Seq(RecordType))
           /\ BatchesWell' /\ Apart' /\ CreditsWell' /\ WritesWell'
           /\ Moves({"buf", "completion"})
<1>1. /\ buf' = [buf EXCEPT ![c] = <<>>] /\ completion' = Append(completion, buf[c])
      /\ UNCHANGED <<work, hold, wbatch, reorder, ready, returned, releases, next,
                     inflight, records, frontier, written>>
  BY DEF FlushCompletion, FlushSent, PollerOnly, workerVars, writerVars, admissionVars
<1>2. /\ buf[c] \in Seq(RecordType) /\ IsInjective(buf[c])
      /\ OneOwner(Range(buf[c])) /\ Range(buf[c]) \subseteq Recs(buf)
      /\ buf' \in [Pollers -> Seq(RecordType)] /\ Flat(buf')
      /\ Recs(buf') = Recs(buf) \ Range(buf[c])
      /\ \A d \in Pollers : Range(buf'[d]) \subseteq Range(buf[d])
  BY <1>1, Buffers DEF IInv
<1>3. Stage("buf") \intersect Stage("completion") = {}
  BY DEF IInv, Apart, Places
<1>4. /\ Range(buf[c]) \intersect Recs(completion) = {}
      /\ completion \in Seq(Seq(RecordType)) /\ Flat(completion)
  BY <1>2, <1>3, StageIs DEF IInv, Typed, TypeOK, BatchesWell
<1> DEFINE b == buf[c]
           t == Append(completion, b)
<1> HIDE DEF b
<1>5. /\ t \in Seq(Seq(RecordType)) /\ Flat(t) /\ Recs(t) = Recs(completion) \union Range(b)
      /\ \A i \in DOMAIN t : t[i] = b \/ (i \in DOMAIN completion /\ t[i] = completion[i])
  BY <1>2, <1>4, FlatAppend DEF b
<1> HIDE DEF t
<1>6. completion' = t
  BY <1>1 DEF t, b
<1> DEFINE T == {"buf", "completion"}
<1>7. /\ Stage("buf")' = Stage("buf") \ Range(b)
      /\ Stage("completion")' = Stage("completion") \union Range(b)
      /\ Range(b) \subseteq Stage("buf")
  BY <1>2, <1>5, <1>6, StageIs, StageIsPrimed DEF b
<1>8. \A s \in Places \ T : Stage(s)' = Stage(s)
  BY <1>1, SameStage DEF Places
<1>9. Moves(T) /\ Kept(T)
  BY <1>3, <1>7, <1>8 DEF Moves, Kept
<1>10. Apart' /\ CreditsWell' /\ WritesWell'
  <2>1. T \in SUBSET Places /\ T \intersect {"returned", "releases"} = {}
    BY DEF Places
  <2>2. \A p \in Partitions : frontier'[p] <= next[p]
    BY <1>1 DEF IInv, CreditsWell
  <2> HIDE DEF T
  <2> QED
    BY <1>1, <1>9, <2>1, <2>2, MovesStay
<1>11. BatchesWell'
  <2>1. /\ Flat(buf') /\ Flat(work') /\ Flat(hold') /\ Flat(completion')
        /\ IsInjective(wbatch') /\ IsInjective(ready') /\ IsInjective(returned')
        /\ \A i \in DOMAIN work' : OneOwner(Range(work'[i]))
        /\ \A w \in Workers : OneOwner(Range(hold'[w]))
        /\ OneOwner(Range(wbatch') \union Range(ready') \union Range(returned'))
    BY <1>1, <1>2, <1>5, <1>6 DEF IInv, BatchesWell
  <2>2. \A i \in DOMAIN completion' : OneOwner(Range(completion'[i]))
    BY <1>2, <1>5, <1>6 DEF IInv, BatchesWell, b
  <2>3. ASSUME NEW d \in Pollers
        PROVE  /\ Flat(releases'[d]) /\ \A i \in DOMAIN releases'[d] : releases'[d][i] # <<>>
               /\ \A r \in Recs(releases'[d]) \union Range(buf'[d]) : Owner(r) = d
    BY <1>1, <1>2 DEF IInv, BatchesWell
  <2> QED
    BY <2>1, <2>2, <2>3 DEF BatchesWell, Flat, OneOwner, Recs, Owner, IsInjective, Range
<1> QED
  BY <1>2, <1>5, <1>6, <1>9, <1>10, <1>11

LEMMA WorkIsTaken ==
    ASSUME IInv, NEW w \in Workers, TakeWork(w), Unbroken' => Unbroken
    PROVE  /\ hold' \in [Workers -> Seq(RecordType)] /\ work' \in Seq(Seq(RecordType))
           /\ BatchesWell' /\ Apart' /\ CreditsWell' /\ WritesWell'
           /\ Moves({"work", "hold"})
<1>1. /\ hold' = [hold EXCEPT ![w] = Head(work)] /\ work' = Tail(work) /\ work # <<>>
      /\ worker[w] = "recv"
      /\ UNCHANGED <<buf, completion, wbatch, reorder, ready, returned, releases, next,
                     inflight, records, frontier, written>>
  BY DEF TakeWork, SetWorker, WorkerOnly, pollerVars, loopVars, writerVars, admissionVars
<1> DEFINE b == Head(work)
           t == Tail(work)
<1>2. /\ b \in Seq(RecordType) /\ t \in Seq(Seq(RecordType)) /\ IsInjective(b)
      /\ Range(b) \subseteq Recs(work) /\ Flat(t) /\ Recs(t) = Recs(work) \ Range(b)
      /\ 1 \in DOMAIN work /\ b = work[1]
      /\ \A i \in DOMAIN t : i + 1 \in DOMAIN work /\ t[i] = work[i + 1]
  BY <1>1, FlatTail DEF IInv, Typed, TypeOK, BatchesWell
<1>3. hold' = [hold EXCEPT ![w] = b] /\ work' = t
  BY <1>1
<1> HIDE DEF b, t
<1>4. Stage("work") \intersect Stage("hold") = {}
  BY DEF IInv, Apart, Places
<1>5. Range(b) \intersect Recs(hold) = {} /\ OneOwner(Range(b)) /\ Range(hold[w]) = {}
  BY <1>1, <1>2, <1>4, StageIs, EmptyBatch DEF IInv, BatchesWell, ThreadsWell
<1>6. /\ hold' \in [Workers -> Seq(RecordType)] /\ Flat(hold')
      /\ Recs(hold') = Recs(hold) \union Range(b)
      /\ \A v \in Workers : OneOwner(Range(hold'[v]))
  <2>1. /\ [hold EXCEPT ![w] = b] \in [Workers -> Seq(RecordType)]
        /\ Flat([hold EXCEPT ![w] = b])
        /\ Recs([hold EXCEPT ![w] = b]) = (Recs(hold) \ Range(hold[w])) \union Range(b)
        /\ \A v \in Workers : OneOwner(Range([hold EXCEPT ![w] = b][v]))
    BY <1>2, <1>5, Holds DEF IInv
  <2> QED
    BY <1>3, <1>5, <2>1
<1> DEFINE T == {"work", "hold"}
<1>7. /\ Stage("work")' = Stage("work") \ Range(b)
      /\ Stage("hold")' = Stage("hold") \union Range(b) /\ Range(b) \subseteq Stage("work")
  BY <1>2, <1>3, <1>6, StageIs, StageIsPrimed
<1>8. \A s \in Places \ T : Stage(s)' = Stage(s)
  BY <1>1, SameStage DEF Places
<1>9. Moves(T) /\ Kept(T)
  BY <1>4, <1>7, <1>8 DEF Moves, Kept
<1>10. Apart' /\ CreditsWell' /\ WritesWell'
  <2>1. T \in SUBSET Places /\ T \intersect {"returned", "releases"} = {}
    BY DEF Places
  <2>2. \A p \in Partitions : frontier'[p] <= next[p]
    BY <1>1 DEF IInv, CreditsWell
  <2> HIDE DEF T
  <2> QED
    BY <1>1, <1>9, <2>1, <2>2, MovesStay
<1>11. BatchesWell'
  <2>1. /\ Flat(buf') /\ Flat(work') /\ Flat(hold') /\ Flat(completion')
        /\ IsInjective(wbatch') /\ IsInjective(ready') /\ IsInjective(returned')
        /\ \A v \in Workers : OneOwner(Range(hold'[v]))
        /\ \A i \in DOMAIN completion' : OneOwner(Range(completion'[i]))
        /\ OneOwner(Range(wbatch') \union Range(ready') \union Range(returned'))
    BY <1>1, <1>2, <1>3, <1>6 DEF IInv, BatchesWell
  <2>2. \A i \in DOMAIN work' : OneOwner(Range(work'[i]))
    BY <1>2, <1>3 DEF IInv, BatchesWell
  <2>3. ASSUME NEW d \in Pollers
        PROVE  /\ Flat(releases'[d]) /\ \A i \in DOMAIN releases'[d] : releases'[d][i] # <<>>
               /\ \A r \in Recs(releases'[d]) \union Range(buf'[d]) : Owner(r) = d
    BY <1>1 DEF IInv, BatchesWell
  <2> QED
    BY <2>1, <2>2, <2>3 DEF BatchesWell, Flat, OneOwner, Recs, Owner, IsInjective, Range
<1> QED
  BY <1>2, <1>3, <1>6, <1>9, <1>10, <1>11

\* A worker that lets go of its batch.
LEMMA HoldIsEmptied ==
    ASSUME IInv, NEW w \in Workers, hold' = [hold EXCEPT ![w] = <<>>]
    PROVE  /\ hold[w] \in Seq(RecordType) /\ IsInjective(hold[w]) /\ OneOwner(Range(hold[w]))
           /\ Range(hold[w]) \subseteq Recs(hold)
           /\ hold' \in [Workers -> Seq(RecordType)] /\ Flat(hold')
           /\ Recs(hold') = Recs(hold) \ Range(hold[w])
           /\ \A v \in Workers : OneOwner(Range(hold'[v]))
<1> DEFINE b == <<>>
<1>1. /\ b \in Seq(RecordType) /\ IsInjective(b) /\ Range(b) = {}
      /\ Range(b) \intersect Recs(hold) = {} /\ OneOwner(Range(b))
  BY EmptyBatch DEF OneOwner
<1>2. hold' = [hold EXCEPT ![w] = b]
  OBVIOUS
<1> HIDE DEF b
<1>3. /\ hold[w] \in Seq(RecordType) /\ IsInjective(hold[w])
      /\ OneOwner(Range(hold[w])) /\ Range(hold[w]) \subseteq Recs(hold)
      /\ [hold EXCEPT ![w] = b] \in [Workers -> Seq(RecordType)]
      /\ Flat([hold EXCEPT ![w] = b])
      /\ Recs([hold EXCEPT ![w] = b]) = (Recs(hold) \ Range(hold[w])) \union Range(b)
      /\ \A v \in Workers : OneOwner(Range([hold EXCEPT ![w] = b][v]))
  BY <1>1, Holds DEF IInv
<1> QED
  BY <1>1, <1>2, <1>3

LEMMA CompletionIsSent ==
    ASSUME IInv, NEW w \in Workers, SendCompletion(w), Unbroken' => Unbroken
    PROVE  /\ hold' \in [Workers -> Seq(RecordType)] /\ completion' \in Seq(Seq(RecordType))
           /\ BatchesWell' /\ Apart' /\ CreditsWell' /\ WritesWell'
           /\ Moves({"hold", "completion"})
<1>1. /\ hold' = [hold EXCEPT ![w] = <<>>] /\ completion' = Append(completion, hold[w])
      /\ UNCHANGED <<buf, work, wbatch, reorder, ready, returned, releases, next,
                     inflight, records, frontier, written>>
  BY DEF SendCompletion, SetWorker, WorkerOnly, pollerVars, loopVars, writerVars, admissionVars
<1> DEFINE b == hold[w]
           t == Append(completion, b)
<1>2. /\ b \in Seq(RecordType) /\ IsInjective(b) /\ OneOwner(Range(b))
      /\ Range(b) \subseteq Recs(hold)
      /\ hold' \in [Workers -> Seq(RecordType)] /\ Flat(hold')
      /\ Recs(hold') = Recs(hold) \ Range(b)
      /\ \A v \in Workers : OneOwner(Range(hold'[v]))
  BY <1>1, HoldIsEmptied
<1>3. Stage("hold") \intersect Stage("completion") = {}
  BY DEF IInv, Apart, Places
<1> HIDE DEF b
<1>4. /\ Range(b) \intersect Recs(completion) = {}
      /\ completion \in Seq(Seq(RecordType)) /\ Flat(completion)
  BY <1>2, <1>3, StageIs DEF IInv, Typed, TypeOK, BatchesWell
<1>5. /\ t \in Seq(Seq(RecordType)) /\ Flat(t) /\ Recs(t) = Recs(completion) \union Range(b)
      /\ \A i \in DOMAIN t : t[i] = b \/ (i \in DOMAIN completion /\ t[i] = completion[i])
  BY <1>2, <1>4, FlatAppend
<1> HIDE DEF t
<1>6. completion' = t
  BY <1>1 DEF t, b
<1> DEFINE T == {"hold", "completion"}
<1>7. /\ Stage("hold")' = Stage("hold") \ Range(b)
      /\ Stage("completion")' = Stage("completion") \union Range(b)
      /\ Range(b) \subseteq Stage("hold")
  BY <1>2, <1>5, <1>6, StageIs, StageIsPrimed
<1>8. \A s \in Places \ T : Stage(s)' = Stage(s)
  BY <1>1, SameStage DEF Places
<1>9. Moves(T) /\ Kept(T)
  BY <1>3, <1>7, <1>8 DEF Moves, Kept
<1>10. Apart' /\ CreditsWell' /\ WritesWell'
  <2>1. T \in SUBSET Places /\ T \intersect {"returned", "releases"} = {}
    BY DEF Places
  <2>2. \A p \in Partitions : frontier'[p] <= next[p]
    BY <1>1 DEF IInv, CreditsWell
  <2> HIDE DEF T
  <2> QED
    BY <1>1, <1>9, <2>1, <2>2, MovesStay
<1>11. BatchesWell'
  <2>1. /\ Flat(buf') /\ Flat(work') /\ Flat(hold') /\ Flat(completion')
        /\ IsInjective(wbatch') /\ IsInjective(ready') /\ IsInjective(returned')
        /\ \A i \in DOMAIN work' : OneOwner(Range(work'[i]))
        /\ \A v \in Workers : OneOwner(Range(hold'[v]))
        /\ OneOwner(Range(wbatch') \union Range(ready') \union Range(returned'))
    BY <1>1, <1>2, <1>5, <1>6 DEF IInv, BatchesWell
  <2>2. \A i \in DOMAIN completion' : OneOwner(Range(completion'[i]))
    BY <1>2, <1>5, <1>6 DEF IInv, BatchesWell
  <2>3. ASSUME NEW d \in Pollers
        PROVE  /\ Flat(releases'[d]) /\ \A i \in DOMAIN releases'[d] : releases'[d][i] # <<>>
               /\ \A r \in Recs(releases'[d]) \union Range(buf'[d]) : Owner(r) = d
    BY <1>1 DEF IInv, BatchesWell
  <2> QED
    BY <2>1, <2>2, <2>3 DEF BatchesWell, Flat, OneOwner, Recs, Owner, IsInjective, Range
<1> QED
  BY <1>2, <1>5, <1>6, <1>9, <1>10, <1>11

\* A worker loses its batch only with a failure.
LEMMA BatchIsLost ==
    ASSUME IInv, NEW w \in Workers, SendCompletionFails(w) \/ WorkerPanic(w),
           Unbroken' => Unbroken
    PROVE  /\ hold' \in [Workers -> Seq(RecordType)]
           /\ BatchesWell' /\ Apart' /\ CreditsWell' /\ WritesWell'
           /\ Moves({"hold"})
<1>1. /\ hold' = [hold EXCEPT ![w] = <<>>]
      /\ UNCHANGED <<buf, work, completion, wbatch, reorder, ready, returned, releases, next,
                     inflight, records, frontier, written>>
  BY DEF SendCompletionFails, WorkerPanic, SetWorker, WorkerOnly, pollerVars, loopVars,
         writerVars, admissionVars
<1>2. /\ hold' \in [Workers -> Seq(RecordType)] /\ Flat(hold') /\ Recs(hold') \subseteq Recs(hold)
      /\ \A v \in Workers : OneOwner(Range(hold'[v]))
  BY <1>1, HoldIsEmptied
<1>3. ~Unbroken'
  <2>1. CASE SendCompletionFails(w)
    <3>1. worker[w] = "busy" /\ WriterGone
      BY <2>1 DEF SendCompletionFails
    <3> QED
      BY <3>1 DEF IInv, ThreadsWell
  <2>2. CASE WorkerPanic(w)
    <3>1. worker'[w] = "panicked"
      BY <2>2 DEF WorkerPanic, SetWorker, IInv, Typed, TypeOK
    <3> QED
      BY <3>1 DEF Unbroken
  <2> QED
    BY <2>1, <2>2
<1> DEFINE T == {"hold"}
<1>4. \A s \in Places \ T : Stage(s)' = Stage(s)
  BY <1>1, SameStage DEF Places
<1>5. Moves(T)
  BY <1>2, <1>4, StageIs, StageIsPrimed DEF Moves
<1>6. Apart' /\ CreditsWell' /\ WritesWell'
  <2>1. T \in SUBSET Places /\ T \intersect {"returned", "releases"} = {}
    BY DEF Places
  <2>2. \A p \in Partitions : frontier'[p] <= next[p]
    BY <1>1 DEF IInv, CreditsWell
  <2> HIDE DEF T
  <2> QED
    BY <1>1, <1>3, <1>5, <2>1, <2>2, MovesStay
<1>7. BatchesWell'
  <2>1. /\ Flat(buf') /\ Flat(work') /\ Flat(hold') /\ Flat(completion')
        /\ IsInjective(wbatch') /\ IsInjective(ready') /\ IsInjective(returned')
        /\ \A i \in DOMAIN work' : OneOwner(Range(work'[i]))
        /\ \A v \in Workers : OneOwner(Range(hold'[v]))
        /\ \A i \in DOMAIN completion' : OneOwner(Range(completion'[i]))
        /\ OneOwner(Range(wbatch') \union Range(ready') \union Range(returned'))
    BY <1>1, <1>2 DEF IInv, BatchesWell
  <2>2. ASSUME NEW d \in Pollers
        PROVE  /\ Flat(releases'[d]) /\ \A i \in DOMAIN releases'[d] : releases'[d][i] # <<>>
               /\ \A r \in Recs(releases'[d]) \union Range(buf'[d]) : Owner(r) = d
    BY <1>1 DEF IInv, BatchesWell
  <2> QED
    BY <2>1, <2>2 DEF BatchesWell, Flat, OneOwner, Recs, Owner, IsInjective, Range
<1> QED
  BY <1>2, <1>5, <1>6, <1>7

\* BatchesWell of a step of the writer that leaves the threads' batches alone.
LEMMA WriterBatches ==
    ASSUME IInv, UNCHANGED <<buf, work, hold, releases>>,
           completion' \in Seq(Seq(RecordType)), Flat(completion'),
           \A i \in DOMAIN completion' : OneOwner(Range(completion'[i])),
           IsInjective(wbatch'), IsInjective(ready'), IsInjective(returned'),
           OneOwner(Range(wbatch') \union Range(ready') \union Range(returned'))
    PROVE  BatchesWell'
<1>1. /\ Flat(buf') /\ Flat(work') /\ Flat(hold')
      /\ \A i \in DOMAIN work' : OneOwner(Range(work'[i]))
      /\ \A v \in Workers : OneOwner(Range(hold'[v]))
  BY DEF IInv, BatchesWell
<1>2. ASSUME NEW d \in Pollers
      PROVE  /\ Flat(releases'[d]) /\ \A i \in DOMAIN releases'[d] : releases'[d][i] # <<>>
             /\ \A r \in Recs(releases'[d]) \union Range(buf'[d]) : Owner(r) = d
  BY DEF IInv, BatchesWell
<1> QED
  BY <1>1, <1>2 DEF BatchesWell, Flat, OneOwner, Recs, Owner, IsInjective, Range

LEMMA CompletionIsTaken ==
    ASSUME IInv, TakeCompletion, Unbroken' => Unbroken
    PROVE  /\ wbatch' \in Seq(RecordType) /\ completion' \in Seq(Seq(RecordType))
           /\ BatchesWell' /\ Apart' /\ CreditsWell' /\ WritesWell'
           /\ Moves({"completion", "wbatch"})
<1>1. /\ wbatch' = Head(completion) /\ completion' = Tail(completion) /\ completion # <<>>
      /\ wbatch = <<>> /\ ready = <<>> /\ returned = <<>>
      /\ UNCHANGED <<buf, work, hold, reorder, ready, returned, releases, next,
                     inflight, records, frontier, written>>
  BY DEF TakeCompletion, Resting, WriterOnly, pollerVars, loopVars, workerVars, admissionVars
<1> DEFINE b == Head(completion)
           t == Tail(completion)
<1>2. /\ b \in Seq(RecordType) /\ t \in Seq(Seq(RecordType)) /\ IsInjective(b)
      /\ Range(b) \subseteq Recs(completion) /\ Flat(t) /\ Recs(t) = Recs(completion) \ Range(b)
      /\ 1 \in DOMAIN completion /\ b = completion[1]
      /\ \A i \in DOMAIN t : i + 1 \in DOMAIN completion /\ t[i] = completion[i + 1]
  BY <1>1, FlatTail DEF IInv, Typed, TypeOK, BatchesWell
<1>3. wbatch' = b /\ completion' = t
  BY <1>1
<1> HIDE DEF b, t
<1>4. Stage("wbatch") = {}
  BY <1>1, StageIs, EmptyBatch
<1> DEFINE T == {"completion", "wbatch"}
<1>5. /\ Stage("completion")' = Stage("completion") \ Range(b)
      /\ Stage("wbatch")' = Range(b) /\ Range(b) \subseteq Stage("completion")
  BY <1>2, <1>3, StageIs, StageIsPrimed
<1>6. \A s \in Places \ T : Stage(s)' = Stage(s)
  BY <1>1, SameStage DEF Places
<1>7. Moves(T) /\ Kept(T)
  BY <1>4, <1>5, <1>6 DEF Moves, Kept
<1>8. Apart' /\ CreditsWell' /\ WritesWell'
  <2>1. T \in SUBSET Places /\ T \intersect {"returned", "releases"} = {}
    BY DEF Places
  <2>2. \A p \in Partitions : frontier'[p] <= next[p]
    BY <1>1 DEF IInv, CreditsWell
  <2> HIDE DEF T
  <2> QED
    BY <1>1, <1>7, <2>1, <2>2, MovesStay
<1>9. BatchesWell'
  <2>1. /\ IsInjective(wbatch') /\ IsInjective(ready') /\ IsInjective(returned')
        /\ Range(wbatch') = Range(b) /\ Range(ready') = {} /\ Range(returned') = {}
    BY <1>1, <1>2, <1>3, EmptyBatch
  <2>2. OneOwner(Range(b))
    BY <1>2 DEF IInv, BatchesWell
  <2>3. OneOwner(Range(wbatch') \union Range(ready') \union Range(returned'))
    BY <2>1, <2>2
  <2>4. \A i \in DOMAIN completion' : OneOwner(Range(completion'[i]))
    BY <1>2, <1>3 DEF IInv, BatchesWell
  <2> QED
    BY <1>1, <1>2, <1>3, <2>1, <2>3, <2>4, WriterBatches
<1> QED
  BY <1>2, <1>3, <1>7, <1>8, <1>9

\* What the steps of the writer that take the next record have in common.
LEMMA WriterTail ==
    ASSUME IInv
    PROVE  /\ wbatch \in Seq(RecordType) /\ ready \in Seq(RecordType)
           /\ returned \in Seq(RecordType) /\ IsInjective(wbatch)
           /\ IsInjective(ready) /\ IsInjective(returned)
           /\ completion \in Seq(Seq(RecordType)) /\ Flat(completion)
           /\ \A i \in DOMAIN completion : OneOwner(Range(completion[i]))
           /\ OneOwner(Range(wbatch) \union Range(ready) \union Range(returned))
           /\ Range(wbatch) \intersect Range(ready) = {}
           /\ Range(wbatch) \intersect Range(returned) = {}
           /\ Range(ready) \intersect Range(returned) = {}
           /\ Range(wbatch) \intersect reorder = {} /\ Range(ready) \intersect reorder = {}
           /\ Range(returned) \intersect reorder = {}
<1>1. /\ Stage("wbatch") \intersect Stage("ready") = {}
      /\ Stage("wbatch") \intersect Stage("returned") = {}
      /\ Stage("ready") \intersect Stage("returned") = {}
      /\ Stage("wbatch") \intersect Stage("reorder") = {}
      /\ Stage("ready") \intersect Stage("reorder") = {}
      /\ Stage("returned") \intersect Stage("reorder") = {}
  BY DEF IInv, Apart, Places
<1> QED
  BY <1>1, StageIs DEF IInv, Typed, TypeOK, BatchesWell

LEMMA RecordPasses ==
    ASSUME IInv, Direct, Unbroken' => Unbroken
    PROVE  /\ wbatch' \in Seq(RecordType) /\ ready' \in Seq(RecordType)
           /\ BatchesWell' /\ Apart' /\ CreditsWell' /\ WritesWell'
           /\ Moves({"wbatch", "ready"})
<1>1. /\ wbatch' = Tail(wbatch) /\ wbatch # <<>> /\ ready = <<>> /\ ready' = <<Head(wbatch)>>
      /\ UNCHANGED <<buf, work, hold, completion, reorder, returned, releases, next,
                     inflight, records, frontier, written>>
  BY DEF Direct, WriterOnly, pollerVars, loopVars, workerVars, admissionVars
<1> DEFINE r == Head(wbatch)
           t == Tail(wbatch)
<1>2. /\ r \in RecordType /\ r \in Range(wbatch) /\ t \in Seq(RecordType)
      /\ Range(t) = Range(wbatch) \ {r} /\ IsInjective(t)
  BY <1>1, WriterTail, RangeTail
<1>3. wbatch' = t /\ ready' = <<r>>
  BY <1>1
<1> HIDE DEF r, t
<1>4. /\ ready' \in Seq(RecordType) /\ Range(ready') = {r} /\ IsInjective(ready')
      /\ Range(ready) = {}
  BY <1>1, <1>2, <1>3, EmptyBatch DEF Range, IsInjective
<1> DEFINE T == {"wbatch", "ready"}
<1>5. /\ Stage("wbatch")' = Stage("wbatch") \ {r}
      /\ Stage("ready")' = {r} /\ r \in Stage("wbatch") /\ Stage("ready") = {}
  BY <1>2, <1>3, <1>4, StageIs, StageIsPrimed
<1>6. \A s \in Places \ T : Stage(s)' = Stage(s)
  BY <1>1, SameStage DEF Places
<1>7. Moves(T) /\ Kept(T)
  BY <1>5, <1>6 DEF Moves, Kept
<1>8. Apart' /\ CreditsWell' /\ WritesWell'
  <2>1. T \in SUBSET Places /\ T \intersect {"returned", "releases"} = {}
    BY DEF Places
  <2>2. \A p \in Partitions : frontier'[p] <= next[p]
    BY <1>1 DEF IInv, CreditsWell
  <2> HIDE DEF T
  <2> QED
    BY <1>1, <1>7, <2>1, <2>2, MovesStay
<1>9. BatchesWell'
  <2>1. Range(wbatch') \union Range(ready') = Range(wbatch) \union Range(ready)
    BY <1>2, <1>3, <1>4
  <2>2. OneOwner(Range(wbatch') \union Range(ready') \union Range(returned'))
    BY <1>1, <2>1, WriterTail
  <2> QED
    BY <1>1, <1>2, <1>3, <1>4, <2>2, WriterTail, WriterBatches
<1> QED
  BY <1>2, <1>3, <1>4, <1>7, <1>8, <1>9

LEMMA RecordIsWritten ==
    ASSUME IInv, Write, Unbroken' => Unbroken
    PROVE  /\ ready' \in Seq(RecordType) /\ returned' \in Seq(RecordType)
           /\ written' \in [Partitions -> Seq(Nat)]
           /\ BatchesWell' /\ Apart' /\ CreditsWell' /\ WritesWell'
           /\ Moves({"ready", "returned"})
           /\ Head(ready) \in Stage("ready") /\ Stage("ready")' = Stage("ready") \ {Head(ready)}
<1>1. /\ ready' = Tail(ready) /\ ready # <<>> /\ returned' = Append(returned, Head(ready))
      /\ UNCHANGED <<buf, work, hold, completion, wbatch, reorder, releases, next,
                     inflight, records, frontier>>
  BY DEF Write, WriterOnly, pollerVars, loopVars, workerVars, admissionVars
<1> DEFINE r == Head(ready)
           t == Tail(ready)
           u == Append(returned, r)
<1>2. /\ r \in RecordType /\ r \in Range(ready) /\ t \in Seq(RecordType)
      /\ Range(t) = Range(ready) \ {r} /\ IsInjective(t)
  BY <1>1, WriterTail, RangeTail
<1>3. ready' = t /\ returned' = u
  BY <1>1
<1> HIDE DEF r, t
<1>4. u \in Seq(RecordType) /\ Range(u) = Range(returned) \union {r} /\ IsInjective(u)
  BY <1>2, WriterTail, RangeAppend
<1> HIDE DEF u
<1> DEFINE T == {"ready", "returned"}
<1>5. /\ Stage("ready")' = Stage("ready") \ {r}
      /\ Stage("returned")' = Stage("returned") \union {r} /\ r \in Stage("ready")
  BY <1>2, <1>3, <1>4, StageIs, StageIsPrimed
<1>6. \A s \in Places \ T : Stage(s)' = Stage(s)
  BY <1>1, SameStage DEF Places
<1>7. Stage("ready") \intersect Stage("returned") = {}
  BY DEF IInv, Apart, Places
<1>8. Moves(T) /\ Kept(T)
  BY <1>5, <1>6, <1>7 DEF Moves, Kept
<1>9. Apart' /\ CreditsWell'
  <2>1. T \in SUBSET Places
    BY DEF Places
  <2>2. \A p \in Partitions : frontier'[p] <= next[p]
    BY <1>1 DEF IInv, CreditsWell
  <2> HIDE DEF T
  <2> QED
    BY <1>1, <1>8, <2>1, <2>2, MovesStay
<1>10. BatchesWell'
  <2>1. Range(ready') \union Range(returned') = Range(ready) \union Range(returned)
    BY <1>2, <1>3, <1>4
  <2>2. OneOwner(Range(wbatch') \union Range(ready') \union Range(returned'))
    BY <1>1, <2>1, WriterTail
  <2> QED
    BY <1>1, <1>2, <1>3, <1>4, <2>2, WriterTail, WriterBatches
<1>11. r[1] \in Partitions /\ r[2] \in Nat /\ r = <<r[1], r[2]>>
  BY <1>2 DEF RecordType
<1>12. /\ written \in [Partitions -> Seq(Nat)]
       /\ \/ written' = written
          \/ written' = [written EXCEPT ![r[1]] = Append(@, r[2])]
  BY DEF Write, r, IInv, Typed
<1> DEFINE v == Append(written[r[1]], r[2])
<1>13. v \in Seq(Nat) /\ Range(v) = Range(written[r[1]]) \union {r[2]}
  BY <1>11, <1>12, RangeAppend
<1> HIDE DEF v
<1>14. written' = written \/ written' = [written EXCEPT ![r[1]] = v]
  BY <1>12 DEF v
<1>15. written' \in [Partitions -> Seq(Nat)]
  BY <1>11, <1>12, <1>13, <1>14
<1>16. \A p \in Partitions : Range(written[p]) \subseteq Range(written'[p])
  BY <1>11, <1>12, <1>13, <1>14
<1>17. Unbroken' => r[2] \in Range(written'[r[1]])
  <2> SUFFICES ASSUME Unbroken' PROVE r[2] \in Range(written'[r[1]])
    OBVIOUS
  <2>1. firstFailure' = None /\ firstFailure = None
    BY DEF Unbroken
  <2>2. ~Silent
    BY <2>1 DEF IInv, ThreadsWell, Silent
  <2>3. \A kind \in {"runtime", "output"} : ~WriterFails(kind)
    BY <2>1 DEF WriterFails, Fail, None
  <2>4. written' = [written EXCEPT ![r[1]] = Append(@, r[2])]
    BY <2>2, <2>3 DEF Write, r
  <2>5. written' = [written EXCEPT ![r[1]] = v]
    BY <2>4 DEF v
  <2> QED
    BY <1>11, <1>12, <1>13, <2>5
<1>18. WritesWell'
  <2> SUFFICES ASSUME Unbroken', NEW p \in Partitions, NEW s \in 0..(next[p] - 1)
               PROVE  <<p, s>> \in Upstream' \/ s \in Range(written'[p])
    BY <1>1 DEF WritesWell
  <2>1. CASE <<p, s>> = r
    BY <1>11, <1>17, <2>1
  <2>2. CASE <<p, s>> # r /\ <<p, s>> \in Upstream
    <3>1. PICK a \in Places \ {"returned", "releases"} : <<p, s>> \in Stage(a)
      BY <2>2, LocatedIs
    <3>2. <<p, s>> \in Stage(a)'
      BY <1>5, <1>6, <2>2, <3>1
    <3> QED
      BY <3>1, <3>2 DEF Upstream
  <2>3. CASE s \in Range(written[p])
    BY <1>16, <2>3
  <2> QED
    BY <2>1, <2>2, <2>3 DEF IInv, WritesWell
<1> QED
  BY <1>2, <1>3, <1>4, <1>5, <1>8, <1>9, <1>10, <1>15, <1>18 DEF r

LEMMA RecordRepeats ==
    ASSUME IInv, Order, Unbroken' => Unbroken,
           LET r == Head(wbatch) IN r[2] < frontier[r[1]] \/ r \in reorder
    PROVE  /\ wbatch' \in Seq(RecordType) /\ returned' \in Seq(RecordType)
           /\ UNCHANGED <<ready, frontier, reorder>>
           /\ BatchesWell' /\ Apart' /\ CreditsWell' /\ WritesWell'
           /\ Moves({"wbatch", "returned"}) /\ Stage("wbatch")' \subseteq Stage("wbatch")
<1>1. /\ wbatch' = Tail(wbatch) /\ wbatch # <<>> /\ returned' = Append(returned, Head(wbatch))
      /\ WriterFails("runtime")
      /\ UNCHANGED <<buf, work, hold, completion, ready, reorder, releases, next,
                     inflight, records, frontier, written>>
  BY DEF Order, WriterOnly, pollerVars, loopVars, workerVars, admissionVars
<1> DEFINE r == Head(wbatch)
           t == Tail(wbatch)
           u == Append(returned, r)
<1>2. /\ r \in RecordType /\ r \in Range(wbatch) /\ t \in Seq(RecordType)
      /\ Range(t) = Range(wbatch) \ {r} /\ IsInjective(t)
  BY <1>1, WriterTail, RangeTail
<1>3. wbatch' = t /\ returned' = u
  BY <1>1
<1> HIDE DEF r, t
<1>4. u \in Seq(RecordType) /\ Range(u) = Range(returned) \union {r} /\ IsInjective(u)
  BY <1>2, WriterTail, RangeAppend
<1> HIDE DEF u
<1> DEFINE T == {"wbatch", "returned"}
<1>5. /\ Stage("wbatch")' = Stage("wbatch") \ {r}
      /\ Stage("returned")' = Stage("returned") \union {r} /\ r \in Stage("wbatch")
  BY <1>2, <1>3, <1>4, StageIs, StageIsPrimed
<1>6. \A s \in Places \ T : Stage(s)' = Stage(s)
  BY <1>1, SameStage DEF Places
<1>7. Stage("wbatch") \intersect Stage("returned") = {}
  BY DEF IInv, Apart, Places
<1>8. Moves(T) /\ Kept(T)
  BY <1>5, <1>6, <1>7 DEF Moves, Kept
<1>9. Apart' /\ CreditsWell'
  <2>1. T \in SUBSET Places
    BY DEF Places
  <2>2. \A p \in Partitions : frontier'[p] <= next[p]
    BY <1>1 DEF IInv, CreditsWell
  <2> HIDE DEF T
  <2> QED
    BY <1>1, <1>8, <2>1, <2>2, MovesStay
<1>10. BatchesWell'
  <2>1. Range(wbatch') \union Range(returned') = Range(wbatch) \union Range(returned)
    BY <1>2, <1>3, <1>4
  <2>2. OneOwner(Range(wbatch') \union Range(ready') \union Range(returned'))
    BY <1>1, <2>1, WriterTail
  <2> QED
    BY <1>1, <1>2, <1>3, <1>4, <2>2, WriterTail, WriterBatches
<1>11. WritesWell'
  <2>1. ~Unbroken'
    BY <1>1 DEF WriterFails, Fail, Unbroken, None
  <2> QED
    BY <2>1 DEF WritesWell
<1> QED
  BY <1>1, <1>2, <1>3, <1>4, <1>5, <1>8, <1>9, <1>10, <1>11

LEMMA RecordIsOrdered ==
    ASSUME IInv, Order, Unbroken' => Unbroken,
           LET r == Head(wbatch) IN ~(r[2] < frontier[r[1]] \/ r \in reorder)
    PROVE  /\ wbatch' \in Seq(RecordType) /\ ready' \in Seq(RecordType)
           /\ reorder' \subseteq RecordType /\ frontier' \in [Partitions -> Nat]
           /\ returned' = returned /\ UNCHANGED failVars /\ UNCHANGED wfail
           /\ BatchesWell' /\ Apart' /\ CreditsWell' /\ WritesWell'
           /\ Moves({"wbatch", "reorder", "ready"})
<1> DEFINE r == Head(wbatch)
           t == Tail(wbatch)
           p == r[1]
           pool == reorder \union {r}
           run == Drain(p, pool)
<1>1. /\ wbatch' = t /\ wbatch # <<>> /\ ready = <<>> /\ ready' = run
      /\ reorder' = pool \ Range(ready') /\ frontier' = [frontier EXCEPT ![p] = @ + Len(ready')]
      /\ UNCHANGED <<failVars, wfail>>
      /\ UNCHANGED <<buf, work, hold, completion, returned, releases, next,
                     inflight, records, written>>
  BY DEF Order, Remain, WriterOnly, pollerVars, loopVars, workerVars, admissionVars
<1>2. /\ r \in RecordType /\ r \in Range(wbatch) /\ t \in Seq(RecordType)
      /\ Range(t) = Range(wbatch) \ {r} /\ IsInjective(t)
  BY <1>1, WriterTail, RangeTail
<1> HIDE DEF r, t
<1>3. reorder \subseteq Located /\ r \in Located
  BY <1>2, LocatedIs, StageIs DEF Places
<1>4. /\ IsFiniteSet(pool) /\ pool \subseteq Located /\ pool \subseteq RecordType
      /\ p \in Partitions /\ frontier \in [Partitions -> Nat] /\ next \in [Partitions -> Nat]
  <2>1. IsFiniteSet(Located) /\ pool \subseteq Located
    BY <1>3 DEF IInv, CreditsWell
  <2>2. IsFiniteSet(pool)
    BY <2>1, FS_Subset
  <2> QED
    BY <1>2, <2>1, <2>2 DEF IInv, Typed, TypeOK, RecordType
<1> HIDE DEF pool, p
<1>5. frontier[p] \in Nat
  BY <1>4
<1>6. /\ run \in Seq(RecordType) /\ IsInjective(run) /\ Len(run) \in Nat
      /\ Range(run) \subseteq pool /\ DOMAIN run = 1..Len(run)
      /\ \A i \in 1..Len(run) : run[i] = <<p, frontier[p] + i - 1>>
  BY <1>4, <1>5, DrainIs
<1> HIDE DEF run
<1>7. frontier' = [frontier EXCEPT ![p] = @ + Len(run)] /\ reorder' = pool \ Range(run)
  BY <1>1
<1>8. \A q \in Partitions : frontier'[q] <= next[q]
  <2>1. \A q \in Partitions : frontier[q] <= next[q]
    BY DEF IInv, CreditsWell
  <2>2. frontier[p] + Len(run) <= next[p]
    <3>1. CASE Len(run) = 0
      BY <1>4, <2>1, <3>1
    <3>2. CASE Len(run) # 0
      <4>1. Len(run) \in 1..Len(run)
        BY <1>6, <3>2
      <4>2. <<p, frontier[p] + Len(run) - 1>> \in Located
        BY <1>4, <1>6, <4>1 DEF Range
      <4>3. frontier[p] + Len(run) - 1 < next[p]
        BY <4>2 DEF IInv, CreditsWell
      <4> QED
        BY <1>4, <1>6, <4>3
    <3> QED
      BY <3>1, <3>2
  <2> QED
    BY <1>4, <1>6, <1>7, <2>1, <2>2
<1> DEFINE T == {"wbatch", "reorder", "ready"}
<1>9. /\ Stage("wbatch")' = Stage("wbatch") \ {r} /\ r \in Stage("wbatch")
      /\ Stage("reorder")' = pool \ Range(run) /\ Stage("ready")' = Range(run)
      /\ Stage("ready") = {} /\ pool = Stage("reorder") \union {r}
  BY <1>1, <1>2, <1>7, StageIs, StageIsPrimed, EmptyBatch DEF pool
<1>10. \A s \in Places \ T : Stage(s)' = Stage(s)
  BY <1>1, SameStage DEF Places
<1>11. Stage("wbatch") \intersect Stage("reorder") = {}
  BY DEF IInv, Apart, Places
<1>12. Moves(T)
  <2>1. \A a \in T : Stage(a)' \subseteq UNION {Stage(s) : s \in T}
    BY <1>6, <1>9
  <2>2. \A a, b \in T : a # b => Stage(a)' \intersect Stage(b)' = {}
    BY <1>6, <1>9, <1>11
  <2> QED
    BY <1>10, <2>1, <2>2 DEF Moves
<1>13. Kept(T)
  BY <1>6, <1>9 DEF Kept
<1>14. Apart' /\ CreditsWell' /\ WritesWell'
  <2>1. T \in SUBSET Places /\ T \intersect {"returned", "releases"} = {}
    BY DEF Places
  <2> HIDE DEF T
  <2> QED
    BY <1>1, <1>8, <1>12, <1>13, <2>1, MovesStay
<1>15. BatchesWell'
  <2>1. \A x \in Range(run) : Owner(x) = Owner(r)
    BY <1>6 DEF Range, Owner, p
  <2>2. OneOwner(Range(wbatch) \union Range(ready) \union Range(returned))
    BY WriterTail
  <2>3. \A x \in Range(t) \union Range(run) \union Range(returned) : Owner(x) = Owner(r)
    BY <1>2, <2>1, <2>2 DEF OneOwner
  <2>4. OneOwner(Range(wbatch') \union Range(ready') \union Range(returned'))
    BY <1>1, <2>3 DEF OneOwner
  <2> QED
    BY <1>1, <1>2, <1>6, <2>4, WriterTail, WriterBatches
<1>16. frontier' \in [Partitions -> Nat] /\ reorder' \subseteq RecordType
  BY <1>4, <1>6, <1>7
<1> QED
  BY <1>1, <1>2, <1>6, <1>12, <1>14, <1>15, <1>16

-----------------------------------------------------------------------------
\* Credits are returned.

LEMMA BatchIsReleased ==
    ASSUME IInv, NEW c \in Pollers, NEW b \in Seq(RecordType), IsInjective(b), b # <<>>,
           Range(b) \intersect Stage("releases") = {}, \A r \in Range(b) : Owner(r) = c
    PROVE  LET t == Append(releases[c], b) IN
           /\ t \in Seq(Seq(RecordType)) /\ Flat(t) /\ \A i \in DOMAIN t : t[i] # <<>>
           /\ Recs(t) = Recs(releases[c]) \union Range(b) /\ \A r \in Recs(t) : Owner(r) = c
<1>1. /\ releases[c] \in Seq(Seq(RecordType)) /\ Flat(releases[c])
      /\ \A i \in DOMAIN releases[c] : releases[c][i] # <<>>
      /\ \A r \in Recs(releases[c]) : Owner(r) = c
  BY DEF IInv, Typed, TypeOK, BatchesWell
<1>2. Range(b) \intersect Recs(releases[c]) = {}
  BY LocatedIs
<1> DEFINE t == Append(releases[c], b)
<1>3. /\ t \in Seq(Seq(RecordType)) /\ Flat(t) /\ Recs(t) = Recs(releases[c]) \union Range(b)
      /\ \A i \in DOMAIN t : t[i] = b \/ (i \in DOMAIN releases[c] /\ t[i] = releases[c][i])
  BY <1>1, <1>2, FlatAppend
<1> HIDE DEF t
<1>4. \A i \in DOMAIN t : t[i] # <<>>
  BY <1>1, <1>3
<1> QED
  BY <1>1, <1>3, <1>4 DEF t

\* BatchesWell of a step that changes the releases.
LEMMA ReleasedBatches ==
    ASSUME IInv, UNCHANGED <<buf, work, hold, completion, wbatch, ready>>,
           IsInjective(returned'), Range(returned') \subseteq Range(returned),
           \A c \in Pollers :
                /\ Flat(releases'[c]) /\ \A i \in DOMAIN releases'[c] : releases'[c][i] # <<>>
                /\ \A r \in Recs(releases'[c]) : Owner(r) = c
    PROVE  BatchesWell'
<1>1. /\ Flat(buf') /\ Flat(work') /\ Flat(hold') /\ Flat(completion')
      /\ IsInjective(wbatch') /\ IsInjective(ready')
      /\ \A i \in DOMAIN work' : OneOwner(Range(work'[i]))
      /\ \A v \in Workers : OneOwner(Range(hold'[v]))
      /\ \A i \in DOMAIN completion' : OneOwner(Range(completion'[i]))
  BY DEF IInv, BatchesWell
<1>2. OneOwner(Range(wbatch') \union Range(ready') \union Range(returned'))
  <2>1. OneOwner(Range(wbatch) \union Range(ready) \union Range(returned))
    BY WriterTail
  <2> QED
    BY <2>1 DEF OneOwner
<1>3. \A c \in Pollers : \A r \in Recs(releases'[c]) \union Range(buf'[c]) : Owner(r) = c
  BY DEF IInv, BatchesWell
<1> QED
  BY <1>1, <1>2, <1>3 DEF BatchesWell, Flat, OneOwner, Recs, Owner, IsInjective, Range

LEMMA CreditsReturn ==
    ASSUME IInv, ReturnCredits, Unbroken' => Unbroken
    PROVE  /\ returned' \in Seq(RecordType) /\ releases' \in [Pollers -> Seq(Seq(RecordType))]
           /\ BatchesWell' /\ Apart' /\ CreditsWell' /\ WritesWell'
<1> DEFINE first == Head(returned)
           c == Assigned[first[1]]
           t == Append(releases[c], returned)
<1>1. /\ returned # <<>> /\ returned' = <<>>
      /\ \/ Over(poller[c]) /\ UNCHANGED releases
         \/ ~Over(poller[c]) /\ releases' = [releases EXCEPT ![c] = t]
      /\ UNCHANGED <<buf, work, hold, completion, wbatch, ready, reorder, next,
                     inflight, records, frontier, written>>
  BY DEF ReturnCredits, WriterOnly, pollerVars, loopVars, workerVars, admissionVars
<1>2. /\ returned \in Seq(RecordType) /\ IsInjective(returned)
      /\ first \in RecordType /\ first \in Range(returned)
      /\ OneOwner(Range(wbatch) \union Range(ready) \union Range(returned))
  BY <1>1, WriterTail, RangeTail
<1>3. first[1] \in Partitions /\ c \in Pollers /\ first[1] \in PartitionsOf(c) /\ Owner(first) = c
  BY <1>2, PipelineAssumption DEF RecordType, PartitionsOf, Owner
<1>4. \A r \in Range(returned) : Owner(r) = c
  BY <1>2, <1>3 DEF OneOwner
<1>5. Stage("returned") \intersect Stage("releases") = {}
  BY DEF IInv, Apart, Places
<1> HIDE DEF c, first
<1>6. /\ t \in Seq(Seq(RecordType)) /\ Flat(t) /\ \A i \in DOMAIN t : t[i] # <<>>
      /\ Recs(t) = Recs(releases[c]) \union Range(returned) /\ \A r \in Recs(t) : Owner(r) = c
  <2>1. Range(returned) \intersect Stage("releases") = {}
    BY <1>5, StageIs
  <2> QED
    BY <1>1, <1>2, <1>3, <1>4, <2>1, BatchIsReleased
<1>7. releases \in [Pollers -> Seq(Seq(RecordType))]
  BY DEF IInv, Typed
<1> HIDE DEF t
<1>8. releases' \in [Pollers -> Seq(Seq(RecordType))]
  BY <1>1, <1>3, <1>6, <1>7
<1>9. \A d \in Pollers :
        /\ Flat(releases'[d]) /\ \A i \in DOMAIN releases'[d] : releases'[d][i] # <<>>
        /\ \A r \in Recs(releases'[d]) : Owner(r) = d
  <2> SUFFICES ASSUME NEW d \in Pollers
      PROVE  /\ Flat(releases'[d]) /\ \A i \in DOMAIN releases'[d] : releases'[d][i] # <<>>
             /\ \A r \in Recs(releases'[d]) : Owner(r) = d
    OBVIOUS
  <2>1. CASE releases'[d] = releases[d]
    BY <2>1 DEF IInv, BatchesWell
  <2>2. CASE d = c /\ releases'[d] = t
    BY <1>6, <2>2
  <2> QED
    BY <1>1, <1>3, <1>7, <2>1, <2>2
<1>10. returned' \in Seq(RecordType) /\ IsInjective(returned') /\ Range(returned') = {}
  BY <1>1, EmptyBatch
<1>11. BatchesWell'
  BY <1>1, <1>9, <1>10, ReleasedBatches
<1>12. Stage("returned")' = {} /\ Range(returned) = Stage("returned")
  BY <1>10, StageIs, StageIsPrimed
<1>13. /\ Stage("releases") \subseteq Stage("releases")'
       /\ Stage("releases")' \subseteq Stage("releases") \union Stage("returned")
       /\ ~Over(poller[c]) => Stage("returned") \subseteq Stage("releases")'
  <2>1. CASE UNCHANGED releases /\ Over(poller[c])
    BY <2>1, SameStage
  <2>2. CASE releases' = [releases EXCEPT ![c] = t]
    <3>1. releases'[c] = t /\ \A d \in Pollers \ {c} : releases'[d] = releases[d]
      BY <1>3, <1>7, <2>2
    <3>2. ASSUME NEW x \in Stage("releases") PROVE x \in Stage("releases")'
      <4>1. PICK d \in Pollers : x \in Recs(releases[d])
        BY <3>2, LocatedIs
      <4>2. x \in Recs(releases'[d])
        BY <1>6, <3>1, <4>1
      <4> QED
        BY <4>2, LocatedIs
    <3>3. ASSUME NEW x \in Stage("releases")'
          PROVE  x \in Stage("releases") \union Stage("returned")
      <4>1. PICK d \in Pollers : x \in Recs(releases'[d])
        BY <3>3, LocatedIs
      <4>2. x \in Recs(releases[d]) \/ x \in Range(returned)
        BY <1>6, <3>1, <4>1
      <4> QED
        BY <1>12, <4>2, LocatedIs
    <3>4. ASSUME NEW x \in Stage("returned") PROVE x \in Stage("releases")'
      <4>1. x \in Recs(releases'[c])
        BY <1>6, <1>12, <3>1, <3>4
      <4> QED
        BY <1>3, <4>1, LocatedIs
    <3> QED
      BY <3>2, <3>3, <3>4
  <2> QED
    BY <1>1, <2>1, <2>2
<1>14. Unbroken' => ~Over(poller[c])
  <2> SUFFICES ASSUME Unbroken', Over(poller[c]) PROVE FALSE
    OBVIOUS
  <2>1. inflight[first[1]] = 0
    BY <1>3 DEF IInv, ThreadsWell, Idle
  <2>2. Cardinality(Mine(first[1])) = 0
    BY <1>3, <2>1 DEF IInv, CreditsWell
  <2>3. first \in Mine(first[1])
    BY <1>2, StageIs, LocatedIs DEF Mine, Places
  <2>4. IsFiniteSet(Mine(first[1]))
    BY FS_Subset DEF Mine, IInv, CreditsWell
  <2> QED
    BY <2>2, <2>3, <2>4, FS_EmptySet
<1> DEFINE T == {"returned", "releases"}
<1>15. \A s \in Places \ T : Stage(s)' = Stage(s)
  BY <1>1, SameStage DEF Places
<1>16. Moves(T) /\ (Unbroken' => Kept(T))
  BY <1>5, <1>12, <1>13, <1>14, <1>15 DEF Moves, Kept
<1>17. Apart' /\ CreditsWell'
  <2>1. T \in SUBSET Places
    BY DEF Places
  <2>2. \A p \in Partitions : frontier'[p] <= next[p]
    BY <1>1 DEF IInv, CreditsWell
  <2> HIDE DEF T
  <2> QED
    BY <1>1, <1>16, <2>1, <2>2, MovesStay
<1>18. WritesWell'
  <2>1. Upstream' = Upstream
    BY <1>15 DEF Upstream
  <2> QED
    BY <1>1, <2>1 DEF IInv, WritesWell
<1> QED
  BY <1>8, <1>10, <1>11, <1>17, <1>18

\* Nothing is added for a poller that has left, or has no record in the pool.
LEMMA PoolIsReleased ==
    ASSUME IInv, NEW c \in Pollers
    PROVE  LET t == releases[c] \o Credits(c) IN
           /\ t \in Seq(Seq(RecordType)) /\ Flat(t) /\ \A i \in DOMAIN t : t[i] # <<>>
           /\ Recs(releases[c]) \subseteq Recs(t)
           /\ Recs(t) \subseteq Recs(releases[c]) \union reorder
           /\ \A r \in Recs(t) : Owner(r) = c
           /\ reorder = {} => t = releases[c]
<1> DEFINE t == releases[c] \o Credits(c)
           mine == {r \in reorder : Assigned[r[1]] = c}
<1>1. /\ releases[c] \in Seq(Seq(RecordType)) /\ Flat(releases[c])
      /\ \A i \in DOMAIN releases[c] : releases[c][i] # <<>>
      /\ \A r \in Recs(releases[c]) : Owner(r) = c
  BY DEF IInv, Typed, TypeOK, BatchesWell
<1>2. CASE mine = {} \/ Over(poller[c])
  <2>1. Credits(c) = <<>>
    BY <1>2 DEF Credits
  <2>2. t = releases[c]
    BY <1>1, <2>1, ConcatEmptySeq
  <2> QED
    BY <1>1, <2>2
<1>3. CASE mine # {} /\ ~Over(poller[c])
  <2> DEFINE b == SetToSeq(mine)
  <2>1. reorder \subseteq Located /\ reorder \subseteq RecordType
    BY LocatedIs, StageIs DEF Places, IInv, Typed, TypeOK
  <2>2. IsFiniteSet(mine)
    BY <2>1, FS_Subset DEF IInv, CreditsWell
  <2>3. b \in Seq(mine) /\ IsInjective(b) /\ Range(b) = mine /\ b # <<>>
    BY <1>3, <2>2, SetToSeqIs
  <2>4. Credits(c) = <<b>>
    BY <1>3 DEF Credits
  <2> HIDE DEF b
  <2>5. b \in Seq(RecordType)
    <3>1. b \in [1..Len(b) -> mine] /\ Len(b) \in Nat
      BY <2>3, LenProperties
    <3>2. b \in [1..Len(b) -> RecordType]
      BY <2>1, <3>1
    <3> QED
      BY <3>1, <3>2, SeqDef
  <2>6. t = Append(releases[c], b)
    BY <1>1, <2>4, <2>5, AppendIsConcat
  <2>7. Range(b) \intersect Stage("releases") = {} /\ \A r \in Range(b) : Owner(r) = c
    <3>1. Stage("reorder") \intersect Stage("releases") = {}
      BY DEF IInv, Apart, Places
    <3> QED
      BY <2>3, <3>1, StageIs DEF Owner
  <2> DEFINE u == Append(releases[c], b)
  <2>8. /\ u \in Seq(Seq(RecordType)) /\ Flat(u) /\ \A i \in DOMAIN u : u[i] # <<>>
        /\ Recs(u) = Recs(releases[c]) \union Range(b) /\ \A r \in Recs(u) : Owner(r) = c
    BY <2>3, <2>5, <2>7, BatchIsReleased
  <2> HIDE DEF u
  <2>9. t = u
    BY <2>6 DEF u
  <2> HIDE DEF t
  <2>10. Recs(releases[c]) \subseteq Recs(t) /\ Recs(t) \subseteq Recs(releases[c]) \union reorder
    BY <2>3, <2>8, <2>9
  <2>11. reorder # {}
    BY <1>3
  <2> QED
    BY <2>8, <2>9, <2>10, <2>11 DEF t
<1> QED
  BY <1>2, <1>3

LEMMA WriterCloses ==
    ASSUME IInv, CloseWriter, Unbroken' => Unbroken
    PROVE  /\ releases' \in [Pollers -> Seq(Seq(RecordType))] /\ reorder' = {}
           /\ BatchesWell' /\ Apart' /\ CreditsWell' /\ WritesWell'
<1>1. /\ releases' = [c \in Pollers |-> releases[c] \o Credits(c)] /\ reorder' = {}
      /\ reorder # {} => WriterFails("runtime")
      /\ UNCHANGED <<buf, work, hold, completion, wbatch, ready, returned, next,
                     inflight, records, frontier, written>>
  BY DEF CloseWriter, WriterOnly, pollerVars, loopVars, workerVars, admissionVars
<1>2. /\ releases \in [Pollers -> Seq(Seq(RecordType))] /\ DOMAIN releases' = Pollers
      /\ \A c \in Pollers : releases'[c] = releases[c] \o Credits(c)
  BY <1>1 DEF IInv, Typed
<1>3. ASSUME NEW c \in Pollers
      PROVE  /\ releases'[c] \in Seq(Seq(RecordType)) /\ Flat(releases'[c])
             /\ \A i \in DOMAIN releases'[c] : releases'[c][i] # <<>>
             /\ Recs(releases[c]) \subseteq Recs(releases'[c])
             /\ Recs(releases'[c]) \subseteq Recs(releases[c]) \union reorder
             /\ \A r \in Recs(releases'[c]) : Owner(r) = c
             /\ reorder = {} => releases'[c] = releases[c]
  <2> DEFINE t == releases[c] \o Credits(c)
  <2>1. /\ t \in Seq(Seq(RecordType)) /\ Flat(t) /\ \A i \in DOMAIN t : t[i] # <<>>
        /\ Recs(releases[c]) \subseteq Recs(t)
        /\ Recs(t) \subseteq Recs(releases[c]) \union reorder
        /\ \A r \in Recs(t) : Owner(r) = c
        /\ reorder = {} => t = releases[c]
    BY PoolIsReleased
  <2>2. releases'[c] = t
    BY <1>2
  <2> HIDE DEF t
  <2> QED
    BY <2>1, <2>2
<1>4. releases' \in [Pollers -> Seq(Seq(RecordType))]
  BY <1>1, <1>3
<1>5. Unbroken' => reorder = {}
  BY <1>1 DEF WriterFails, Fail, Unbroken, None
<1>6. BatchesWell'
  <2>1. IsInjective(returned') /\ Range(returned') \subseteq Range(returned)
    BY <1>1, WriterTail
  <2> QED
    BY <1>1, <1>3, <2>1, ReleasedBatches
<1>7. /\ Stage("releases") \subseteq Stage("releases")'
      /\ Stage("releases")' \subseteq Stage("releases") \union Stage("reorder")
  <2>1. ASSUME NEW x \in Stage("releases") PROVE x \in Stage("releases")'
    BY <1>3, <2>1, LocatedIs
  <2>2. ASSUME NEW x \in Stage("releases")' PROVE x \in Stage("releases") \union Stage("reorder")
    BY <1>3, <2>2, LocatedIs, StageIs
  <2> QED
    BY <2>1, <2>2
<1>8. Stage("reorder")' = {} /\ (Unbroken' => Stage("reorder") = {})
  BY <1>1, <1>5, StageIs, StageIsPrimed
<1> DEFINE T == {"reorder", "releases"}
<1>9. \A s \in Places \ T : Stage(s)' = Stage(s)
  BY <1>1, SameStage DEF Places
<1>10. Moves(T) /\ (Unbroken' => Kept(T))
  BY <1>7, <1>8, <1>9 DEF Moves, Kept
<1>11. Apart' /\ CreditsWell'
  <2>1. T \in SUBSET Places
    BY DEF Places
  <2>2. \A p \in Partitions : frontier'[p] <= next[p]
    BY <1>1 DEF IInv, CreditsWell
  <2> HIDE DEF T
  <2> QED
    BY <1>1, <1>10, <2>1, <2>2, MovesStay
<1>12. WritesWell'
  <2>1. ASSUME Unbroken', NEW s \in Places \ {"returned", "releases"}
        PROVE  Stage(s)' = Stage(s)
    BY <1>8, <1>9, <2>1
  <2>2. Unbroken' => Upstream' = Upstream
    BY <2>1 DEF Upstream
  <2> QED
    BY <1>1, <2>2 DEF IInv, WritesWell
<1> QED
  BY <1>1, <1>4, <1>6, <1>11, <1>12

-----------------------------------------------------------------------------
\* What every step leaves alone.

\* A failure is never forgotten, and a panic is only over when it is recorded.
LEMMA UnbrokenStays ==
    ASSUME IInv, Next
    PROVE  Unbroken' => Unbroken
<1> SUFFICES ASSUME Unbroken' PROVE Unbroken
  OBVIOUS
<1> USE DEF failVars, admissionVars, pollerVars, loopVars, workerVars, mainVars, writerVars,
            Unbroken, Fail, Goto
<1>1. firstFailure' = None /\ None \notin {"startup", "runtime", "output"}
  BY DEF None
<1>2. poller \in [Pollers -> {"unborn", "top", "poll", "reserve", "flush", "wait",
                            "panicked", "exit", "unstarted"}]
      /\ worker \in [Workers -> {"unborn", "recv", "busy", "panicked", "exit", "unstarted"}]
  BY DEF IInv, Typed, TypeOK
<1>3. ASSUME NEW c \in Pollers, DrainRelease(c) PROVE Unbroken
  BY <1>1, <1>2, <1>3 DEF DrainRelease, PollerOnly
<1>4. ASSUME NEW c \in Pollers, CheckStop(c) PROVE Unbroken
  BY <1>1, <1>2, <1>4 DEF CheckStop, PollerOnly
<1>5. ASSUME NEW c \in Pollers, PollRecord(c) PROVE Unbroken
  BY <1>1, <1>2, <1>5 DEF PollRecord, PollerOnly, PollOnly
<1>6. ASSUME NEW c \in Pollers, PollEnd(c) PROVE Unbroken
  BY <1>1, <1>2, <1>6 DEF PollEnd, PollerOnly, PollOnly, GoIdle
<1>7. ASSUME NEW c \in Pollers, PollDone(c) PROVE Unbroken
  BY <1>1, <1>2, <1>7 DEF PollDone, PollerOnly, PollOnly
<1>8. ASSUME NEW c \in Pollers, PollTimeout(c) PROVE Unbroken
  BY <1>1, <1>2, <1>8 DEF PollTimeout, PollerOnly, PollOnly, GoIdle, Polling
<1>9. ASSUME NEW c \in Pollers, Admit(c) PROVE Unbroken
  BY <1>1, <1>2, <1>9 DEF Admit, PollerOnly
<1>10. ASSUME NEW c \in Pollers, Refuse(c) PROVE Unbroken
  BY <1>1, <1>2, <1>10 DEF Refuse, PollerOnly, PollOnly
<1>11. ASSUME NEW c \in Pollers, FlushWork(c) PROVE Unbroken
  BY <1>1, <1>2, <1>11 DEF FlushWork, PollerOnly, FlushSent
<1>12. ASSUME NEW c \in Pollers, FlushCompletion(c) PROVE Unbroken
  BY <1>1, <1>2, <1>12 DEF FlushCompletion, PollerOnly, FlushSent
<1>13. ASSUME NEW c \in Pollers, FlushFails(c) PROVE Unbroken
  BY <1>1, <1>2, <1>13 DEF FlushFails, PollerOnly, Leave
<1>14. ASSUME NEW c \in Pollers, WaitCredits(c) PROVE Unbroken
  BY <1>1, <1>2, <1>14 DEF WaitCredits, PollerOnly
<1>15. ASSUME NEW c \in Pollers, WaitTimeout(c) PROVE Unbroken
  BY <1>1, <1>2, <1>15 DEF WaitTimeout, PollerOnly, PollOnly
<1>16. ASSUME NEW c \in Pollers, WaitDisconnected(c) PROVE Unbroken
  BY <1>1, <1>2, <1>16 DEF WaitDisconnected, PollerOnly, Leave
<1>17. ASSUME NEW c \in Pollers, PollerGuard(c) PROVE Unbroken
  BY <1>1, <1>2, <1>17 DEF PollerGuard, PollerOnly, PollOnly
<1>18. ASSUME NEW c \in Pollers, PollError(c) PROVE Unbroken
  BY <1>1, <1>2, <1>18 DEF PollError, PollerOnly, PollOnly, Polling
<1>19. ASSUME NEW c \in Pollers, PollerPanic(c) PROVE Unbroken
  BY <1>1, <1>2, <1>19 DEF PollerPanic, PollerOnly, Polling
<1>20. ASSUME NEW w \in Workers, TakeWork(w) PROVE Unbroken
  BY <1>1, <1>2, <1>20 DEF TakeWork, SetWorker, WorkerOnly
<1>21. ASSUME NEW w \in Workers, SendCompletion(w) PROVE Unbroken
  BY <1>1, <1>2, <1>21 DEF SendCompletion, SetWorker, WorkerOnly
<1>22. ASSUME NEW w \in Workers, SendCompletionFails(w) PROVE Unbroken
  BY <1>1, <1>2, <1>22 DEF SendCompletionFails, SetWorker, WorkerOnly
<1>23. ASSUME NEW w \in Workers, WorkEnds(w) PROVE Unbroken
  BY <1>1, <1>2, <1>23 DEF WorkEnds, SetWorker, WorkerOnly
<1>24. ASSUME NEW w \in Workers, WorkerGuard(w) PROVE Unbroken
  BY <1>1, <1>2, <1>24 DEF WorkerGuard, SetWorker, WorkerOnly
<1>25. ASSUME NEW w \in Workers, WorkerPanic(w) PROVE Unbroken
  BY <1>1, <1>2, <1>25 DEF WorkerPanic, SetWorker, WorkerOnly
<1>26. CASE StartPoller
  <2>1. /\ poller' = [poller EXCEPT ![spawned + 1] = "top"] /\ spawned \in Nat
        /\ firstFailure' = firstFailure /\ worker' = worker /\ main = "pollers"
    BY <1>26 DEF StartPoller, Starting, IInv, Typed, TypeOK
  <2>2. \A c \in Pollers : c = spawned + 1 => poller[c] = "unborn"
    BY <2>1 DEF IInv, ThreadsWell, Pollers
  <2> QED
    BY <1>1, <1>2, <2>1, <2>2
<1>27. CASE StartWorker
  <2>1. /\ worker' = [worker EXCEPT ![spawned + 1] = "recv"] /\ spawned \in Nat
        /\ firstFailure' = firstFailure /\ poller' = poller /\ main = "workers"
    BY <1>27 DEF StartWorker, Starting, IInv, Typed, TypeOK
  <2>2. \A w \in Workers : w = spawned + 1 => worker[w] = "unborn"
    BY <2>1 DEF IInv, ThreadsWell, Workers
  <2> QED
    BY <1>1, <1>2, <2>1, <2>2
<1>28. CASE BeginWriting
  BY <1>1, <1>2, <1>28 DEF BeginWriting, WriterOnly
<1>29. CASE TakeCompletion
  BY <1>1, <1>2, <1>29 DEF TakeCompletion, WriterOnly
<1>30. CASE Order
  BY <1>1, <1>2, <1>30 DEF Order, WriterOnly, WriterFails
<1>31. CASE Direct
  BY <1>1, <1>2, <1>31 DEF Direct, WriterOnly
<1>32. CASE Write
  BY <1>1, <1>2, <1>32 DEF Write, WriterOnly, WriterFails
<1>33. CASE ReturnCredits
  BY <1>1, <1>2, <1>33 DEF ReturnCredits, WriterOnly
<1>34. CASE CloseWriter
  BY <1>1, <1>2, <1>34 DEF CloseWriter, WriterOnly, WriterFails
<1>35. CASE FlushOutput
  BY <1>1, <1>2, <1>35 DEF FlushOutput, WriterOnly, WriterFails
<1>36. CASE Join
  BY <1>1, <1>2, <1>36 DEF Join, WriterOnly
<1>37. CASE PollerFailsToStart
  BY <1>1, <1>2, <1>37 DEF PollerFailsToStart, Starting
<1>38. CASE WorkerFailsToStart
  BY <1>1, <1>2, <1>38 DEF WorkerFailsToStart, Starting
<1>39. CASE WriterPanic
  BY <1>1, <1>2, <1>39 DEF WriterPanic, WriterOnly
<1>40. CASE ClaimSignal
  BY <1>1, <1>2, <1>40 DEF ClaimSignal, HandlerOnly
<1>41. CASE PublishShutdown
  BY <1>1, <1>2, <1>41 DEF PublishShutdown, HandlerOnly
<1>42. CASE UNCHANGED runVars
  BY <1>1, <1>2, <1>42 DEF runVars
<1> QED
  BY <1>3, <1>4, <1>5, <1>6, <1>7, <1>8, <1>9, <1>10, <1>11, <1>12, <1>13, <1>14, <1>15, <1>16, <1>17, <1>18, <1>19, <1>20, <1>21, <1>22, <1>23, <1>24, <1>25, <1>26, <1>27, <1>28, <1>29, <1>30, <1>31, <1>32, <1>33, <1>34, <1>35, <1>36, <1>37, <1>38, <1>39, <1>40, <1>41, <1>42
     DEF Next, Step, PollLoop, Deliver, WorkerLoop, RunPipeline, Fault

LEMMA TypedStays ==
    ASSUME IInv, Next
    PROVE  Typed'
<1> USE DEF failVars, admissionVars, pollerVars, loopVars, workerVars, mainVars, writerVars,
            Fail, Goto, Typed, TypeOK
<1>1. Unbroken' => Unbroken
  BY UnbrokenStays
<1>2. Typed /\ mode' = mode
  BY DEF IInv, Next
<1>3. ASSUME NEW c \in Pollers, DrainRelease(c) PROVE Typed'
  BY <1>1, <1>2, <1>3, CreditsTakenBack DEF DrainRelease, PollerOnly, TakeCredits
<1>4. ASSUME NEW c \in Pollers, CheckStop(c) PROVE Typed'
  BY <1>1, <1>2, <1>4 DEF CheckStop, PollerOnly
<1>5. ASSUME NEW c \in Pollers, PollRecord(c) PROVE Typed'
  BY <1>1, <1>2, <1>5, SMTT(30) DEF PollRecord, PollerOnly, PollOnly, PartitionsOf
<1>6. ASSUME NEW c \in Pollers, PollEnd(c) PROVE Typed'
  BY <1>1, <1>2, <1>6 DEF PollEnd, PollerOnly, PollOnly, GoIdle, PartitionsOf
<1>7. ASSUME NEW c \in Pollers, PollDone(c) PROVE Typed'
  BY <1>1, <1>2, <1>7 DEF PollDone, PollerOnly, PollOnly
<1>8. ASSUME NEW c \in Pollers, PollTimeout(c) PROVE Typed'
  BY <1>1, <1>2, <1>8 DEF PollTimeout, PollerOnly, PollOnly, GoIdle, Polling
<1>9. ASSUME NEW c \in Pollers, Admit(c) PROVE Typed'
  <2>1. /\ inflight' \in [Partitions -> 0..MaxPerPartition] /\ records' \in 0..MaxRecords
        /\ next' \in [Partitions -> Nat] /\ buf' \in [Pollers -> Seq(RecordType)]
        /\ pending[c] \in Partitions
    BY <1>1, <1>9, AdmitStays DEF PartitionsOf
  <2>2. /\ admitted' = admitted \/ admitted' = admitted + 1
        /\ after' = after \/ after' = [after EXCEPT ![c] = "top"]
        /\ poller' = [poller EXCEPT ![c] = "flush"] \/ poller' = [poller EXCEPT ![c] = "top"]
        /\ finished' = finished \/ finished' = finished \union {pending[c]}
        /\ UNCHANGED failVars \/ Fail("runtime")
        /\ pending' = [pending EXCEPT ![c] = NoPartition]
        /\ UNCHANGED <<signal, workerVars, mainVars, writerVars, stopping, open, work,
                       completion, releases>>
    BY <1>9 DEF Admit, PollerOnly
  <2>3. admitted' \in Nat /\ after' \in [Pollers -> {"top", "wait", "drain"}]
    <3>1. admitted \in Nat /\ after \in [Pollers -> {"top", "wait", "drain"}]
      BY <1>2
    <3> QED
      BY <2>2, <3>1
  <2>4. /\ finished' \subseteq Partitions
        /\ poller' \in [Pollers -> {"unborn", "top", "poll", "reserve", "flush", "wait",
                                   "panicked", "exit", "unstarted"}]
        /\ pending' \in [Pollers -> Partitions \union {NoPartition}]
    BY <1>2, <2>1, <2>2
  <2> QED
    BY <1>2, <2>1, <2>2, <2>3, <2>4
<1>10. ASSUME NEW c \in Pollers, Refuse(c) PROVE Typed'
  BY <1>1, <1>2, <1>10 DEF Refuse, PollerOnly, PollOnly
<1>11. ASSUME NEW c \in Pollers, FlushWork(c) PROVE Typed'
  BY <1>1, <1>2, <1>11, WorkIsFlushed DEF FlushWork, PollerOnly, FlushSent
<1>12. ASSUME NEW c \in Pollers, FlushCompletion(c) PROVE Typed'
  BY <1>1, <1>2, <1>12, CompletionIsFlushed DEF FlushCompletion, PollerOnly, FlushSent
<1>13. ASSUME NEW c \in Pollers, FlushFails(c) PROVE Typed'
  BY <1>1, <1>2, <1>13 DEF FlushFails, PollerOnly, Leave
<1>14. ASSUME NEW c \in Pollers, WaitCredits(c) PROVE Typed'
  BY <1>1, <1>2, <1>14, CreditsTakenBack DEF WaitCredits, PollerOnly, TakeCredits
<1>15. ASSUME NEW c \in Pollers, WaitTimeout(c) PROVE Typed'
  BY <1>1, <1>2, <1>15 DEF WaitTimeout, PollerOnly, PollOnly
<1>16. ASSUME NEW c \in Pollers, WaitDisconnected(c) PROVE Typed'
  BY <1>1, <1>2, <1>16 DEF WaitDisconnected, PollerOnly, Leave
<1>17. ASSUME NEW c \in Pollers, PollerGuard(c) PROVE Typed'
  BY <1>1, <1>2, <1>17 DEF PollerGuard, PollerOnly, PollOnly
<1>18. ASSUME NEW c \in Pollers, PollError(c) PROVE Typed'
  BY <1>1, <1>2, <1>18 DEF PollError, PollerOnly, PollOnly, Polling, PartitionsOf
<1>19. ASSUME NEW c \in Pollers, PollerPanic(c) PROVE Typed'
  BY <1>1, <1>2, <1>19 DEF PollerPanic, PollerOnly, Polling
<1>20. ASSUME NEW w \in Workers, TakeWork(w) PROVE Typed'
  BY <1>1, <1>2, <1>20, WorkIsTaken DEF TakeWork, SetWorker, WorkerOnly
<1>21. ASSUME NEW w \in Workers, SendCompletion(w) PROVE Typed'
  BY <1>1, <1>2, <1>21, CompletionIsSent DEF SendCompletion, SetWorker, WorkerOnly
<1>22. ASSUME NEW w \in Workers, SendCompletionFails(w) PROVE Typed'
  BY <1>1, <1>2, <1>22, BatchIsLost DEF SendCompletionFails, SetWorker, WorkerOnly
<1>23. ASSUME NEW w \in Workers, WorkEnds(w) PROVE Typed'
  BY <1>1, <1>2, <1>23 DEF WorkEnds, SetWorker, WorkerOnly
<1>24. ASSUME NEW w \in Workers, WorkerGuard(w) PROVE Typed'
  BY <1>1, <1>2, <1>24 DEF WorkerGuard, SetWorker, WorkerOnly
<1>25. ASSUME NEW w \in Workers, WorkerPanic(w) PROVE Typed'
  BY <1>1, <1>2, <1>25, BatchIsLost DEF WorkerPanic, SetWorker, WorkerOnly
<1>26. CASE StartPoller
  <2>1. /\ poller' = [poller EXCEPT ![spawned + 1] = "top"]
        /\ main' \in {"pollers", "workers", "started"}
        /\ UNCHANGED <<signal, admissionVars, writerVars, result, work, completion, releases,
                       failVars, after, loopVars, workerVars>>
    BY <1>26 DEF StartPoller, Starting
  <2>2. spawned' \in Nat
    <3>1. spawned' = (spawned + 1) % NumPollers /\ spawned \in Nat
      BY <1>2, <1>26 DEF StartPoller
    <3>2. NumPollers \in Nat \ {0}
      BY PipelineAssumption
    <3> HIDE DEF Typed, TypeOK
    <3> QED
      BY <3>1, <3>2
  <2> QED
    BY <1>2, <2>1, <2>2
<1>27. CASE StartWorker
  <2>1. /\ worker' = [worker EXCEPT ![spawned + 1] = "recv"]
        /\ main' \in {"workers", "started"}
        /\ UNCHANGED <<signal, admissionVars, writerVars, result, work, completion, releases,
                       failVars, pollerVars, hold>>
    BY <1>27 DEF StartWorker, Starting
  <2>2. spawned' \in Nat
    <3>1. spawned' = (spawned + 1) % NumWorkers /\ spawned \in Nat
      BY <1>2, <1>27 DEF StartWorker
    <3>2. NumWorkers \in Nat \ {0}
      BY PipelineAssumption
    <3> HIDE DEF Typed, TypeOK
    <3> QED
      BY <3>1, <3>2
  <2> QED
    BY <1>2, <2>1, <2>2
<1>28. CASE BeginWriting
  BY <1>1, <1>2, <1>28 DEF BeginWriting, WriterOnly
<1>29. CASE TakeCompletion
  BY <1>1, <1>2, <1>29, CompletionIsTaken DEF TakeCompletion, WriterOnly
<1>30. CASE Order
  BY <1>1, <1>2, <1>30, RecordRepeats, RecordIsOrdered DEF Order, WriterOnly, WriterFails
<1>31. CASE Direct
  BY <1>1, <1>2, <1>31, RecordPasses DEF Direct, WriterOnly
<1>32. CASE Write
  BY <1>1, <1>2, <1>32, RecordIsWritten DEF Write, WriterOnly, WriterFails
<1>33. CASE ReturnCredits
  BY <1>1, <1>2, <1>33, CreditsReturn DEF ReturnCredits, WriterOnly
<1>34. CASE CloseWriter
  BY <1>1, <1>2, <1>34, WriterCloses DEF CloseWriter, WriterOnly, WriterFails
<1>35. CASE FlushOutput
  BY <1>1, <1>2, <1>35 DEF FlushOutput, WriterOnly, WriterFails
<1>36. CASE Join
  BY <1>1, <1>2, <1>36 DEF Join, WriterOnly, Outcome
<1>37. CASE PollerFailsToStart
  BY <1>1, <1>2, <1>37 DEF PollerFailsToStart, Starting
<1>38. CASE WorkerFailsToStart
  BY <1>1, <1>2, <1>38 DEF WorkerFailsToStart, Starting
<1>39. CASE WriterPanic
  BY <1>1, <1>2, <1>39 DEF WriterPanic, WriterOnly
<1>40. CASE ClaimSignal
  BY <1>1, <1>2, <1>40 DEF ClaimSignal, HandlerOnly
<1>41. CASE PublishShutdown
  BY <1>1, <1>2, <1>41 DEF PublishShutdown, HandlerOnly
<1>42. CASE UNCHANGED runVars
  BY <1>1, <1>2, <1>42 DEF runVars
<1> QED
  BY <1>3, <1>4, <1>5, <1>6, <1>7, <1>8, <1>9, <1>10, <1>11, <1>12, <1>13, <1>14, <1>15, <1>16, <1>17, <1>18, <1>19, <1>20, <1>21, <1>22, <1>23, <1>24, <1>25, <1>26, <1>27, <1>28, <1>29, <1>30, <1>31, <1>32, <1>33, <1>34, <1>35, <1>36, <1>37, <1>38, <1>39, <1>40, <1>41, <1>42
     DEF Next, Step, PollLoop, Deliver, WorkerLoop, RunPipeline, Fault

\* A step of one poller that keeps its own part of ThreadsWell keeps it all.
LEMMA PollerStays ==
    ASSUME ThreadsWell, mode' = mode, NEW c \in Pollers, poller[c] # "unborn",
           UNCHANGED <<worker, hold, main, spawned, wfail>>,
           firstFailure # None => firstFailure' # None, Unbroken' => Unbroken,
           \A d \in Pollers \ {c} : poller'[d] = poller[d] /\ pending'[d] = pending[d],
           pending'[c] \in PartitionsOf(c) \union {NoPartition},
           poller'[c] = "reserve" => pending'[c] # NoPartition,
           \A d \in Pollers \ {c} : Idle(d) => Idle(d)',
           Unbroken' /\ Over(poller'[c]) => Idle(c)'
    PROVE  ThreadsWell'
<1>1. main' = "pollers" => \A d \in Pollers : d > spawned' => poller'[d] = "unborn"
  BY DEF ThreadsWell
<1>2. \A d \in Pollers : /\ pending'[d] \in PartitionsOf(d) \union {NoPartition}
                        /\ poller'[d] = "reserve" => pending'[d] # NoPartition
  BY DEF ThreadsWell
<1>3. Unbroken' => \A d \in Pollers : Over(poller'[d]) => Idle(d)'
  BY DEF ThreadsWell
<1> QED
  BY <1>1, <1>2, <1>3 DEF ThreadsWell, ParsesJson, WriterGone, PartitionsOf

LEMMA ThreadsStay ==
    ASSUME IInv, Next
    PROVE  ThreadsWell'
<1> USE DEF failVars, admissionVars, pollerVars, loopVars, workerVars, mainVars, writerVars,
            Fail, Goto, ThreadsWell, Over, WriterGone, ParsesJson, PartitionsOf, Idle
<1>1. /\ Unbroken' => Unbroken /\ firstFailure' = None
      /\ Unbroken' => \A c \in Pollers : poller'[c] # "panicked"
      /\ None \notin {"startup", "runtime", "output"}
  BY UnbrokenStays DEF Unbroken, None
<1>2. /\ ThreadsWell /\ mode' = mode
      /\ poller \in [Pollers -> {"unborn", "top", "poll", "reserve", "flush", "wait",
                                "panicked", "exit", "unstarted"}]
      /\ worker \in [Workers -> {"unborn", "recv", "busy", "panicked", "exit", "unstarted"}]
      /\ pending \in [Pollers -> Partitions \union {NoPartition}]
      /\ after \in [Pollers -> {"top", "wait", "drain"}]
      /\ hold \in [Workers -> Seq(RecordType)]
      /\ inflight \in [Partitions -> Nat] /\ spawned \in Nat
  BY DEF IInv, Typed, TypeOK, Next
<1>3. ASSUME NEW c \in Pollers, DrainRelease(c) PROVE ThreadsWell'
  <2>1. \A p \in Partitions : inflight'[p] \in Nat /\ inflight'[p] <= inflight[p]
    <3>1. /\ \A p \in Partitions : inflight'[p] <= inflight[p]
          /\ inflight' \in [Partitions -> 0..MaxPerPartition]
      <4>1. UNCHANGED <<buf, work, hold, completion, wbatch, reorder, ready, returned,
                        frontier, written>>
        BY <1>3 DEF DrainRelease, PollerOnly
      <4>2. releases[c] # <<>> /\ TakeCredits(c)
        BY <1>3 DEF DrainRelease
      <4> QED
        BY <1>1, <4>1, <4>2, CreditsTakenBack
    <3> QED
      BY <3>1
  <2>2. \A p \in Partitions : inflight[p] = 0 => inflight'[p] = 0
    BY <1>2, <2>1
  <2> QED
    BY <1>1, <1>2, <1>3, <2>2 DEF DrainRelease, PollerOnly
<1>4. ASSUME NEW c \in Pollers, CheckStop(c) PROVE ThreadsWell'
  <2>1. /\ poller[c] # "unborn" /\ UNCHANGED <<worker, hold, main, spawned, wfail>>
        /\ firstFailure # None => firstFailure' # None
        /\ \A d \in Pollers \ {c} : poller'[d] = poller[d] /\ pending'[d] = pending[d]
        /\ \A d \in Pollers \ {c} : Idle(d) => Idle(d)'
    BY <1>1, <1>2, <1>4 DEF CheckStop, PollerOnly
  <2>2. /\ pending'[c] \in PartitionsOf(c) \union {NoPartition}
        /\ poller'[c] = "reserve" => pending'[c] # NoPartition
        /\ Unbroken' /\ Over(poller'[c]) => Idle(c)'
    BY <1>1, <1>2, <1>4 DEF CheckStop, PollerOnly
  <2> QED
    BY <1>1, <1>2, <2>1, <2>2, PollerStays
<1>5. ASSUME NEW c \in Pollers, PollRecord(c) PROVE ThreadsWell'
  <2>1. /\ poller[c] # "unborn" /\ UNCHANGED <<worker, hold, main, spawned, wfail>>
        /\ firstFailure # None => firstFailure' # None
        /\ \A d \in Pollers \ {c} : poller'[d] = poller[d] /\ pending'[d] = pending[d]
        /\ \A d \in Pollers \ {c} : Idle(d) => Idle(d)'
    BY <1>1, <1>2, <1>5 DEF PollRecord, PollerOnly, PollOnly
  <2>2. /\ pending'[c] \in PartitionsOf(c) \union {NoPartition}
        /\ poller'[c] = "reserve" => pending'[c] # NoPartition
        /\ Unbroken' /\ Over(poller'[c]) => Idle(c)'
    BY <1>1, <1>2, <1>5, PipelineAssumption DEF PollRecord, PollerOnly, PollOnly, NoPartition
  <2> QED
    BY <1>1, <1>2, <2>1, <2>2, PollerStays
<1>6. ASSUME NEW c \in Pollers, PollEnd(c) PROVE ThreadsWell'
  <2>1. /\ poller[c] # "unborn" /\ UNCHANGED <<worker, hold, main, spawned, wfail>>
        /\ firstFailure # None => firstFailure' # None
        /\ \A d \in Pollers \ {c} : poller'[d] = poller[d] /\ pending'[d] = pending[d]
        /\ \A d \in Pollers \ {c} : Idle(d) => Idle(d)'
    BY <1>1, <1>2, <1>6 DEF PollEnd, PollerOnly, PollOnly, GoIdle
  <2>2. /\ pending'[c] \in PartitionsOf(c) \union {NoPartition}
        /\ poller'[c] = "reserve" => pending'[c] # NoPartition
        /\ Unbroken' /\ Over(poller'[c]) => Idle(c)'
    BY <1>1, <1>2, <1>6 DEF PollEnd, PollerOnly, PollOnly, GoIdle
  <2> QED
    BY <1>1, <1>2, <2>1, <2>2, PollerStays
<1>7. ASSUME NEW c \in Pollers, PollDone(c) PROVE ThreadsWell'
  BY <1>1, <1>2, <1>7 DEF PollDone, PollerOnly, PollOnly
<1>8. ASSUME NEW c \in Pollers, PollTimeout(c) PROVE ThreadsWell'
  <2>1. /\ poller[c] # "unborn" /\ UNCHANGED <<worker, hold, main, spawned, wfail>>
        /\ firstFailure # None => firstFailure' # None
        /\ \A d \in Pollers \ {c} : poller'[d] = poller[d] /\ pending'[d] = pending[d]
        /\ \A d \in Pollers \ {c} : Idle(d) => Idle(d)'
    BY <1>1, <1>2, <1>8 DEF PollTimeout, PollerOnly, PollOnly, GoIdle, Polling
  <2>2. /\ pending'[c] \in PartitionsOf(c) \union {NoPartition}
        /\ poller'[c] = "reserve" => pending'[c] # NoPartition
        /\ Unbroken' /\ Over(poller'[c]) => Idle(c)'
    BY <1>1, <1>2, <1>8 DEF PollTimeout, PollerOnly, PollOnly, GoIdle, Polling
  <2> QED
    BY <1>1, <1>2, <2>1, <2>2, PollerStays
<1>9. ASSUME NEW c \in Pollers, Admit(c) PROVE ThreadsWell'
  <2>1. /\ poller[c] # "unborn" /\ UNCHANGED <<worker, hold, main, spawned, wfail>>
        /\ firstFailure # None => firstFailure' # None
        /\ \A d \in Pollers \ {c} : poller'[d] = poller[d] /\ pending'[d] = pending[d]
        /\ \A d \in Pollers \ {c} : Idle(d) => Idle(d)'
    BY <1>1, <1>2, <1>9 DEF Admit, PollerOnly
  <2>2. /\ pending'[c] \in PartitionsOf(c) \union {NoPartition}
        /\ poller'[c] = "reserve" => pending'[c] # NoPartition
        /\ Unbroken' /\ Over(poller'[c]) => Idle(c)'
    BY <1>1, <1>2, <1>9 DEF Admit, PollerOnly
  <2> QED
    BY <1>1, <1>2, <2>1, <2>2, PollerStays
<1>10. ASSUME NEW c \in Pollers, Refuse(c) PROVE ThreadsWell'
  <2>1. /\ poller[c] # "unborn" /\ UNCHANGED <<worker, hold, main, spawned, wfail>>
        /\ firstFailure # None => firstFailure' # None
        /\ \A d \in Pollers \ {c} : poller'[d] = poller[d] /\ pending'[d] = pending[d]
        /\ \A d \in Pollers \ {c} : Idle(d) => Idle(d)'
    BY <1>1, <1>2, <1>10 DEF Refuse, PollerOnly, PollOnly
  <2>2. /\ pending'[c] \in PartitionsOf(c) \union {NoPartition}
        /\ poller'[c] = "reserve" => pending'[c] # NoPartition
        /\ Unbroken' /\ Over(poller'[c]) => Idle(c)'
    BY <1>1, <1>2, <1>10 DEF Refuse, PollerOnly, PollOnly
  <2> QED
    BY <1>1, <1>2, <2>1, <2>2, PollerStays
<1>11. ASSUME NEW c \in Pollers, FlushWork(c) PROVE ThreadsWell'
  <2>1. /\ poller[c] # "unborn" /\ UNCHANGED <<worker, hold, main, spawned, wfail>>
        /\ firstFailure # None => firstFailure' # None
        /\ \A d \in Pollers \ {c} : poller'[d] = poller[d] /\ pending'[d] = pending[d]
        /\ \A d \in Pollers \ {c} : Idle(d) => Idle(d)'
    BY <1>1, <1>2, <1>11 DEF FlushWork, FlushSent, PollerOnly
  <2>2. /\ pending'[c] \in PartitionsOf(c) \union {NoPartition}
        /\ poller'[c] = "reserve" => pending'[c] # NoPartition
        /\ Unbroken' /\ Over(poller'[c]) => Idle(c)'
    BY <1>1, <1>2, <1>11 DEF FlushWork, FlushSent, PollerOnly
  <2> QED
    BY <1>1, <1>2, <2>1, <2>2, PollerStays
<1>12. ASSUME NEW c \in Pollers, FlushCompletion(c) PROVE ThreadsWell'
  <2>1. /\ poller[c] # "unborn" /\ UNCHANGED <<worker, hold, main, spawned, wfail>>
        /\ firstFailure # None => firstFailure' # None
        /\ \A d \in Pollers \ {c} : poller'[d] = poller[d] /\ pending'[d] = pending[d]
        /\ \A d \in Pollers \ {c} : Idle(d) => Idle(d)'
    BY <1>1, <1>2, <1>12 DEF FlushCompletion, FlushSent, PollerOnly
  <2>2. /\ pending'[c] \in PartitionsOf(c) \union {NoPartition}
        /\ poller'[c] = "reserve" => pending'[c] # NoPartition
        /\ Unbroken' /\ Over(poller'[c]) => Idle(c)'
    BY <1>1, <1>2, <1>12 DEF FlushCompletion, FlushSent, PollerOnly
  <2> QED
    BY <1>1, <1>2, <2>1, <2>2, PollerStays
<1>13. ASSUME NEW c \in Pollers, FlushFails(c) PROVE ThreadsWell'
  BY <1>1, <1>2, <1>13 DEF FlushFails, PollerOnly, Leave
<1>14. ASSUME NEW c \in Pollers, WaitCredits(c) PROVE ThreadsWell'
  <2>1. \A p \in Partitions : inflight'[p] \in Nat /\ inflight'[p] <= inflight[p]
    <3>1. /\ \A p \in Partitions : inflight'[p] <= inflight[p]
          /\ inflight' \in [Partitions -> 0..MaxPerPartition]
      <4>1. UNCHANGED <<buf, work, hold, completion, wbatch, reorder, ready, returned,
                        frontier, written>>
        BY <1>14 DEF WaitCredits, PollerOnly
      <4>2. releases[c] # <<>> /\ TakeCredits(c)
        BY <1>14 DEF WaitCredits
      <4> QED
        BY <1>1, <4>1, <4>2, CreditsTakenBack
    <3> QED
      BY <3>1
  <2>2. \A p \in Partitions : inflight[p] = 0 => inflight'[p] = 0
    BY <1>2, <2>1
  <2> QED
    BY <1>1, <1>2, <1>14, <2>2 DEF WaitCredits, PollerOnly
<1>15. ASSUME NEW c \in Pollers, WaitTimeout(c) PROVE ThreadsWell'
  BY <1>1, <1>2, <1>15 DEF WaitTimeout, PollerOnly, PollOnly
<1>16. ASSUME NEW c \in Pollers, WaitDisconnected(c) PROVE ThreadsWell'
  BY <1>1, <1>2, <1>16 DEF WaitDisconnected, PollerOnly, Leave
<1>17. ASSUME NEW c \in Pollers, PollerGuard(c) PROVE ThreadsWell'
  BY <1>1, <1>2, <1>17 DEF PollerGuard, PollerOnly, PollOnly
<1>18. ASSUME NEW c \in Pollers, PollError(c) PROVE ThreadsWell'
  BY <1>1, <1>2, <1>18 DEF PollError, PollerOnly, PollOnly, Polling
<1>19. ASSUME NEW c \in Pollers, PollerPanic(c) PROVE ThreadsWell'
  BY <1>1, <1>2, <1>19 DEF PollerPanic, PollerOnly, Polling
<1>20. ASSUME NEW w \in Workers, TakeWork(w) PROVE ThreadsWell'
  BY <1>1, <1>2, <1>20 DEF TakeWork, SetWorker, WorkerOnly
<1>21. ASSUME NEW w \in Workers, SendCompletion(w) PROVE ThreadsWell'
  BY <1>1, <1>2, <1>21 DEF SendCompletion, SetWorker, WorkerOnly
<1>22. ASSUME NEW w \in Workers, SendCompletionFails(w) PROVE ThreadsWell'
  BY <1>1, <1>2, <1>22 DEF SendCompletionFails, SetWorker, WorkerOnly
<1>23. ASSUME NEW w \in Workers, WorkEnds(w) PROVE ThreadsWell'
  BY <1>1, <1>2, <1>23 DEF WorkEnds, SetWorker, WorkerOnly
<1>24. ASSUME NEW w \in Workers, WorkerGuard(w) PROVE ThreadsWell'
  BY <1>1, <1>2, <1>24 DEF WorkerGuard, SetWorker, WorkerOnly
<1>25. ASSUME NEW w \in Workers, WorkerPanic(w) PROVE ThreadsWell'
  BY <1>1, <1>2, <1>25 DEF WorkerPanic, SetWorker, WorkerOnly
<1>26. CASE StartPoller
  <2>1. /\ main = "pollers" /\ poller' = [poller EXCEPT ![spawned + 1] = "top"]
        /\ main' \in {"pollers", "workers", "started"}
        /\ main' = "pollers" => spawned + 1 < NumPollers
        /\ main' = "workers" => ParsesJson
        /\ UNCHANGED <<firstFailure, wfail, pending, inflight, worker, hold>>
    BY <1>26 DEF StartPoller, Starting
  <2>2. main' = "pollers" => spawned' = spawned + 1
    <3>1. spawned' = (spawned + 1) % NumPollers /\ spawned \in Nat /\ NumPollers \in Nat \ {0}
      BY <1>2, <1>26, PipelineAssumption DEF StartPoller
    <3>2. spawned + 1 < NumPollers => (spawned + 1) % NumPollers = spawned + 1
      BY <3>1
    <3> QED
      BY <2>1, <3>1, <3>2
  <2>3. /\ \A c \in Pollers : c = spawned + 1 => poller[c] = "unborn"
        /\ \A c \in Pollers : c > spawned + 1 => poller[c] = "unborn" /\ c # spawned + 1
    BY <1>2, <2>1 DEF Pollers
  <2>4. \A c \in Pollers : /\ c = spawned + 1 => poller'[c] = "top"
                          /\ c # spawned + 1 => poller'[c] = poller[c]
    BY <1>2, <2>1
  <2>5. \A c \in Pollers : poller'[c] = poller[c] \/ poller'[c] = "top"
    BY <1>2, <2>1
  <2>6. main' = "pollers" => \A c \in Pollers : c > spawned' => poller'[c] = "unborn"
    BY <2>2, <2>3, <2>4
  <2>7. Unbroken' => \A c \in Pollers : Over(poller'[c]) => Idle(c)'
    BY <1>1, <1>2, <2>1, <2>5
  <2> QED
    BY <1>1, <1>2, <2>1, <2>5, <2>6, <2>7
<1>27. CASE StartWorker
  <2>1. /\ main = "workers" /\ worker' = [worker EXCEPT ![spawned + 1] = "recv"]
        /\ main' \in {"workers", "started"}
        /\ main' = "workers" => spawned + 1 < NumWorkers
        /\ UNCHANGED <<firstFailure, wfail, pending, inflight, poller, hold>>
    BY <1>27 DEF StartWorker, Starting
  <2>2. main' = "workers" => spawned' = spawned + 1
    <3>1. spawned' = (spawned + 1) % NumWorkers /\ spawned \in Nat /\ NumWorkers \in Nat \ {0}
      BY <1>2, <1>27, PipelineAssumption DEF StartWorker
    <3>2. spawned + 1 < NumWorkers => (spawned + 1) % NumWorkers = spawned + 1
      BY <3>1
    <3> QED
      BY <2>1, <3>1, <3>2
  <2>3. /\ \A w \in Workers : w = spawned + 1 => worker[w] = "unborn"
        /\ \A w \in Workers : w > spawned + 1 => worker[w] = "unborn" /\ w # spawned + 1
    BY <1>2, <2>1 DEF Workers
  <2>4. \A w \in Workers : /\ w = spawned + 1 => worker'[w] = "recv"
                          /\ w # spawned + 1 => worker'[w] = worker[w]
    BY <1>2, <2>1
  <2>5. main' = "workers" => \A w \in Workers : w > spawned' => worker'[w] = "unborn"
    BY <2>2, <2>3, <2>4
  <2>6. \A w \in Workers : hold'[w] # <<>> => worker'[w] = "busy"
    BY <1>2, <2>1, <2>3, <2>4
  <2> QED
    BY <1>1, <1>2, <2>1, <2>5, <2>6
<1>28. CASE BeginWriting
  BY <1>1, <1>2, <1>28 DEF BeginWriting, WriterOnly
<1>29. CASE TakeCompletion
  BY <1>1, <1>2, <1>29 DEF TakeCompletion, WriterOnly
<1>30. CASE Order
  BY <1>1, <1>2, <1>30 DEF Order, WriterOnly, WriterFails
<1>31. CASE Direct
  BY <1>1, <1>2, <1>31 DEF Direct, WriterOnly
<1>32. CASE Write
  BY <1>1, <1>2, <1>32 DEF Write, WriterOnly, WriterFails
<1>33. CASE ReturnCredits
  BY <1>1, <1>2, <1>33 DEF ReturnCredits, WriterOnly
<1>34. CASE CloseWriter
  BY <1>1, <1>2, <1>34 DEF CloseWriter, WriterOnly, WriterFails, Resting, CompletionClosed, WorkersGone, Started
<1>35. CASE FlushOutput
  BY <1>1, <1>2, <1>35 DEF FlushOutput, WriterOnly, WriterFails
<1>36. CASE Join
  BY <1>1, <1>2, <1>36 DEF Join, WriterOnly
<1>37. CASE PollerFailsToStart
  BY <1>1, <1>2, <1>37 DEF PollerFailsToStart, Starting
<1>38. CASE WorkerFailsToStart
  BY <1>1, <1>2, <1>38 DEF WorkerFailsToStart, Starting
<1>39. CASE WriterPanic
  BY <1>1, <1>2, <1>39 DEF WriterPanic, WriterOnly
<1>40. CASE ClaimSignal
  BY <1>1, <1>2, <1>40 DEF ClaimSignal, HandlerOnly
<1>41. CASE PublishShutdown
  BY <1>1, <1>2, <1>41 DEF PublishShutdown, HandlerOnly
<1>42. CASE UNCHANGED runVars
  BY <1>1, <1>2, <1>42 DEF runVars
<1> QED
  BY <1>3, <1>4, <1>5, <1>6, <1>7, <1>8, <1>9, <1>10, <1>11, <1>12, <1>13, <1>14, <1>15, <1>16, <1>17, <1>18, <1>19, <1>20, <1>21, <1>22, <1>23, <1>24, <1>25, <1>26, <1>27, <1>28, <1>29, <1>30, <1>31, <1>32, <1>33, <1>34, <1>35, <1>36, <1>37, <1>38, <1>39, <1>40, <1>41, <1>42
     DEF Next, Step, PollLoop, Deliver, WorkerLoop, RunPipeline, Fault

-----------------------------------------------------------------------------
\* The invariant.

LEMMA QuietStays ==
    ASSUME IInv, Unbroken' => Unbroken,
           UNCHANGED <<buf, work, hold, completion, wbatch, reorder, ready, returned, releases,
                       next, inflight, records, frontier, written>>
    PROVE  BatchesWell' /\ Apart' /\ CreditsWell' /\ WritesWell'
<1>1. BatchesWell'
  <2>1. IsInjective(returned') /\ Range(returned') \subseteq Range(returned)
    BY WriterTail
  <2>2. \A c \in Pollers :
           /\ Flat(releases'[c]) /\ \A i \in DOMAIN releases'[c] : releases'[c][i] # <<>>
           /\ \A r \in Recs(releases'[c]) : Owner(r) = c
    BY DEF IInv, BatchesWell
  <2> QED
    BY <2>1, <2>2, ReleasedBatches
<1> DEFINE T == {}
<1>2. \A s \in Places : Stage(s)' = Stage(s)
  BY SameStage DEF Places
<1>3. T \in SUBSET Places /\ Moves(T) /\ Kept(T) /\ T \intersect {"returned", "releases"} = {}
  BY <1>2 DEF Moves, Kept
<1>4. \A p \in Partitions : frontier'[p] <= next[p]
  BY DEF IInv, CreditsWell
<1> HIDE DEF T
<1>5. Apart' /\ CreditsWell' /\ WritesWell'
  BY <1>3, <1>4, MovesStay
<1> QED
  BY <1>1, <1>5

LEMMA IInvStays ==
    ASSUME IInv, Next
    PROVE  IInv'
<1> DEFINE Rest == BatchesWell' /\ Apart' /\ CreditsWell' /\ WritesWell'
<1>1. Typed' /\ ThreadsWell'
  BY TypedStays, ThreadsStay
<1>2. Unbroken' => Unbroken
  BY UnbrokenStays
<1> SUFFICES Rest
  BY <1>1 DEF IInv
<1> USE DEF failVars, admissionVars, pollerVars, loopVars, workerVars, mainVars, writerVars
<1>3. ASSUME NEW c \in Pollers, DrainRelease(c) PROVE Rest
  BY <1>2, <1>3, CreditsTakenBack DEF DrainRelease, PollerOnly
<1>4. ASSUME NEW c \in Pollers, CheckStop(c) PROVE Rest
  BY <1>2, <1>4, QuietStays DEF CheckStop, PollerOnly
<1>5. ASSUME NEW c \in Pollers, PollRecord(c) PROVE Rest
  BY <1>2, <1>5, QuietStays DEF PollRecord, PollerOnly, PollOnly
<1>6. ASSUME NEW c \in Pollers, PollEnd(c) PROVE Rest
  BY <1>2, <1>6, QuietStays DEF PollEnd, PollerOnly, PollOnly
<1>7. ASSUME NEW c \in Pollers, PollDone(c) PROVE Rest
  BY <1>2, <1>7, QuietStays DEF PollDone, PollerOnly, PollOnly
<1>8. ASSUME NEW c \in Pollers, PollTimeout(c) PROVE Rest
  BY <1>2, <1>8, QuietStays DEF PollTimeout, PollerOnly, PollOnly
<1>9. ASSUME NEW c \in Pollers, Admit(c) PROVE Rest
  BY <1>2, <1>9, AdmitStays
<1>10. ASSUME NEW c \in Pollers, Refuse(c) PROVE Rest
  BY <1>2, <1>10, QuietStays DEF Refuse, PollerOnly, PollOnly
<1>11. ASSUME NEW c \in Pollers, FlushWork(c) PROVE Rest
  BY <1>2, <1>11, WorkIsFlushed
<1>12. ASSUME NEW c \in Pollers, FlushCompletion(c) PROVE Rest
  BY <1>2, <1>12, CompletionIsFlushed
<1>13. ASSUME NEW c \in Pollers, FlushFails(c) PROVE Rest
  BY <1>2, <1>13, QuietStays DEF FlushFails, PollerOnly, Leave
<1>14. ASSUME NEW c \in Pollers, WaitCredits(c) PROVE Rest
  BY <1>2, <1>14, CreditsTakenBack DEF WaitCredits, PollerOnly
<1>15. ASSUME NEW c \in Pollers, WaitTimeout(c) PROVE Rest
  BY <1>2, <1>15, QuietStays DEF WaitTimeout, PollerOnly, PollOnly
<1>16. ASSUME NEW c \in Pollers, WaitDisconnected(c) PROVE Rest
  BY <1>2, <1>16, QuietStays DEF WaitDisconnected, PollerOnly, Leave
<1>17. ASSUME NEW c \in Pollers, PollerGuard(c) PROVE Rest
  BY <1>2, <1>17, QuietStays DEF PollerGuard, PollerOnly, PollOnly
<1>18. ASSUME NEW c \in Pollers, PollError(c) PROVE Rest
  BY <1>2, <1>18, QuietStays DEF PollError, PollerOnly, PollOnly
<1>19. ASSUME NEW c \in Pollers, PollerPanic(c) PROVE Rest
  BY <1>2, <1>19, QuietStays DEF PollerPanic, PollerOnly
<1>20. ASSUME NEW w \in Workers, TakeWork(w) PROVE Rest
  BY <1>2, <1>20, WorkIsTaken
<1>21. ASSUME NEW w \in Workers, SendCompletion(w) PROVE Rest
  BY <1>2, <1>21, CompletionIsSent
<1>22. ASSUME NEW w \in Workers, SendCompletionFails(w) PROVE Rest
  BY <1>2, <1>22, BatchIsLost
<1>23. ASSUME NEW w \in Workers, WorkEnds(w) PROVE Rest
  <2>1. hold' = hold
    BY <1>23 DEF WorkEnds, SetWorker, IInv, Typed, ThreadsWell
  <2> QED
    BY <1>2, <1>23, <2>1, QuietStays DEF WorkEnds, WorkerOnly
<1>24. ASSUME NEW w \in Workers, WorkerGuard(w) PROVE Rest
  <2>1. hold' = hold
    BY <1>24 DEF WorkerGuard, SetWorker, IInv, Typed, ThreadsWell
  <2> QED
    BY <1>2, <1>24, <2>1, QuietStays DEF WorkerGuard, WorkerOnly
<1>25. ASSUME NEW w \in Workers, WorkerPanic(w) PROVE Rest
  BY <1>2, <1>25, BatchIsLost
<1>26. CASE StartPoller
  BY <1>2, <1>26, QuietStays DEF StartPoller, Starting
<1>27. CASE StartWorker
  BY <1>2, <1>27, QuietStays DEF StartWorker, Starting
<1>28. CASE BeginWriting
  BY <1>2, <1>28, QuietStays DEF BeginWriting, WriterOnly
<1>29. CASE TakeCompletion
  BY <1>2, <1>29, CompletionIsTaken
<1>30. CASE Order
  BY <1>2, <1>30, RecordRepeats, RecordIsOrdered
<1>31. CASE Direct
  BY <1>2, <1>31, RecordPasses
<1>32. CASE Write
  BY <1>2, <1>32, RecordIsWritten
<1>33. CASE ReturnCredits
  BY <1>2, <1>33, CreditsReturn
<1>34. CASE CloseWriter
  BY <1>2, <1>34, WriterCloses
<1>35. CASE FlushOutput
  BY <1>2, <1>35, QuietStays DEF FlushOutput, WriterOnly
<1>36. CASE Join
  BY <1>2, <1>36, QuietStays DEF Join, WriterOnly
<1>37. CASE PollerFailsToStart
  BY <1>2, <1>37, QuietStays DEF PollerFailsToStart, Starting
<1>38. CASE WorkerFailsToStart
  BY <1>2, <1>38, QuietStays DEF WorkerFailsToStart, Starting
<1>39. CASE WriterPanic
  BY <1>2, <1>39, QuietStays DEF WriterPanic, WriterOnly
<1>40. CASE ClaimSignal
  BY <1>2, <1>40, QuietStays DEF ClaimSignal, HandlerOnly
<1>41. CASE PublishShutdown
  BY <1>2, <1>41, QuietStays DEF PublishShutdown, HandlerOnly
<1>42. CASE UNCHANGED runVars
  BY <1>2, <1>42, QuietStays DEF runVars
<1> QED
  BY <1>3, <1>4, <1>5, <1>6, <1>7, <1>8, <1>9, <1>10, <1>11, <1>12, <1>13, <1>14, <1>15, <1>16, <1>17, <1>18, <1>19, <1>20, <1>21, <1>22, <1>23, <1>24, <1>25, <1>26, <1>27, <1>28, <1>29, <1>30, <1>31, <1>32, <1>33, <1>34, <1>35, <1>36, <1>37, <1>38, <1>39, <1>40, <1>41, <1>42
     DEF Next, Step, PollLoop, Deliver, WorkerLoop, RunPipeline, Fault

LEMMA IInvStarts == Init => IInv
<1> SUFFICES ASSUME Init PROVE IInv
  OBVIOUS
<1> USE DEF Init
<1>1. /\ \A i \in DOMAIN buf : buf[i] = <<>>
      /\ \A i \in DOMAIN hold : hold[i] = <<>>
      /\ \A c \in Pollers : releases[c] = <<>>
  OBVIOUS
<1>2. Recs(buf) = {} /\ Recs(hold) = {} /\ Flat(buf) /\ Flat(hold)
  BY <1>1, EmptyBatch DEF Recs, Flat
<1>3. \A s \in Places : Stage(s) = {}
  BY <1>1, <1>2, EmptyBatch, StageIs DEF Places
<1>4. Located = {} /\ \A p \in Partitions : Mine(p) = {}
  BY <1>3 DEF Located, Mine
<1>5. CreditsWell
  <2>1. /\ IsFiniteSet(Located) /\ Cardinality(Located) = 0
        /\ \A p \in Partitions : Cardinality(Mine(p)) = 0
    BY <1>4, FS_EmptySet
  <2>2. /\ records = 0 /\ \A p \in Partitions : inflight[p] = 0 /\ frontier[p] = 0 /\ next[p] = 0
    OBVIOUS
  <2> QED
    BY <1>4, <2>1, <2>2 DEF CreditsWell
<1>6. Apart
  BY <1>3 DEF Apart
<1>7. WritesWell
  BY DEF WritesWell
<1>8. BatchesWell
  BY <1>1, <1>2, EmptyBatch DEF BatchesWell, OneOwner
<1>9. ThreadsWell
  BY DEF ThreadsWell, Over, WriterGone, PartitionsOf
<1>10. Typed
  <2>1. \A S : <<>> \in Seq(S)
    BY EmptyBatch
  <2>2. 0 \in 0..MaxRecords /\ 0 \in 0..MaxPerPartition
    BY PipelineAssumption
  <2>3. /\ buf \in [Pollers -> Seq(RecordType)] /\ hold \in [Workers -> Seq(RecordType)]
        /\ written \in [Partitions -> Seq(Nat)]
        /\ releases \in [Pollers -> Seq(Seq(RecordType))]
        /\ {wbatch, ready, returned} \subseteq Seq(RecordType)
        /\ {work, completion} \subseteq Seq(Seq(RecordType))
    BY <2>1
  <2>4. /\ \A c \in Pollers : buf[c] \in Seq(RecordType) /\ releases[c] \in Seq(Seq(RecordType))
        /\ \A w \in Workers : hold[w] \in Seq(RecordType)
        /\ \A p \in Partitions : written[p] \in Seq(Nat)
    BY <2>1
  <2>5. /\ records \in 0..MaxRecords /\ inflight \in [Partitions -> 0..MaxPerPartition]
        /\ next \in [Partitions -> Nat] /\ frontier \in [Partitions -> Nat]
        /\ admitted \in Nat /\ spawned \in Nat
    BY <2>2
  <2> QED
    BY <2>3, <2>4, <2>5 DEF Typed, TypeOK
<1> QED
  BY <1>5, <1>6, <1>7, <1>8, <1>9, <1>10 DEF IInv

\* Every record a poller has admitted is in one place, and accounted for by one
\* credit, in every state of the pipeline.
THEOREM InductiveInvariant == Spec => []IInv
<1>1. IInv /\ UNCHANGED vars => IInv'
  <2> SUFFICES ASSUME IInv, UNCHANGED vars PROVE IInv'
    OBVIOUS
  <2> USE DEF vars, runVars, failVars, admissionVars, pollerVars, loopVars, workerVars,
              mainVars, writerVars
  <2>1. Unbroken' => Unbroken
    BY DEF Unbroken
  <2>2. BatchesWell' /\ Apart' /\ CreditsWell' /\ WritesWell'
    BY <2>1, QuietStays
  <2>3. Typed' /\ ThreadsWell'
    BY DEF IInv, Typed, TypeOK, ThreadsWell, Unbroken, Over, WriterGone, ParsesJson,
           PartitionsOf, Idle
  <2> QED
    BY <2>2, <2>3 DEF IInv
<1> QED
  BY IInvStarts, IInvStays, <1>1, PTL DEF Spec

-----------------------------------------------------------------------------
\* The promises about credits.

\* Where in each place a record is.
Spots(place, r) ==
    CASE place = "buf" -> In(r, buf)
      [] place = "work" -> In(r, work)
      [] place = "hold" -> In(r, hold)
      [] place = "completion" -> In(r, completion)
      [] place = "wbatch" -> {i \in DOMAIN wbatch : wbatch[i] = r}
      [] place = "reorder" -> {r} \intersect reorder
      [] place = "ready" -> {i \in DOMAIN ready : ready[i] = r}
      [] place = "returned" -> {i \in DOMAIN returned : returned[i] = r}
      [] place = "releases" -> {c \in Pollers : In(r, releases[c]) # {}}

LEMMA SpotsIs ==
    ASSUME NEW r
    PROVE  /\ Spots("buf", r) = In(r, buf) /\ Spots("work", r) = In(r, work)
           /\ Spots("hold", r) = In(r, hold) /\ Spots("completion", r) = In(r, completion)
           /\ Spots("wbatch", r) = {i \in DOMAIN wbatch : wbatch[i] = r}
           /\ Spots("reorder", r) = {r} \intersect reorder
           /\ Spots("ready", r) = {i \in DOMAIN ready : ready[i] = r}
           /\ Spots("returned", r) = {i \in DOMAIN returned : returned[i] = r}
           /\ Spots("releases", r) = {c \in Pollers : In(r, releases[c]) # {}}
  BY DEF Spots

LEMMA SpotsOfBatches ==
    ASSUME NEW f, NEW r
    PROVE  /\ In(r, f) # {} <=> r \in Recs(f)
           /\ Flat(f) => \A i, k \in In(r, f) : i = k
  BY DEF In, Recs, Flat

LEMMA SpotsOfBatch ==
    ASSUME NEW b, NEW r
    PROVE  /\ {i \in DOMAIN b : b[i] = r} # {} <=> r \in Range(b)
           /\ IsInjective(b) => \A i, k \in {j \in DOMAIN b : b[j] = r} : i = k
  BY DEF Range, IsInjective

LEMMA OneSpot ==
    ASSUME IInv, NEW r, NEW a \in Places
    PROVE  /\ Spots(a, r) # {} <=> r \in Stage(a)
           /\ \A i, k \in Spots(a, r) : i = k
<1>1. CASE a = "buf"
  BY <1>1, SpotsIs, StageIs, SpotsOfBatches DEF IInv, BatchesWell
<1>2. CASE a = "work"
  BY <1>2, SpotsIs, StageIs, SpotsOfBatches DEF IInv, BatchesWell
<1>3. CASE a = "hold"
  BY <1>3, SpotsIs, StageIs, SpotsOfBatches DEF IInv, BatchesWell
<1>4. CASE a = "completion"
  BY <1>4, SpotsIs, StageIs, SpotsOfBatches DEF IInv, BatchesWell
<1>5. CASE a = "wbatch"
  BY <1>5, SpotsIs, StageIs, SpotsOfBatch DEF IInv, BatchesWell
<1>6. CASE a = "reorder"
  BY <1>6, SpotsIs, StageIs
<1>7. CASE a = "ready"
  BY <1>7, SpotsIs, StageIs, SpotsOfBatch DEF IInv, BatchesWell
<1>8. CASE a = "returned"
  BY <1>8, SpotsIs, StageIs, SpotsOfBatch DEF IInv, BatchesWell
<1>9. CASE a = "releases"
  <2>1. Spots(a, r) = {c \in Pollers : r \in Recs(releases[c])}
    BY <1>9, SpotsIs, SpotsOfBatches
  <2>2. \A c \in Pollers : r \in Recs(releases[c]) => Owner(r) = c
    BY DEF IInv, BatchesWell
  <2> QED
    BY <1>9, <2>1, <2>2, LocatedIs
<1> QED
  BY <1>1, <1>2, <1>3, <1>4, <1>5, <1>6, <1>7, <1>8, <1>9 DEF Places

LEMMA StationsAre ==
    ASSUME NEW r
    PROVE  Stations(r) = UNION {{a} \X Spots(a, r) : a \in Places}
<1>1. ASSUME NEW x \in Stations(r) PROVE \E a \in Places : x \in {a} \X Spots(a, r)
  BY SpotsIs DEF Stations, Places
<1>2. ASSUME NEW a \in Places, NEW x \in {a} \X Spots(a, r) PROVE x \in Stations(r)
  BY SpotsIs DEF Stations, Places
<1> QED
  BY <1>1, <1>2

LEMMA OneStation ==
    ASSUME IInv, NEW r
    PROVE  /\ Stations(r) # {} <=> r \in Located
           /\ \A a \in Places : (\E x \in Stations(r) : x[1] = a) <=> r \in Stage(a)
           /\ Cardinality(Stations(r)) <= 1
<1>1. ASSUME NEW a \in Places PROVE (\E x \in Stations(r) : x[1] = a) <=> r \in Stage(a)
  <2>1. ASSUME NEW x \in Stations(r), x[1] = a PROVE r \in Stage(a)
    <3>1. PICK b \in Places : x \in {b} \X Spots(b, r)
      BY StationsAre
    <3> QED
      BY <2>1, <3>1, OneSpot
  <2>2. ASSUME r \in Stage(a) PROVE \E x \in Stations(r) : x[1] = a
    <3>1. PICK i : i \in Spots(a, r)
      BY <2>2, OneSpot
    <3>2. <<a, i>> \in Stations(r)
      BY <3>1, StationsAre
    <3> QED
      BY <3>2
  <2> QED
    BY <2>1, <2>2
<1>2. Stations(r) # {} <=> r \in Located
  <2>1. \A x \in Stations(r) : x[1] \in Places
    BY StationsAre
  <2> QED
    BY <1>1, <2>1, LocatedIs
<1>3. ASSUME NEW x \in Stations(r), NEW y \in Stations(r) PROVE x = y
  <2>1. PICK a \in Places : x \in {a} \X Spots(a, r)
    BY StationsAre
  <2>2. PICK b \in Places : y \in {b} \X Spots(b, r)
    BY StationsAre
  <2>3. r \in Stage(a) /\ r \in Stage(b)
    BY <2>1, <2>2, OneSpot
  <2>4. a = b
    BY <2>3 DEF IInv, Apart
  <2> QED
    BY <2>1, <2>2, <2>4, OneSpot
<1>4. Cardinality(Stations(r)) <= 1
  <2>1. CASE Stations(r) = {}
    BY <2>1, FS_EmptySet
  <2>2. CASE Stations(r) # {}
    <3>1. PICK x : x \in Stations(r)
      BY <2>2
    <3>2. Stations(r) = {x}
      BY <1>3, <3>1
    <3>3. Cardinality({x}) = 1
      BY FS_Singleton
    <3> QED
      BY <3>2, <3>3
  <2> QED
    BY <2>1, <2>2
<1> QED
  BY <1>1, <1>2, <1>4

LEMMA HeldAre ==
    ASSUME IInv
    PROVE  /\ \A p \in Partitions : Cardinality(Held(p)) = Cardinality(Mine(p))
           /\ HeldAll = Located
<1>1. \A r \in Located : /\ r = <<r[1], r[2]>> /\ r[1] \in Partitions
                        /\ r[2] \in 0..(next[r[1]] - 1)
  <2>1. \A r \in Located : r \in RecordType /\ r[2] < next[r[1]]
    BY DEF IInv, CreditsWell
  <2>2. \A p \in Partitions : next[p] \in Nat
    BY DEF IInv, Typed, TypeOK
  <2> QED
    BY <2>1, <2>2 DEF RecordType
<1>2. \A p, s : Stations(<<p, s>>) # {} <=> <<p, s>> \in Located
  BY OneStation
<1>3. ASSUME NEW p \in Partitions PROVE Cardinality(Held(p)) = Cardinality(Mine(p))
  <2> DEFINE g == [r \in Mine(p) |-> r[2]]
  <2>1. g \in Bijection(Mine(p), Held(p))
    <3>1. g \in [Mine(p) -> Held(p)]
      BY <1>1, <1>2 DEF Mine, Held
    <3>2. IsInjective(g)
      BY <1>1 DEF Mine, IsInjective
    <3>3. \A s \in Held(p) : <<p, s>> \in Mine(p) /\ g[<<p, s>>] = s
      BY <1>2 DEF Mine, Held
    <3> HIDE DEF g
    <3> QED
      BY <3>1, <3>2, <3>3 DEF Bijection, Injection, Surjection
  <2>2. IsFiniteSet(Mine(p))
    BY FS_Subset DEF Mine, IInv, CreditsWell
  <2> QED
    BY <2>1, <2>2, FS_Bijection DEF ExistsBijection
<1>4. HeldAll = Located
  <2>1. ASSUME NEW x \in HeldAll PROVE x \in Located
    <3>1. PICK p \in Partitions : x \in {p} \X Held(p)
      BY DEF HeldAll
    <3>2. PICK s \in Held(p) : x = <<p, s>>
      BY <3>1
    <3> QED
      BY <1>2, <3>2 DEF Held
  <2>2. ASSUME NEW x \in Located PROVE x \in HeldAll
    BY <1>1, <1>2, <2>2 DEF HeldAll, Held
  <2> QED
    BY <2>1, <2>2
<1> QED
  BY <1>3, <1>4

\* A credit is neither lost nor returned twice, whatever is buffered, batched,
\* reordered or fails.
THEOREM EveryCreditIsHeld == Spec => []CreditsConserved
<1>1. IInv => CreditsConserved
  <2> SUFFICES ASSUME IInv PROVE CreditsConserved
    OBVIOUS
  <2>1. \A r : Cardinality(Stations(r)) <= 1
    BY OneStation
  <2>2. /\ \A p \in Partitions : Cardinality(Held(p)) = Cardinality(Mine(p))
        /\ HeldAll = Located
    BY HeldAre
  <2>3. TypeOK /\ CreditsWell
    BY DEF IInv, Typed
  <2> QED
    BY <2>1, <2>2, <2>3 DEF CreditsConserved, CreditsWell
<1> QED
  BY <1>1, InductiveInvariant, PTL

\* A credit returns only once its record is written or dropped, unless the run
\* has failed.
THEOREM WritesComeFirst == Spec => []CreditsOutliveWrites
<1>1. IInv => CreditsOutliveWrites
  <2> SUFFICES ASSUME IInv, Unbroken, NEW p \in Partitions, NEW s \in 0..(next[p] - 1),
                      s \notin Range(written[p])
               PROVE  /\ Stations(<<p, s>>) # {}
                      /\ \A x \in Stations(<<p, s>>) : x[1] \notin {"returned", "releases"}
    BY DEF CreditsOutliveWrites
  <2> DEFINE r == <<p, s>>
  <2> HIDE DEF r
  <2>1. r \in Upstream
    BY DEF IInv, WritesWell, r
  <2>2. PICK a \in Places \ {"returned", "releases"} : r \in Stage(a)
    BY <2>1, LocatedIs
  <2>3. Stations(r) # {}
    BY <2>2, OneStation
  <2>4. "returned" \in Places /\ "releases" \in Places
    BY DEF Places
  <2>5. r \notin Stage("returned") /\ r \notin Stage("releases")
    BY <2>2, <2>4 DEF IInv, Apart
  <2>6. \A x \in Stations(r) : x[1] \notin {"returned", "releases"}
    BY <2>4, <2>5, OneStation
  <2> QED
    BY <2>3, <2>6 DEF r
<1> QED
  BY <1>1, InductiveInvariant, PTL

\* While the writer has a record of a poller, that poller's release channel has
\* room: each batch in it holds at least one credit, and the record another.
THEOREM ReleaseHasRoom == Spec => []WriterNeverWaits
<1>1. IInv => WriterNeverWaits
  <2> SUFFICES ASSUME IInv, NEW c \in Pollers,
                      NEW r \in Range(wbatch) \union Range(ready) \union Range(returned)
                                \union reorder
               PROVE  Len(releases[c]) < MaxRecords
    BY DEF WriterNeverWaits
  <2> DEFINE ss == releases[c]
             n == Len(ss)
             first == [i \in 1..n |-> ss[i][1]]
  <2>1. /\ ss \in Seq(Seq(RecordType)) /\ Flat(ss) /\ n \in Nat /\ DOMAIN ss = 1..n
        /\ \A i \in 1..n : ss[i] # <<>> /\ ss[i] \in Seq(RecordType)
    <3>1. ss \in Seq(Seq(RecordType)) /\ Flat(ss) /\ \A i \in DOMAIN ss : ss[i] # <<>>
      BY DEF IInv, Typed, TypeOK, BatchesWell
    <3> HIDE DEF ss
    <3> QED
      BY <3>1, SeqFacts
  <2>2. r \in Located /\ r \notin Stage("releases")
    <3>1. PICK a \in Places \ {"releases"} : r \in Stage(a)
      BY StageIs DEF Places
    <3>2. "releases" \in Places
      BY DEF Places
    <3> QED
      BY <3>1, <3>2, LocatedIs DEF IInv, Apart
  <2>3. Recs(ss) \subseteq Located \ {r}
    BY <2>2, LocatedIs DEF Places
  <2> HIDE DEF ss
  <2>4. \A i \in 1..n : first[i] \in Range(ss[i]) /\ first[i] \in Recs(ss)
    <3>1. \A i \in 1..n : 1 \in DOMAIN ss[i]
      BY <2>1, SeqFacts
    <3>2. ASSUME NEW i \in 1..n PROVE ss[i][1] \in Range(ss[i]) /\ ss[i][1] \in Recs(ss)
      BY <2>1, <3>1 DEF Range, Recs
    <3> QED
      BY <3>2
  <2>5. first \in Injection(1..n, Located \ {r})
    <3>1. first \in [1..n -> Located \ {r}]
      BY <2>3, <2>4
    <3>2. IsInjective(first)
      BY <2>1, <2>4 DEF Flat, IsInjective
    <3> QED
      BY <3>1, <3>2 DEF Injection
  <2>6. /\ IsFiniteSet(Located) /\ IsFiniteSet(Located \ {r})
        /\ Cardinality(Located \ {r}) = Cardinality(Located) - 1
        /\ Cardinality(Located) \in Nat
    BY <2>2, FS_RemoveElement, FS_CardinalityType DEF IInv, CreditsWell
  <2>7. Cardinality(1..n) <= Cardinality(Located \ {r}) /\ Cardinality(1..n) = n
    <3>1. Cardinality(1..n) <= Cardinality(Located \ {r})
      BY <2>5, <2>6, FS_Injection
    <3>2. Cardinality(1..n) = n
      <4> HIDE DEF n
      <4>1. Cardinality(1..n) = IF 1 > n THEN 0 ELSE n - 1 + 1
        BY <2>1, FS_Interval
      <4> QED
        BY <2>1, <4>1
    <3> QED
      BY <3>1, <3>2
  <2>8. Cardinality(Located) <= records /\ records \in 0..MaxRecords /\ MaxRecords \in Nat
    BY PipelineAssumption DEF IInv, CreditsWell, Typed, TypeOK
  <2>9. n < MaxRecords
    BY <2>1, <2>6, <2>7, <2>8
  <2> QED
    BY <2>9 DEF ss
<1> QED
  BY <1>1, InductiveInvariant, PTL

-----------------------------------------------------------------------------
\* What a run writes.

\* The places ahead of the records that are ready to be written.
Unordered == {"buf", "work", "hold", "completion", "wbatch", "reorder"}
Ahead == UNION {Stage(place) : place \in Unordered}

InOrder(s) == \A i \in DOMAIN s : s[i] = i - 1
Rising(s) == \A i, j \in DOMAIN s : i < j /\ s[i][1] = s[j][1] => s[i][2] < s[j][2]
Before(S, T) == \A q \in S, r \in T : q[1] = r[1] => q[2] < r[2]

\* The run: when it has a result, and what has been admitted.
RunWell ==
    /\ main # "finished" => result = None
    /\ main = "finished" => \A c \in Pollers : poller[c] \in {"exit", "unstarted"}
    /\ main \in {"pollers", "workers", "started"} => wfail = None
    /\ \A p \in Partitions : next[p] <= Len(Log[p])
    /\ \A c \in Pollers : pending[c] # NoPartition => next[pending[c]] < Len(Log[pending[c]])

\* What is written was admitted, and is nowhere else.
WrittenWell ==
    \A p \in Partitions :
        /\ IsInjective(written[p])
        /\ \A s \in Range(written[p]) : s < next[p] /\ <<p, s>> \notin Upstream

\* Ordered: the frontier of a partition separates what is ready or written
\* from what is not, and until the writer fails the two are in order.
ReadyOf(p) == IF ready # <<>> /\ ready[1][1] = p THEN Len(ready) ELSE 0
OrderedWell ==
    Ordered =>
        /\ \A r \in Ahead : frontier[r[1]] <= r[2]
        /\ \A r \in reorder : r[2] # frontier[r[1]]
        /\ \A p \in Partitions : \A s \in Range(written[p]) : s < frontier[p]
        /\ wfail = None =>
            /\ \A p \in Partitions :
                InOrder(written[p]) /\ Len(written[p]) + ReadyOf(p) = frontier[p]
            /\ \A i \in DOMAIN ready :
                ready[i] = <<ready[1][1], Len(written[ready[1][1]]) + i - 1>>

\* Without workers a record keeps its place in line, and the line leaves no
\* gap until the writer fails.
Line == Range(ready) \union Range(wbatch) \union Recs(completion) \union Recs(buf)
LineRises ==
    /\ Len(ready) <= 1 /\ Rising(wbatch)
    /\ \A c \in Pollers : Rising(buf[c])
    /\ \A i \in DOMAIN completion : Rising(completion[i])
LineKeeps ==
    /\ \A i, j \in DOMAIN completion : i < j => Before(Range(completion[i]), Range(completion[j]))
    /\ Before(Range(ready), Range(wbatch))
    /\ Before(Range(ready) \union Range(wbatch), Recs(completion))
    /\ Before(Range(ready) \union Range(wbatch) \union Recs(completion), Recs(buf))
LineFull ==
    wfail = None =>
        \A p \in Partitions :
            /\ InOrder(written[p])
            /\ \A s \in 0..(next[p] - 1) : s < Len(written[p]) \/ <<p, s>> \in Line
DirectWell ==
    /\ ~Ordered => reorder = {}
    /\ mode = "direct" => work = <<>> /\ LineRises /\ LineKeeps /\ LineFull

\* A poller keeps its sender until it has sent everything, and the stages
\* behind it end only then.
SendersWell ==
    \A c \in Pollers :
        /\ poller[c] \in {"poll", "reserve", "flush"} => open[c]
        /\ ~open[c] => stopping[c] \/ poller[c] \in {"exit", "panicked", "unstarted"}
        /\ poller[c] = "flush" /\ after[c] = "drain" => stopping[c]
SentWell(c) ==
    /\ poller[c] # "unstarted"
    /\ ~open[c] => buf[c] = <<>>
    /\ poller[c] = "wait" => open[c] \/ ~Idle(c)
EndsWell ==
    /\ \A w \in Workers :
        /\ worker[w] # "unstarted"
        /\ worker[w] = "exit" => work = <<>> /\ \A c \in Pollers : ~open[c]
    /\ main \in {"flushing", "joining", "finished"} =>
        /\ \A c \in Pollers : ~open[c]
        /\ work = <<>> /\ completion = <<>> /\ wbatch = <<>> /\ ready = <<>>
        /\ returned = <<>> /\ reorder = {}
OpenWell ==
    /\ SendersWell
    /\ Unbroken => EndsWell /\ \A c \in Pollers : SentWell(c)

\* Nothing that fails on its own.
Healthy == Faults \subseteq {"signal"} /\ \A p \in Partitions : "fatal" \notin Range(Log[p])
HealthWell == Healthy => Unbroken /\ wfail = None

\* Why a poller stops, and what has then been read and admitted.
Taken == UNION {{p} \X (1..next[p]) : p \in Partitions}
StopsWell ==
    /\ shutdown => firstFailure # None \/ signal # None
    /\ \A c \in Pollers :
        /\ poller[c] = "poll" => pending[c] = NoPartition
        /\ pending[c] \notin finished
        /\ stopping[c] /\ firstFailure = None /\ signal = None
            => CountReached \/ PartitionsOf(c) \subseteq finished
        /\ poller[c] = "exit" /\ Unbroken => stopping[c]
ReadWell ==
    \A p \in Partitions :
        /\ CountPerPartition # NoCount => next[p] <= CountPerPartition
        /\ p \notin finished /\ CountPerPartition # NoCount => next[p] < CountPerPartition
        /\ p \in finished =>
            next[p] = Len(Log[p]) \/ (CountPerPartition # NoCount /\ next[p] = CountPerPartition)
CountWell ==
    CountLimit # NoCount =>
        IsFiniteSet(Taken) /\ admitted = Cardinality(Taken) /\ admitted <= CountLimit
FinishWell == StopsWell /\ ReadWell /\ CountWell

OInv ==
    /\ RunWell /\ WrittenWell /\ OrderedWell /\ DirectWell
    /\ OpenWell /\ HealthWell /\ FinishWell

-----------------------------------------------------------------------------
\* The threads.

LEMMA RunStays ==
    ASSUME IInv, RunWell, Next
    PROVE  RunWell'
<1> USE DEF failVars, admissionVars, pollerVars, loopVars, workerVars, mainVars, writerVars,
            Fail, Goto, RunWell
<1>1. /\ poller \in [Pollers -> {"unborn", "top", "poll", "reserve", "flush", "wait",
                                "panicked", "exit", "unstarted"}]
      /\ pending \in [Pollers -> Partitions \union {NoPartition}]
      /\ next \in [Partitions -> Nat]
      /\ \A c \in Pollers : pending[c] \in PartitionsOf(c) \union {NoPartition}
      /\ \A c \in Pollers : poller[c] = "reserve" => pending[c] # NoPartition
  BY DEF IInv, Typed, TypeOK, ThreadsWell
<1>2. \A p \in Partitions : Len(Log[p]) \in Nat
  BY PipelineAssumption
<1>3. ASSUME NEW c \in Pollers, DrainRelease(c) \/ FlushFails(c) \/ WaitCredits(c) \/
      WaitTimeout(c) \/ WaitDisconnected(c) \/ PollerGuard(c) PROVE RunWell'
  BY <1>1, <1>2, <1>3
     DEF DrainRelease, PollerOnly, TakeCredits, FlushFails, Leave, WaitCredits,
     WaitTimeout, PollOnly, WaitDisconnected, PollerGuard, PartitionsOf
<1>4. ASSUME NEW c \in Pollers, CheckStop(c) PROVE RunWell'
  BY <1>1, <1>2, <1>4
     DEF CheckStop, PollerOnly, PartitionsOf
<1>5. ASSUME NEW c \in Pollers, PollRecord(c) PROVE RunWell'
  BY <1>1, <1>2, <1>5
     DEF PollRecord, PollerOnly, PollOnly, PartitionsOf
<1>6. ASSUME NEW c \in Pollers, PollEnd(c) \/ PollDone(c) \/ PollTimeout(c) \/
      Refuse(c) \/ PollError(c) \/ PollerPanic(c) PROVE RunWell'
  BY <1>1, <1>2, <1>6
     DEF PollEnd, PollerOnly, PollOnly, GoIdle, PollDone, PollTimeout, Polling, Refuse,
     PollError, PollerPanic, PartitionsOf
<1>7. ASSUME NEW c \in Pollers, Admit(c) PROVE RunWell'
  BY <1>1, <1>2, <1>7, SMTT(30)
     DEF Admit, PollerOnly, PartitionsOf
<1>8. ASSUME NEW c \in Pollers, FlushWork(c) \/ FlushCompletion(c) PROVE RunWell'
  BY <1>1, <1>2, <1>8
     DEF FlushWork, PollerOnly, FlushSent, FlushCompletion, PartitionsOf
<1>9. ASSUME NEW w \in Workers, TakeWork(w) \/ SendCompletion(w) \/
      SendCompletionFails(w) \/ WorkEnds(w) \/ WorkerGuard(w) \/ WorkerPanic(w) PROVE
      RunWell'
  BY <1>1, <1>2, <1>9
     DEF TakeWork, SetWorker, WorkerOnly, SendCompletion, SendCompletionFails,
     WorkEnds, WorkerGuard, WorkerPanic
<1>10. CASE StartPoller \/ StartWorker \/ PollerFailsToStart \/ WorkerFailsToStart
  BY <1>1, <1>2, <1>10
     DEF StartPoller, Starting, StartWorker, PollerFailsToStart, WorkerFailsToStart
<1>11. CASE BeginWriting \/ TakeCompletion \/ Order \/ Direct \/ Write \/ ReturnCredits
  BY <1>1, <1>2, <1>11
     DEF BeginWriting, WriterOnly, TakeCompletion, Resting, Order, WriterFails, Direct,
     Write, ReturnCredits
<1>12. CASE CloseWriter \/ FlushOutput \/ Join \/ WriterPanic
  BY <1>1, <1>2, <1>12
     DEF CloseWriter, WriterOnly, WriterFails, Resting, FlushOutput, Join, WriterPanic
<1>13. CASE ClaimSignal \/ PublishShutdown
  BY <1>1, <1>2, <1>13
     DEF ClaimSignal, HandlerOnly, PublishShutdown
<1>14. CASE UNCHANGED runVars
  BY <1>1, <1>2, <1>14
     DEF runVars
<1> QED
  BY <1>3, <1>4, <1>5, <1>6, <1>7, <1>8, <1>9, <1>10, <1>11, <1>12, <1>13, <1>14
     DEF Next, Step, PollLoop, Deliver, WorkerLoop, RunPipeline, Fault

\* Credits are only taken back by the poller they belong to.
LEMMA OthersKeepCredits ==
    ASSUME IInv, NEW c \in Pollers, releases[c] # <<>>, TakeCredits(c),
           NEW p \in Partitions, Assigned[p] # c
    PROVE  inflight'[p] = inflight[p]
<1> DEFINE batch == Head(releases[c])
           mine == {i \in DOMAIN batch : batch[i][1] = p}
<1>1. Range(batch) \subseteq Recs(releases[c]) /\ \A r \in Recs(releases[c]) : Owner(r) = c
  BY FlatTail DEF IInv, Typed, BatchesWell
<1>2. inflight'[p] = inflight[p] - Cardinality(mine)
  BY DEF TakeCredits
<1> HIDE DEF batch
<1>3. mine = {}
  BY <1>1 DEF Range, Owner
<1> HIDE DEF mine
<1>4. inflight[p] \in Int /\ Cardinality(mine) = 0
  BY <1>3, FS_EmptySet DEF IInv, Typed, TypeOK
<1> QED
  BY <1>2, <1>4

LEMMA ThreadTypes ==
    ASSUME IInv
    PROVE  /\ poller \in [Pollers -> {"unborn", "top", "poll", "reserve", "flush", "wait",
                                     "panicked", "exit", "unstarted"}]
           /\ after \in [Pollers -> {"top", "wait", "drain"}]
           /\ stopping \in [Pollers -> BOOLEAN] /\ open \in [Pollers -> BOOLEAN]
           /\ worker \in [Workers -> {"unborn", "recv", "busy", "panicked", "exit", "unstarted"}]
           /\ buf \in [Pollers -> Seq(RecordType)]
  BY DEF IInv, Typed, TypeOK

LEMMA SendersStay ==
    ASSUME IInv, SendersWell, Next
    PROVE  SendersWell'
<1> USE DEF failVars, admissionVars, pollerVars, loopVars, workerVars, mainVars, writerVars,
            Fail, Goto, SendersWell
<1>1. /\ poller \in [Pollers -> {"unborn", "top", "poll", "reserve", "flush", "wait",
                                "panicked", "exit", "unstarted"}]
      /\ after \in [Pollers -> {"top", "wait", "drain"}]
      /\ stopping \in [Pollers -> BOOLEAN] /\ open \in [Pollers -> BOOLEAN]
  BY ThreadTypes
<1>2. ASSUME NEW c \in Pollers, DrainRelease(c) \/ WaitCredits(c) PROVE SendersWell'
  BY <1>1, <1>2
     DEF DrainRelease, PollerOnly, TakeCredits, WaitCredits
<1>3. ASSUME NEW c \in Pollers, CheckStop(c) PROVE SendersWell'
  BY <1>1, <1>3
     DEF CheckStop, PollerOnly
<1>4. ASSUME NEW c \in Pollers, PollRecord(c) PROVE SendersWell'
  BY <1>1, <1>4
     DEF PollRecord, PollerOnly, PollOnly
<1>5. ASSUME NEW c \in Pollers, PollEnd(c) \/ PollTimeout(c) PROVE SendersWell'
  BY <1>1, <1>5
     DEF PollEnd, PollerOnly, PollOnly, GoIdle, PollTimeout, Polling
<1>6. ASSUME NEW c \in Pollers, PollDone(c) \/ WaitTimeout(c) PROVE SendersWell'
  BY <1>1, <1>6
     DEF PollDone, PollerOnly, PollOnly, WaitTimeout
<1>7. ASSUME NEW c \in Pollers, PollError(c) \/ PollerPanic(c) \/ PollerGuard(c) PROVE
      SendersWell'
  BY <1>1, <1>7
     DEF PollError, PollerOnly, PollOnly, Polling, PollerPanic, PollerGuard
<1>8. ASSUME NEW c \in Pollers, FlushFails(c) \/ WaitDisconnected(c) PROVE SendersWell'
  BY <1>1, <1>8
     DEF FlushFails, PollerOnly, Leave, WaitDisconnected
<1>9. ASSUME NEW c \in Pollers, Admit(c) PROVE SendersWell'
  BY <1>1, <1>9
     DEF Admit, PollerOnly
<1>10. ASSUME NEW c \in Pollers, Refuse(c) PROVE SendersWell'
  BY <1>1, <1>10
     DEF Refuse, PollerOnly, PollOnly
<1>11. ASSUME NEW c \in Pollers, FlushWork(c) \/ FlushCompletion(c) PROVE SendersWell'
  BY <1>1, <1>11
     DEF FlushWork, PollerOnly, FlushSent, FlushCompletion
<1>12. ASSUME NEW w \in Workers, TakeWork(w) \/ SendCompletion(w) \/
      SendCompletionFails(w) \/ WorkEnds(w) \/ WorkerGuard(w) \/ WorkerPanic(w) PROVE
      SendersWell'
  BY <1>1, <1>12
     DEF TakeWork, SetWorker, WorkerOnly, SendCompletion, SendCompletionFails,
     WorkEnds, WorkerGuard, WorkerPanic
<1>13. CASE StartWorker \/ WorkerFailsToStart
  BY <1>1, <1>13
     DEF StartWorker, Starting, WorkerFailsToStart
<1>14. CASE StartPoller
  <2>1. /\ poller' = [poller EXCEPT ![spawned + 1] = "top"]
        /\ UNCHANGED <<after, stopping, open>> /\ spawned \in Nat
        /\ \A c \in Pollers : c > spawned => poller[c] = "unborn"
    BY <1>14 DEF StartPoller, Starting, IInv, Typed, TypeOK, ThreadsWell
  <2>2. \A c \in Pollers :
          poller'[c] = poller[c] \/ (poller'[c] = "top" /\ poller[c] = "unborn")
    BY <1>1, <2>1 DEF Pollers
  <2> QED
    BY <1>1, <2>1, <2>2
<1>15. CASE PollerFailsToStart
  <2>1. /\ UNCHANGED <<after, stopping>>
        /\ \A c \in Pollers : c > spawned => poller[c] = "unborn"
        /\ poller' = [c \in Pollers |-> IF c > spawned THEN "unstarted" ELSE poller[c]]
        /\ open' = [c \in Pollers |-> c <= spawned /\ open[c]] /\ spawned \in Nat
    BY <1>15 DEF PollerFailsToStart, Starting, IInv, Typed, TypeOK, ThreadsWell
  <2>2. \A c \in Pollers :
          \/ poller'[c] = "unstarted" /\ ~open'[c]
          \/ poller'[c] = poller[c] /\ open'[c] = open[c]
    <3> TAKE c \in Pollers
    <3>1. CASE c > spawned
      <4>1. ~(c <= spawned)
        BY <2>1, <3>1 DEF Pollers
      <4> QED
        BY <2>1, <3>1, <4>1
    <3>2. CASE ~(c > spawned)
      <4>1. c <= spawned
        BY <2>1, <3>2 DEF Pollers
      <4>2. open'[c] = (c <= spawned /\ open[c])
        BY <2>1
      <4> QED
        BY <1>1, <2>1, <3>2, <4>1, <4>2
    <3> QED
      BY <3>1, <3>2
  <2> QED
    BY <1>1, <2>1, <2>2
<1>16. CASE BeginWriting \/ TakeCompletion \/ Order \/ Direct \/ Write \/ ReturnCredits
  BY <1>1, <1>16
     DEF BeginWriting, WriterOnly, TakeCompletion, Resting, Order, WriterFails, Direct,
     Write, ReturnCredits
<1>17. CASE CloseWriter \/ FlushOutput \/ Join \/ WriterPanic
  BY <1>1, <1>17
     DEF CloseWriter, WriterOnly, WriterFails, Resting, FlushOutput, Join, WriterPanic
<1>18. CASE ClaimSignal \/ PublishShutdown
  BY <1>1, <1>18
     DEF ClaimSignal, HandlerOnly, PublishShutdown
<1>19. CASE UNCHANGED runVars
  BY <1>1, <1>19
     DEF runVars
<1> QED
  BY <1>2, <1>3, <1>4, <1>5, <1>6, <1>7, <1>8, <1>9, <1>10, <1>11, <1>12, <1>13, <1>14,
     <1>15, <1>16, <1>17, <1>18, <1>19
     DEF Next, Step, PollLoop, Deliver, WorkerLoop, RunPipeline, Fault

\* The writer's channel closes only when the stages behind it are empty.
LEMMA ClosedIsEmpty ==
    ASSUME IInv, OpenWell, DirectWell, Unbroken, CompletionClosed
    PROVE  /\ work = <<>> /\ \A c \in Pollers : ~open[c]
           /\ \A w \in Workers : worker[w] # "busy"
<1>1. EndsWell
  BY DEF OpenWell
<1>2. CASE mode = "direct"
  BY <1>2 DEF CompletionClosed, ParsesJson, DirectWell, IInv, ThreadsWell
<1>3. CASE mode # "direct"
  <2>1. 1 \in Workers
    BY PipelineAssumption DEF Workers
  <2>2. \A w \in Workers : worker[w] = "exit"
    BY <1>1, <1>3 DEF CompletionClosed, ParsesJson, WorkersGone, Over, EndsWell, Unbroken
  <2> QED
    BY <1>1, <2>1, <2>2 DEF EndsWell
<1> QED
  BY <1>2, <1>3

LEMMA NothingHeld ==
    ASSUME IInv, OpenWell, Unbroken, \A c \in Pollers : ~open[c],
           \A w \in Workers : worker[w] # "busy"
    PROVE  Stage("buf") = {} /\ Stage("hold") = {}
<1>1. \A c \in DOMAIN buf : Range(buf[c]) = {}
  BY EmptyBatch DEF OpenWell, SentWell, IInv, Typed
<1>2. \A w \in DOMAIN hold : Range(hold[w]) = {}
  BY EmptyBatch DEF IInv, Typed, ThreadsWell
<1>3. Recs(buf) = {} /\ Recs(hold) = {}
  BY <1>1, <1>2 DEF Recs
<1> QED
  BY <1>3, StageIs

LEMMA EndsStay ==
    ASSUME IInv, OpenWell, DirectWell, Next, Unbroken'
    PROVE  EndsWell'
<1> USE DEF failVars, admissionVars, pollerVars, loopVars, workerVars, mainVars, writerVars,
            Fail, Goto, EndsWell
<1>1. /\ EndsWell /\ SendersWell
      /\ firstFailure' = None /\ None \notin {"startup", "runtime", "output"}
      /\ \A w \in Workers : worker[w] # "panicked" /\ worker'[w] # "panicked"
  BY UnbrokenStays DEF Unbroken, OpenWell, None
<1>2. /\ open \in [Pollers -> BOOLEAN]
      /\ worker \in [Workers -> {"unborn", "recv", "busy", "panicked", "exit", "unstarted"}]
      /\ WriterGone \/ main = "flushing" => \A w \in Workers : worker[w] \notin {"recv", "busy"}
  BY ThreadTypes, UnbrokenStays DEF IInv, ThreadsWell
<1>5. ASSUME NEW c \in Pollers, DrainRelease(c) \/ WaitCredits(c) PROVE EndsWell'
  BY <1>1, <1>2, <1>5
     DEF DrainRelease, PollerOnly, TakeCredits, WaitCredits
<1>6. ASSUME NEW c \in Pollers, CheckStop(c) PROVE EndsWell'
  BY <1>1, <1>2, <1>6
     DEF CheckStop, PollerOnly
<1>7. ASSUME NEW c \in Pollers, PollRecord(c) PROVE EndsWell'
  BY <1>1, <1>2, <1>7
     DEF PollRecord, PollerOnly, PollOnly
<1>8. ASSUME NEW c \in Pollers, PollEnd(c) \/ PollTimeout(c) PROVE EndsWell'
  BY <1>1, <1>2, <1>8
     DEF PollEnd, PollerOnly, PollOnly, GoIdle, PollTimeout, Polling
<1>9. ASSUME NEW c \in Pollers, PollDone(c) \/ WaitTimeout(c) PROVE EndsWell'
  BY <1>1, <1>2, <1>9
     DEF PollDone, PollerOnly, PollOnly, WaitTimeout
<1>10. ASSUME NEW c \in Pollers, PollError(c) \/ PollerGuard(c) PROVE EndsWell'
  BY <1>1, <1>2, <1>10
     DEF PollError, PollerOnly, PollOnly, Polling, PollerGuard
<1>11. ASSUME NEW c \in Pollers, FlushFails(c) \/ WaitDisconnected(c) PROVE EndsWell'
  BY <1>1, <1>2, <1>11
     DEF FlushFails, PollerOnly, Leave, WaitDisconnected
<1>12. ASSUME NEW c \in Pollers, Admit(c) PROVE EndsWell'
  BY <1>1, <1>2, <1>12
     DEF Admit, PollerOnly
<1>13. ASSUME NEW c \in Pollers, Refuse(c) \/ PollerPanic(c) PROVE EndsWell'
  BY <1>1, <1>2, <1>13
     DEF Refuse, PollerOnly, PollOnly, PollerPanic, Polling
<1>14. ASSUME NEW c \in Pollers, FlushWork(c) PROVE EndsWell'
  BY <1>1, <1>2, <1>14
     DEF FlushWork, PollerOnly, FlushSent, SendersWell
<1>15. ASSUME NEW c \in Pollers, FlushCompletion(c) PROVE EndsWell'
  BY <1>1, <1>2, <1>15
     DEF FlushCompletion, PollerOnly, FlushSent, SendersWell
<1>16. ASSUME NEW w \in Workers, TakeWork(w) \/ SendCompletion(w) PROVE EndsWell'
  BY <1>1, <1>2, <1>16
     DEF WriterGone, TakeWork, SetWorker, WorkerOnly, SendCompletion
<1>17. ASSUME NEW w \in Workers, SendCompletionFails(w) \/ WorkEnds(w) PROVE EndsWell'
  BY <1>1, <1>2, <1>17
     DEF SendCompletionFails, SetWorker, WorkerOnly, WorkEnds, WorkClosed
<1>18. ASSUME NEW w \in Workers, WorkerGuard(w) \/ WorkerPanic(w) PROVE EndsWell'
  BY <1>1, <1>2, <1>18
     DEF WorkerGuard, SetWorker, WorkerOnly, WorkerPanic
<1>19. CASE StartWorker
  BY <1>1, <1>2, <1>19
     DEF StartWorker, Starting
<1>20. CASE StartPoller
  BY <1>1, <1>2, <1>20
     DEF StartPoller, Starting
<1>21. CASE PollerFailsToStart \/ WorkerFailsToStart
  BY <1>1, <1>2, <1>21
     DEF PollerFailsToStart, Starting, WorkerFailsToStart
<1>22. CASE BeginWriting \/ TakeCompletion \/ Order
  BY <1>1, <1>2, <1>22
     DEF BeginWriting, WriterOnly, TakeCompletion, Resting, Order, WriterFails
<1>23. CASE Direct \/ Write \/ ReturnCredits
  BY <1>1, <1>2, <1>23
     DEF Direct, WriterOnly, Write, WriterFails, ReturnCredits
<1>24. CASE CloseWriter
  <2>1. /\ completion = <<>> /\ wbatch = <<>> /\ ready = <<>> /\ returned = <<>>
        /\ CompletionClosed /\ reorder' = {} /\ main = "writer"
        /\ UNCHANGED <<wbatch, ready, returned, completion, open, worker, work>>
    BY <1>24 DEF CloseWriter, Resting, WriterOnly
  <2>2. work = <<>> /\ \A c \in Pollers : ~open[c]
    BY <2>1, UnbrokenStays, ClosedIsEmpty
  <2> QED
    BY <1>1, <2>1, <2>2
<1>25. CASE FlushOutput \/ Join \/ WriterPanic
  BY <1>1, <1>2, <1>25
     DEF FlushOutput, WriterOnly, WriterFails, Join, WriterPanic
<1>26. CASE ClaimSignal \/ PublishShutdown
  BY <1>1, <1>2, <1>26
     DEF ClaimSignal, HandlerOnly, PublishShutdown
<1>27. CASE UNCHANGED runVars
  BY <1>1, <1>2, <1>27
     DEF runVars
<1> QED
  BY <1>5, <1>6, <1>7, <1>8, <1>9, <1>10, <1>11, <1>12, <1>13, <1>14, <1>15, <1>16,
     <1>17, <1>18, <1>19, <1>20, <1>21, <1>22, <1>23, <1>24, <1>25, <1>26, <1>27
     DEF Next, Step, PollLoop, Deliver, WorkerLoop, RunPipeline, Fault

LEMMA SentStay ==
    ASSUME IInv, OpenWell, Next, Unbroken', NEW d \in Pollers
    PROVE  SentWell(d)'
<1> USE DEF failVars, admissionVars, pollerVars, loopVars, workerVars, mainVars, writerVars,
            Fail, Goto, SentWell
<1>1. /\ SentWell(d) /\ SendersWell
      /\ firstFailure' = None /\ None \notin {"startup", "runtime", "output"}
      /\ \A c \in Pollers : poller[c] # "panicked" /\ poller'[c] # "panicked"
  BY UnbrokenStays DEF Unbroken, OpenWell, None
<1>2. /\ poller \in [Pollers -> {"unborn", "top", "poll", "reserve", "flush", "wait",
                                "panicked", "exit", "unstarted"}]
      /\ after \in [Pollers -> {"top", "wait", "drain"}]
      /\ open \in [Pollers -> BOOLEAN] /\ buf \in [Pollers -> Seq(RecordType)]
  BY ThreadTypes
<1>3. ASSUME NEW c \in Pollers, DrainRelease(c) \/ WaitCredits(c) PROVE SentWell(d)'
  <2>1. TakeCredits(c) /\ releases[c] # <<>> /\ UNCHANGED <<open, buf>>
    BY <1>3 DEF DrainRelease, WaitCredits, PollerOnly
  <2>2. poller'[c] = "top" /\ (d # c => poller'[d] = poller[d])
    BY <1>2, <1>3 DEF DrainRelease, WaitCredits
  <2>3. CASE d = c
    BY <1>1, <2>1, <2>2, <2>3
  <2>4. CASE d # c
    <3>1. \A p \in PartitionsOf(d) : inflight'[p] = inflight[p]
      BY <2>1, <2>4, OthersKeepCredits DEF PartitionsOf
    <3>2. Idle(d)' => Idle(d)
      BY <3>1 DEF Idle, PartitionsOf
    <3> QED
      BY <1>1, <2>1, <2>2, <2>4, <3>2
  <2> QED
    BY <2>3, <2>4
<1>4. ASSUME NEW c \in Pollers, Admit(c) PROVE SentWell(d)'
  <2>1. /\ poller[c] = "reserve" /\ UNCHANGED open /\ pending[c] \in PartitionsOf(c)
        /\ buf' = [buf EXCEPT ![c] = Append(buf[c], <<pending[c], next[pending[c]]>>)]
        /\ inflight' = [inflight EXCEPT ![pending[c]] = @ + 1]
    BY <1>4 DEF Admit, IInv, ThreadsWell
  <2>2. poller'[c] \in {"flush", "top"} /\ \A e \in Pollers : e # c => poller'[e] = poller[e]
    BY <1>2, <1>4 DEF Admit
  <2>3. CASE d = c
    BY <1>1, <2>1, <2>2, <2>3 DEF SendersWell
  <2>4. CASE d # c
    <3>1. \A p \in PartitionsOf(d) : inflight'[p] = inflight[p]
      BY <2>1, <2>4 DEF PartitionsOf, IInv, Typed, TypeOK
    <3>2. Idle(d)' => Idle(d)
      BY <3>1 DEF Idle, PartitionsOf
    <3> QED
      BY <1>1, <1>2, <2>1, <2>2, <2>4, <3>2
  <2> QED
    BY <2>3, <2>4
<1>5. ASSUME NEW c \in Pollers, CheckStop(c) PROVE SentWell(d)'
  BY <1>1, <1>2, <1>5
     DEF CheckStop, PollerOnly, Idle, PartitionsOf
<1>6. ASSUME NEW c \in Pollers, PollRecord(c) PROVE SentWell(d)'
  BY <1>1, <1>2, <1>6
     DEF PollRecord, PollerOnly, PollOnly, Idle, PartitionsOf
<1>7. ASSUME NEW c \in Pollers, PollEnd(c) \/ PollTimeout(c) PROVE SentWell(d)'
  BY <1>1, <1>2, <1>7
     DEF PollEnd, PollerOnly, PollOnly, GoIdle, PollTimeout, Polling, Idle, PartitionsOf
<1>8. ASSUME NEW c \in Pollers, PollDone(c) \/ WaitTimeout(c) PROVE SentWell(d)'
  BY <1>1, <1>2, <1>8
     DEF PollDone, PollerOnly, PollOnly, WaitTimeout, Idle, PartitionsOf
<1>9. ASSUME NEW c \in Pollers, PollError(c) \/ PollerGuard(c) PROVE SentWell(d)'
  BY <1>1, <1>2, <1>9
     DEF PollError, PollerOnly, PollOnly, Polling, PollerGuard, Idle, PartitionsOf
<1>10. ASSUME NEW c \in Pollers, FlushFails(c) \/ WaitDisconnected(c) PROVE SentWell(d)'
  BY <1>1, <1>2, <1>10
     DEF FlushFails, PollerOnly, Leave, WaitDisconnected, Idle, PartitionsOf
<1>11. ASSUME NEW c \in Pollers, Refuse(c) \/ PollerPanic(c) PROVE SentWell(d)'
  BY <1>1, <1>2, <1>11
     DEF Refuse, PollerOnly, PollOnly, PollerPanic, Polling, SendersWell, Idle,
     PartitionsOf
<1>12. ASSUME NEW c \in Pollers, FlushWork(c) PROVE SentWell(d)'
  BY <1>1, <1>2, <1>12
     DEF FlushWork, PollerOnly, FlushSent, SendersWell, Idle, PartitionsOf
<1>13. ASSUME NEW c \in Pollers, FlushCompletion(c) PROVE SentWell(d)'
  BY <1>1, <1>2, <1>13
     DEF FlushCompletion, PollerOnly, FlushSent, SendersWell, Idle, PartitionsOf
<1>14. ASSUME NEW w \in Workers, TakeWork(w) \/ SendCompletion(w) \/
      SendCompletionFails(w) \/ WorkEnds(w) \/ WorkerGuard(w) \/ WorkerPanic(w) PROVE
      SentWell(d)'
  BY <1>1, <1>2, <1>14
     DEF TakeWork, SetWorker, WorkerOnly, SendCompletion, SendCompletionFails,
     WorkEnds, WorkerGuard, WorkerPanic, Idle, PartitionsOf
<1>15. CASE StartWorker
  BY <1>1, <1>2, <1>15
     DEF StartWorker, Starting, Idle, PartitionsOf
<1>16. CASE PollerFailsToStart \/ WorkerFailsToStart
  BY <1>1, <1>2, <1>16
     DEF PollerFailsToStart, Starting, WorkerFailsToStart, Idle, PartitionsOf
<1>17. CASE BeginWriting \/ TakeCompletion \/ Order
  BY <1>1, <1>2, <1>17
     DEF BeginWriting, WriterOnly, TakeCompletion, Resting, Order, WriterFails, Idle,
     PartitionsOf
<1>18. CASE Direct \/ Write \/ ReturnCredits
  BY <1>1, <1>2, <1>18
     DEF Direct, WriterOnly, Write, WriterFails, ReturnCredits, Idle, PartitionsOf
<1>19. CASE CloseWriter
  BY <1>1, <1>2, <1>19
     DEF CloseWriter, WriterOnly, WriterFails, Resting, Idle, PartitionsOf
<1>20. CASE FlushOutput \/ Join \/ WriterPanic
  BY <1>1, <1>2, <1>20
     DEF FlushOutput, WriterOnly, WriterFails, Join, WriterPanic, Idle, PartitionsOf
<1>21. CASE ClaimSignal \/ PublishShutdown
  BY <1>1, <1>2, <1>21
     DEF ClaimSignal, HandlerOnly, PublishShutdown, Idle, PartitionsOf
<1>22. CASE UNCHANGED runVars
  BY <1>1, <1>2, <1>22
     DEF runVars, Idle, PartitionsOf
<1>23. CASE StartPoller
  <2>1. /\ poller' = [poller EXCEPT ![spawned + 1] = "top"]
        /\ UNCHANGED <<open, buf, inflight>>
    BY <1>23 DEF StartPoller, Starting
  <2>2. poller'[d] = poller[d] \/ poller'[d] = "top"
    BY <1>2, <2>1
  <2> QED
    BY <1>1, <1>2, <2>1, <2>2 DEF Idle, PartitionsOf
<1> QED
  BY <1>3, <1>4, <1>5, <1>6, <1>7, <1>8, <1>9, <1>10, <1>11, <1>12, <1>13, <1>14,
     <1>15, <1>16, <1>17, <1>18, <1>19, <1>20, <1>21, <1>22, <1>23
     DEF Next, Step, PollLoop, Deliver, WorkerLoop, RunPipeline, Fault

-----------------------------------------------------------------------------
\* A run in which nothing fails.

LEMMA NoneLeft ==
    ASSUME IInv, OpenWell, Unbroken, WriterGone, NEW c \in Pollers, releases[c] = <<>>
    PROVE  Idle(c)
<1> SUFFICES ASSUME NEW p \in PartitionsOf(c), inflight[p] # 0 PROVE FALSE
  BY DEF Idle
<1>1. p \in Partitions /\ Assigned[p] = c
  BY DEF PartitionsOf
<1>2. Mine(p) # {}
  <2>1. Cardinality(Mine(p)) = inflight[p]
    BY <1>1 DEF IInv, CreditsWell
  <2> QED
    BY <2>1, FS_EmptySet
<1>3. PICK r \in Located : r[1] = p
  BY <1>2 DEF Mine
<1>4. /\ \A d \in Pollers : ~open[d]
      /\ work = <<>> /\ completion = <<>> /\ wbatch = <<>> /\ ready = <<>>
      /\ returned = <<>> /\ reorder = {}
  BY DEF OpenWell, EndsWell, WriterGone
<1>5. \A w \in Workers : worker[w] # "busy"
  BY DEF IInv, ThreadsWell
<1>6. Stage("buf") = {} /\ Stage("hold") = {}
  BY <1>4, <1>5, NothingHeld
<1>7. /\ Stage("work") = {} /\ Stage("completion") = {} /\ Stage("wbatch") = {}
      /\ Stage("ready") = {} /\ Stage("returned") = {} /\ Stage("reorder") = {}
  BY <1>4, StageIs, EmptyBatch
<1>8. r \in Stage("releases")
  BY <1>6, <1>7 DEF Located, Places
<1>9. PICK d \in Pollers : r \in Recs(releases[d])
  BY <1>8, StageIs
<1>10. d = c
  BY <1>1, <1>3, <1>9 DEF IInv, BatchesWell, Owner
<1> QED
  BY <1>9, <1>10, EmptyBatch

LEMMA NoGap ==
    ASSUME IInv, OpenWell, DirectWell, OrderedWell, RunWell, Unbroken, CloseWriter
    PROVE  reorder = {}
<1> SUFFICES ASSUME NEW r \in reorder PROVE FALSE
  OBVIOUS
<1>1. /\ completion = <<>> /\ wbatch = <<>> /\ ready = <<>> /\ returned = <<>>
      /\ CompletionClosed
  BY DEF CloseWriter, Resting
<1>2. /\ work = <<>> /\ Stage("buf") = {} /\ Stage("hold") = {}
  BY <1>1, ClosedIsEmpty, NothingHeld
<1>3. Upstream = reorder
  <2>1. /\ Stage("work") = {} /\ Stage("completion") = {} /\ Stage("wbatch") = {}
        /\ Stage("ready") = {} /\ Stage("reorder") = reorder
    BY <1>1, <1>2, StageIs, EmptyBatch
  <2> QED
    BY <1>2, <2>1 DEF Upstream, Places
<1>4. Ordered /\ r \in Ahead /\ r \in Located /\ r \in RecordType
  <2>1. r \in Stage("reorder") /\ Ordered
    BY StageIs DEF DirectWell
  <2> QED
    BY <2>1 DEF Ahead, Unordered, Located, Places, IInv, Typed, TypeOK
<1> DEFINE p == r[1]
           s == frontier[p]
<1>5. /\ p \in Partitions /\ r[2] \in Nat /\ s \in Nat /\ next[p] \in Nat
      /\ s <= r[2] /\ r[2] # s /\ r[2] < next[p]
      /\ s \notin Range(written[p])
  <2>1. p \in Partitions /\ r[2] \in Nat
    BY <1>4 DEF RecordType
  <2>2. s \in Nat /\ next[p] \in Nat
    BY <2>1 DEF IInv, Typed, TypeOK
  <2>3. s <= r[2] /\ r[2] # s /\ \A x \in Range(written[p]) : x < s
    BY <1>4, <2>1 DEF OrderedWell
  <2>4. r[2] < next[p]
    BY <1>4 DEF IInv, CreditsWell
  <2> QED
    BY <2>1, <2>2, <2>3, <2>4
<1>6. s \in 0..(next[p] - 1)
  BY <1>5
<1>7. <<p, s>> \in reorder
  BY <1>3, <1>5, <1>6 DEF IInv, WritesWell
<1>8. <<p, s>>[2] # frontier[<<p, s>>[1]]
  BY <1>4, <1>7 DEF OrderedWell
<1> QED
  BY <1>8

LEMMA HealthStays ==
    ASSUME IInv, OpenWell, DirectWell, OrderedWell, RunWell, HealthWell, Next
    PROVE  HealthWell'
<1> USE DEF failVars, admissionVars, pollerVars, loopVars, workerVars, mainVars, writerVars,
            Fail, Goto
<1> SUFFICES ASSUME Healthy PROVE Unbroken' /\ wfail' = None
  BY DEF HealthWell, Healthy
<1> DEFINE Fine == Unbroken' /\ wfail' = None
<1>1. /\ Unbroken /\ wfail = None /\ firstFailure = None
      /\ \A c \in Pollers : poller[c] # "panicked"
      /\ \A w \in Workers : worker[w] # "panicked"
      /\ {"spawn", "kafka", "output", "panic"} \intersect Faults = {}
      /\ None # "startup"
  BY DEF HealthWell, Healthy, Unbroken, None
<1>2. /\ poller \in [Pollers -> {"unborn", "top", "poll", "reserve", "flush", "wait",
                                "panicked", "exit", "unstarted"}]
      /\ worker \in [Workers -> {"unborn", "recv", "busy", "panicked", "exit", "unstarted"}]
      /\ after \in [Pollers -> {"top", "wait", "drain"}]
  BY ThreadTypes
<1>3. ASSUME NEW c \in Pollers, FlushFails(c) PROVE FALSE
  <2>1. open[c] /\ EndsWell
    BY <1>1, <1>3 DEF FlushFails, OpenWell, SendersWell
  <2>2. CASE ParsesJson
    <3>1. 1 \in Workers
      BY PipelineAssumption DEF Workers
    <3>2. worker[1] = "exit"
      BY <1>1, <1>3, <2>1, <2>2, <3>1 DEF FlushFails, WorkersGone, Over, EndsWell
    <3> QED
      BY <2>1, <3>1, <3>2 DEF EndsWell
  <2>3. CASE ~ParsesJson
    BY <1>3, <2>1, <2>3 DEF FlushFails, WriterGone, EndsWell
  <2> QED
    BY <2>2, <2>3
<1>4. ASSUME NEW c \in Pollers, WaitDisconnected(c) PROVE FALSE
  <2>1. releases[c] = <<>> /\ WriterGone /\ poller[c] = "wait"
    BY <1>4 DEF WaitDisconnected
  <2>2. Idle(c)
    BY <1>1, <2>1, NoneLeft
  <2>3. ~open[c]
    BY <1>1, <2>1 DEF OpenWell, EndsWell, WriterGone
  <2> QED
    BY <1>1, <2>1, <2>2, <2>3 DEF OpenWell, SentWell
<1>5. ASSUME Order PROVE Fine
  <2>1. /\ wbatch # <<>> /\ Ordered /\ wbatch \in Seq(RecordType) /\ IsInjective(wbatch)
    BY <1>5 DEF Order, IInv, Typed, TypeOK, BatchesWell
  <2>2. Head(wbatch) \in Stage("wbatch")
    BY <2>1, RangeTail, StageIs
  <2>3. Head(wbatch) \in Ahead /\ Head(wbatch) \notin reorder /\ Head(wbatch) \in RecordType
    <3>1. Stage("wbatch") \intersect Stage("reorder") = {} /\ Stage("reorder") = reorder
      BY StageIs DEF IInv, Apart, Places
    <3> QED
      BY <2>1, <2>2, <3>1, RangeTail DEF Ahead, Unordered
  <2>4. ~(Head(wbatch)[2] < frontier[Head(wbatch)[1]])
    <3>1. /\ frontier[Head(wbatch)[1]] <= Head(wbatch)[2]
          /\ frontier[Head(wbatch)[1]] \in Nat /\ Head(wbatch)[2] \in Nat
      BY <2>1, <2>3 DEF OrderedWell, IInv, Typed, TypeOK, RecordType
    <3> QED
      BY <3>1
  <2>5. UNCHANGED <<failVars, wfail, poller, worker>>
    BY <1>5, <2>3, <2>4 DEF Order, WriterOnly
  <2> QED
    BY <1>1, <2>5 DEF Unbroken
<1>6. ASSUME Write PROVE Fine
  <2> DEFINE r == Head(ready)
  <2>1. ready # <<>> /\ ready \in Seq(RecordType) /\ IsInjective(ready)
    BY <1>6 DEF Write, IInv, Typed, TypeOK, BatchesWell
  <2>2. r \in RecordType /\ r \in Stage("ready")
    BY <2>1, RangeTail, StageIs
  <2>3. r[1] \in Partitions /\ r[2] \in Nat /\ r[2] < next[r[1]]
    BY <2>2 DEF RecordType, IInv, CreditsWell, Located, Places
  <2>4. next[r[1]] <= Len(Log[r[1]]) /\ next[r[1]] \in Nat /\ Log[r[1]] \in Seq(Fates)
    BY <2>3, PipelineAssumption DEF RunWell, IInv, Typed, TypeOK
  <2>5. Len(Log[r[1]]) \in Nat /\ DOMAIN Log[r[1]] = 1..Len(Log[r[1]])
    BY <2>4, ElementOfSeq
  <2>6. r[2] + 1 \in DOMAIN Log[r[1]]
    BY <2>3, <2>4, <2>5
  <2>7. Fate(r) # "fatal"
    BY <2>3, <2>6 DEF Fate, Healthy, Range
  <2> HIDE DEF r
  <2>8. Fate(Head(ready)) # "fatal"
    BY <2>7 DEF r
  <2>9. UNCHANGED <<failVars, wfail, poller, worker>>
    BY <1>1, <1>6, <2>8 DEF Write, WriterOnly, Silent
  <2> QED
    BY <1>1, <2>9 DEF Unbroken
<1>7. ASSUME CloseWriter PROVE Fine
  <2>1. reorder = {}
    BY <1>1, <1>7, NoGap
  <2>2. UNCHANGED <<failVars, wfail, poller, worker>>
    BY <1>7, <2>1 DEF CloseWriter, WriterOnly
  <2> QED
    BY <1>1, <2>2 DEF Unbroken
<1>8. CASE StartPoller
  <2>1. /\ poller' = [poller EXCEPT ![spawned + 1] = "top"]
        /\ UNCHANGED <<worker, firstFailure, wfail>>
    BY <1>8 DEF StartPoller, Starting
  <2> QED
    BY <1>1, <1>2, <2>1 DEF Unbroken
<1>9. ASSUME NEW c \in Pollers, DrainRelease(c) \/ WaitCredits(c) \/ CheckStop(c)
      PROVE Fine
  BY <1>1, <1>2, <1>9
     DEF DrainRelease, PollerOnly, TakeCredits, WaitCredits, CheckStop, Unbroken
<1>10. ASSUME NEW c \in Pollers, PollRecord(c) PROVE Fine
  BY <1>1, <1>2, <1>10
     DEF PollRecord, PollerOnly, PollOnly, Unbroken
<1>11. ASSUME NEW c \in Pollers, PollEnd(c) \/ PollTimeout(c) PROVE Fine
  BY <1>1, <1>2, <1>11
     DEF PollEnd, PollerOnly, PollOnly, GoIdle, PollTimeout, Polling, Unbroken
<1>12. ASSUME NEW c \in Pollers, PollDone(c) \/ WaitTimeout(c) PROVE Fine
  BY <1>1, <1>2, <1>12
     DEF PollDone, PollerOnly, PollOnly, WaitTimeout, Unbroken
<1>13. ASSUME NEW c \in Pollers, PollError(c) \/ PollerGuard(c) PROVE Fine
  BY <1>1, <1>2, <1>13
     DEF PollError, PollerOnly, PollOnly, Polling, PollerGuard, Unbroken
<1>14. ASSUME NEW c \in Pollers, Admit(c) PROVE Fine
  BY <1>1, <1>2, <1>14
     DEF Admit, PollerOnly, Unbroken
<1>15. ASSUME NEW c \in Pollers, Refuse(c) \/ PollerPanic(c) PROVE Fine
  BY <1>1, <1>2, <1>15
     DEF Refuse, PollerOnly, PollOnly, PollerPanic, Polling, Unbroken
<1>16. ASSUME NEW c \in Pollers, FlushWork(c) \/ FlushCompletion(c) PROVE Fine
  BY <1>1, <1>2, <1>16
     DEF FlushWork, PollerOnly, FlushSent, FlushCompletion, Unbroken
<1>17. ASSUME NEW w \in Workers, TakeWork(w) \/ SendCompletion(w) \/
      SendCompletionFails(w) \/ WorkEnds(w) \/ WorkerGuard(w) \/ WorkerPanic(w) PROVE
      Fine
  BY <1>1, <1>2, <1>17
     DEF TakeWork, SetWorker, WorkerOnly, SendCompletion, SendCompletionFails,
     WorkEnds, WorkerGuard, WorkerPanic, Unbroken
<1>18. CASE StartWorker \/ PollerFailsToStart \/ WorkerFailsToStart
  BY <1>1, <1>2, <1>18
     DEF StartWorker, Starting, PollerFailsToStart, WorkerFailsToStart, Unbroken
<1>19. CASE BeginWriting \/ TakeCompletion \/ Direct
  BY <1>1, <1>2, <1>19
     DEF BeginWriting, WriterOnly, TakeCompletion, Resting, Direct, Unbroken
<1>20. CASE ReturnCredits \/ FlushOutput \/ Join \/ WriterPanic
  BY <1>1, <1>2, <1>20
     DEF ReturnCredits, WriterOnly, FlushOutput, WriterFails, Join, WriterPanic,
     Unbroken
<1>21. CASE ClaimSignal \/ PublishShutdown
  BY <1>1, <1>2, <1>21
     DEF ClaimSignal, HandlerOnly, PublishShutdown, Unbroken
<1>22. CASE UNCHANGED runVars
  BY <1>1, <1>2, <1>22
     DEF runVars, Unbroken
<1> QED
  BY <1>3, <1>4, <1>5, <1>6, <1>7, <1>8, <1>9, <1>10, <1>11, <1>12, <1>13, <1>14,
     <1>15, <1>16, <1>17, <1>18, <1>19, <1>20, <1>21, <1>22
     DEF Next, Step, PollLoop, Deliver, WorkerLoop, RunPipeline, Fault

-----------------------------------------------------------------------------
\* Records only move on: what is upstream was upstream, or has just been
\* admitted.

LEMMA FlowsWithin ==
    ASSUME NEW T \in SUBSET Places, Moves(T)
    PROVE  /\ T \intersect {"returned", "releases"} = {} => Upstream' \subseteq Upstream
           /\ T \subseteq Unordered \/ T \intersect Unordered = {} => Ahead' \subseteq Ahead
<1>1. \A s \in Places \ T : Stage(s)' = Stage(s)
  BY DEF Moves
<1>2. \A s \in T : Stage(s)' \subseteq UNION {Stage(t) : t \in T}
  BY DEF Moves
<1>3. ASSUME T \intersect {"returned", "releases"} = {} PROVE Upstream' \subseteq Upstream
  <2> SUFFICES ASSUME NEW s \in Places \ {"returned", "releases"}, NEW x \in Stage(s)'
               PROVE  x \in Upstream
    BY DEF Upstream, Places
  <2>1. T \subseteq Places \ {"returned", "releases"}
    BY <1>3
  <2>2. CASE s \in T
    BY <1>2, <2>1, <2>2 DEF Upstream
  <2>3. CASE s \notin T
    BY <1>1, <2>3 DEF Upstream
  <2> QED
    BY <2>2, <2>3
<1>4. ASSUME T \subseteq Unordered \/ T \intersect Unordered = {} PROVE Ahead' \subseteq Ahead
  <2> SUFFICES ASSUME NEW s \in Unordered, NEW x \in Stage(s)'
               PROVE  x \in Ahead
    BY DEF Ahead, Unordered
  <2>1. s \in Places
    BY DEF Unordered, Places
  <2>2. CASE s \in T
    BY <1>2, <1>4, <2>2 DEF Ahead
  <2>3. CASE s \notin T
    BY <1>1, <2>1, <2>3 DEF Ahead
  <2> QED
    BY <2>2, <2>3
<1> QED
  BY <1>3, <1>4

LEMMA Shrinks ==
    ASSUME \A s \in Places \ {"returned", "releases"} : Stage(s)' \subseteq Stage(s)
    PROVE  Upstream' \subseteq Upstream /\ Ahead' \subseteq Ahead
<1>1. Upstream' \subseteq Upstream
  <2> SUFFICES ASSUME NEW s \in Places \ {"returned", "releases"}, NEW x \in Stage(s)'
               PROVE  x \in Upstream
    BY DEF Upstream, Places
  <2> QED
    BY DEF Upstream
<1>2. Ahead' \subseteq Ahead
  <2> SUFFICES ASSUME NEW s \in Unordered, NEW x \in Stage(s)'
               PROVE  x \in Ahead
    BY DEF Ahead, Unordered
  <2>1. s \in Places \ {"returned", "releases"}
    BY DEF Unordered, Places
  <2> QED
    BY <2>1 DEF Ahead
<1> QED
  BY <1>1, <1>2

LEMMA NothingMoves ==
    ASSUME UNCHANGED <<buf, work, hold, completion, wbatch, ready>>, reorder' \subseteq reorder
    PROVE  Upstream' \subseteq Upstream /\ Ahead' \subseteq Ahead
<1>1. \A s \in Places \ {"returned", "releases"} : Stage(s)' \subseteq Stage(s)
  BY SameStage, StageIs, StageIsPrimed DEF Places
<1> QED
  BY <1>1, Shrinks

\* Every other step leaves the records where they are, and the output alone.
Quiet ==
    /\ UNCHANGED <<buf, work, hold, completion, wbatch, ready, frontier, written, next>>
    /\ reorder' \subseteq reorder
    /\ wfail' = None => wfail = None
Stirs ==
    \/ \E c \in Pollers : Admit(c) \/ FlushWork(c) \/ FlushCompletion(c)
    \/ \E w \in Workers :
        TakeWork(w) \/ SendCompletion(w) \/ SendCompletionFails(w) \/ WorkerPanic(w)
    \/ TakeCompletion \/ Order \/ Direct \/ Write

LEMMA QuietOrNot ==
    ASSUME IInv, RunWell, Next
    PROVE  Stirs \/ Quiet
<1> USE DEF failVars, admissionVars, pollerVars, loopVars, workerVars, mainVars, writerVars
<1>1. main = "started" => wfail = None
  BY DEF RunWell
<1>2. ASSUME NEW w \in Workers, WorkEnds(w) \/ WorkerGuard(w) PROVE Quiet
  <2>1. hold' = hold
    BY <1>2 DEF WorkEnds, WorkerGuard, SetWorker, IInv, Typed, ThreadsWell
  <2> QED
    BY <1>2, <2>1 DEF WorkEnds, WorkerGuard, WorkerOnly, Quiet
<1>3. ASSUME NEW c \in Pollers, DrainRelease(c) \/ WaitCredits(c) PROVE Quiet
  BY <1>3
     DEF DrainRelease, PollerOnly, TakeCredits, WaitCredits, Quiet
<1>4. ASSUME NEW c \in Pollers, CheckStop(c) \/ PollRecord(c) \/ PollEnd(c) \/
      PollDone(c) PROVE Quiet
  BY <1>4
     DEF CheckStop, PollerOnly, PollRecord, PollOnly, PollEnd, GoIdle, PollDone, Quiet
<1>5. ASSUME NEW c \in Pollers, PollTimeout(c) \/ Refuse(c) \/ WaitTimeout(c) \/
      PollerGuard(c) \/ PollError(c) PROVE Quiet
  BY <1>5
     DEF PollTimeout, PollerOnly, PollOnly, GoIdle, Polling, Refuse, WaitTimeout,
     PollerGuard, PollError, Quiet
<1>6. ASSUME NEW c \in Pollers, FlushFails(c) \/ WaitDisconnected(c) \/ PollerPanic(c)
      PROVE Quiet
  BY <1>6
     DEF FlushFails, PollerOnly, Leave, WaitDisconnected, PollerPanic, Polling, Quiet
<1>7. CASE StartPoller \/ StartWorker \/ PollerFailsToStart \/ WorkerFailsToStart
  BY <1>7
     DEF StartPoller, Starting, StartWorker, PollerFailsToStart, WorkerFailsToStart,
     Quiet
<1>8. CASE BeginWriting \/ ReturnCredits \/ CloseWriter \/ FlushOutput \/ Join \/
      WriterPanic
  BY <1>1, <1>8
     DEF BeginWriting, WriterOnly, ReturnCredits, CloseWriter, WriterFails, Resting,
     FlushOutput, Join, WriterPanic, Quiet
<1>9. CASE ClaimSignal \/ PublishShutdown
  BY <1>9
     DEF ClaimSignal, HandlerOnly, PublishShutdown, Quiet
<1>10. CASE UNCHANGED runVars
  BY <1>10
     DEF runVars, Quiet
<1> QED
  BY <1>2, <1>3, <1>4, <1>5, <1>6, <1>7, <1>8, <1>9, <1>10
     DEF Stirs, Next, Step, PollLoop, Deliver, WorkerLoop, RunPipeline, Fault

LEMMA NextGrows ==
    ASSUME IInv, RunWell, Next
    PROVE  \A p \in Partitions : next[p] <= next'[p] /\ next[p] \in Nat /\ next'[p] \in Nat
<1>1. next \in [Partitions -> Nat] /\ next' \in [Partitions -> Nat]
  BY IInvStays DEF IInv, Typed, TypeOK
<1>2. ASSUME NEW c \in Pollers, Admit(c)
      PROVE  \A p \in Partitions : next[p] <= next'[p]
  <2>1. next' = [next EXCEPT ![pending[c]] = @ + 1]
    BY <1>2 DEF Admit
  <2> QED
    BY <1>1, <2>1
<1>3. (\E c \in Pollers : Admit(c)) \/ next' = next
  BY QuietOrNot
     DEF Stirs, Quiet, admissionVars, pollerVars, workerVars, FlushWork, FlushCompletion, FlushSent,
     PollerOnly, TakeWork, SendCompletion, SendCompletionFails, WorkerPanic, WorkerOnly,
     TakeCompletion, Order, Direct, Write, WriterOnly
<1> QED
  BY <1>1, <1>2, <1>3

LEMMA Flow ==
    ASSUME IInv, RunWell, Next
    PROVE  /\ \A x \in Upstream' : x \in Upstream \/ next[x[1]] <= x[2]
           /\ Ordered => \A x \in Ahead' : x \in Ahead \/ next[x[1]] <= x[2]
<1> DEFINE Down == Upstream' \subseteq Upstream /\ (Ordered => Ahead' \subseteq Ahead)
<1>1. Unbroken' => Unbroken
  BY UnbrokenStays
<1>2. ASSUME NEW c \in Pollers, Admit(c)
      PROVE  /\ \A x \in Upstream' : x \in Upstream \/ next[x[1]] <= x[2]
             /\ \A x \in Ahead' : x \in Ahead \/ next[x[1]] <= x[2]
  <2> DEFINE r == <<pending[c], next[pending[c]]>>
  <2>1. /\ pending[c] \in Partitions
        /\ Stage("buf")' = Stage("buf") \union {r}
        /\ \A s \in Places \ {"buf"} : Stage(s)' = Stage(s)
        /\ Upstream' = Upstream \union {r}
    BY <1>2, AdmitAdds
  <2>2. next[r[1]] <= r[2]
    BY <2>1 DEF IInv, Typed, TypeOK
  <2> HIDE DEF r
  <2>3. \A x \in Ahead' : x \in Ahead \/ x = r
    <3> SUFFICES ASSUME NEW s \in Unordered, NEW x \in Stage(s)' PROVE x \in Ahead \/ x = r
      BY DEF Ahead, Unordered
    <3>1. s \in Places
      BY DEF Unordered, Places
    <3> QED
      BY <2>1, <3>1 DEF Ahead
  <2> QED
    BY <2>1, <2>2, <2>3
<1>3. ASSUME NEW c \in Pollers, FlushWork(c) \/ FlushCompletion(c) PROVE Down
  <2>1. Moves({"buf", "work"}) \/ Moves({"buf", "completion"})
    BY <1>1, <1>3, WorkIsFlushed, CompletionIsFlushed
  <2> QED
    BY <2>1, FlowsWithin DEF Places, Unordered
<1>4. ASSUME NEW w \in Workers,
             TakeWork(w) \/ SendCompletion(w) \/ SendCompletionFails(w) \/ WorkerPanic(w)
      PROVE  Down
  <2>1. \/ Moves({"work", "hold"}) \/ Moves({"hold", "completion"}) \/ Moves({"hold"})
    BY <1>1, <1>4, WorkIsTaken, CompletionIsSent, BatchIsLost
  <2> QED
    BY <2>1, FlowsWithin DEF Places, Unordered
<1>5. CASE Quiet
  BY <1>5, NothingMoves DEF Quiet
<1>6. CASE TakeCompletion
  <2>1. Moves({"completion", "wbatch"})
    BY <1>1, <1>6, CompletionIsTaken
  <2> QED
    BY <2>1, FlowsWithin DEF Places, Unordered
<1>7. CASE Direct
  <2>1. Moves({"wbatch", "ready"}) /\ ~Ordered
    BY <1>1, <1>7, RecordPasses DEF Direct
  <2> QED
    BY <2>1, FlowsWithin DEF Places, Unordered
<1>8. CASE Write
  <2>1. Moves({"ready", "returned"}) /\ Stage("ready")' \subseteq Stage("ready")
    BY <1>1, <1>8, RecordIsWritten
  <2>2. \A s \in Places \ {"returned", "releases"} : Stage(s)' \subseteq Stage(s)
    BY <2>1 DEF Moves
  <2> QED
    BY <2>2, Shrinks
<1>9. CASE Order
  <2> DEFINE r == Head(wbatch)
  <2>1. /\ r \in Stage("wbatch") /\ Stage("wbatch")' \subseteq Stage("wbatch")
        /\ wbatch' = Tail(wbatch)
    <3>1. wbatch # <<>> /\ wbatch' = Tail(wbatch)
      BY <1>9 DEF Order
    <3>2. r \in Range(wbatch) /\ Range(Tail(wbatch)) \subseteq Range(wbatch)
      BY <3>1, WriterTail, RangeTail
    <3> QED
      BY <3>1, <3>2, StageIs, StageIsPrimed
  <2>2. CASE r[2] < frontier[r[1]] \/ r \in reorder
    <3>1. Moves({"wbatch", "returned"}) /\ Stage("wbatch")' \subseteq Stage("wbatch")
      BY <1>1, <1>9, <2>2, RecordRepeats
    <3>2. \A s \in Places \ {"returned", "releases"} : Stage(s)' \subseteq Stage(s)
      BY <3>1 DEF Moves
    <3> QED
      BY <3>2, Shrinks
  <2>3. CASE ~(r[2] < frontier[r[1]] \/ r \in reorder)
    <3>1. Moves({"wbatch", "reorder", "ready"})
      BY <1>1, <1>9, <2>3, RecordIsOrdered
    <3>2. Upstream' \subseteq Upstream
      <4> DEFINE T == {"wbatch", "reorder", "ready"}
      <4>1. T \in SUBSET Places /\ T \intersect {"returned", "releases"} = {} /\ Moves(T)
        BY <3>1 DEF Places
      <4> HIDE DEF T
      <4> QED
        BY <4>1, FlowsWithin
    <3>3. reorder' \subseteq reorder \union {r}
      BY <1>9, <2>3 DEF Order, Remain
    <3>4. Stage("reorder")' \subseteq Stage("reorder") \union Stage("wbatch")
      BY <2>1, <3>3, StageIs, StageIsPrimed
    <3>5. Ahead' \subseteq Ahead
      <4> SUFFICES ASSUME NEW s \in Unordered, NEW x \in Stage(s)' PROVE x \in Ahead
        BY DEF Ahead, Unordered
      <4>1. CASE s \in {"wbatch", "reorder"}
        BY <2>1, <3>4, <4>1 DEF Ahead, Unordered
      <4>2. CASE s \notin {"wbatch", "reorder"}
        <5>1. Stage(s)' = Stage(s)
          BY <3>1, <4>2 DEF Moves, Places, Unordered
        <5> QED
          BY <5>1 DEF Ahead
      <4> QED
        BY <4>1, <4>2
    <3> QED
      BY <3>2, <3>5
  <2> QED
    BY <2>2, <2>3
<1> QED
  BY <1>2, <1>3, <1>4, <1>5, <1>6, <1>7, <1>8, <1>9, QuietOrNot DEF Stirs

-----------------------------------------------------------------------------
\* What is written.

\* The record being written.
LEMMA WritingIs ==
    ASSUME IInv, Next, Write
    PROVE  LET r == Head(ready)
               p == r[1]
           IN  /\ r \in Range(ready) /\ r = ready[1] /\ r \in RecordType /\ r \in Upstream
               /\ p \in Partitions /\ r[2] \in Nat /\ r[2] < next[p] /\ r = <<p, r[2]>>
               /\ ready' = Tail(ready) /\ Len(ready) \in Nat \ {0} /\ r \notin Upstream'
               /\ \/ UNCHANGED written /\ wfail' # None
                  \/ /\ written' = [written EXCEPT ![p] = Append(@, r[2])]
                     /\ wfail = None /\ wfail' = None
<1> DEFINE r == Head(ready)
           p == r[1]
<1>1. ready # <<>> /\ ready \in Seq(RecordType) /\ IsInjective(ready) /\ ready' = Tail(ready)
  BY DEF Write, IInv, Typed, TypeOK, BatchesWell
<1>2. r \in RecordType /\ r \in Range(ready) /\ r = ready[1]
  BY <1>1, RangeTail
<1>3. r \in Upstream /\ r \in Located
  <2>1. r \in Stage("ready")
    BY <1>2, StageIs
  <2> QED
    BY <2>1 DEF Upstream, Located, Places
<1>4. p \in Partitions /\ r[2] \in Nat /\ r[2] < next[p] /\ r = <<p, r[2]>>
  BY <1>2, <1>3 DEF RecordType, IInv, CreditsWell
<1>5. Len(ready) \in Nat \ {0}
  BY <1>1, EmptySeq
<1>6. r \notin Upstream'
  <2>1. /\ Apart /\ Moves({"ready", "returned"}) /\ r \in Stage("ready")
        /\ Stage("ready")' = Stage("ready") \ {r}
    BY RecordIsWritten, UnbrokenStays DEF IInv
  <2> SUFFICES ASSUME NEW s \in Places \ {"returned", "releases"}, r \in Stage(s)'
               PROVE  FALSE
    BY DEF Upstream, Places
  <2>2. CASE s = "ready"
    BY <2>1, <2>2
  <2>3. CASE s # "ready"
    <3>1. Stage(s)' = Stage(s) /\ Stage(s) \intersect Stage("ready") = {}
      BY <2>1, <2>3 DEF Moves, Apart, Places
    <3> QED
      BY <2>1, <3>1
  <2> QED
    BY <2>2, <2>3
<1>7. \/ UNCHANGED written /\ wfail' # None
      \/ written' = [written EXCEPT ![p] = Append(@, r[2])] /\ wfail = None /\ wfail' = None
  BY DEF Write, WriterFails, Silent, None
<1> QED
  BY <1>1, <1>2, <1>3, <1>4, <1>5, <1>6, <1>7

LEMMA WrittenStays ==
    ASSUME IInv, RunWell, WrittenWell, Next
    PROVE  WrittenWell'
<1>1. \A p \in Partitions : next[p] <= next'[p] /\ next[p] \in Nat /\ next'[p] \in Nat
  BY NextGrows
<1>2. \A p \in Partitions : written[p] \in Seq(Nat) /\ \A s \in Range(written[p]) : s \in Nat
  BY SeqFacts DEF IInv, Typed
<1>3. \A x \in Upstream' : x \in Upstream \/ next[x[1]] <= x[2]
  BY Flow
<1>4. CASE written' = written
  <2> SUFFICES ASSUME NEW p \in Partitions, NEW s \in Range(written[p])
               PROVE  s < next'[p] /\ <<p, s>> \notin Upstream'
    BY <1>4 DEF WrittenWell, IsInjective, Range
  <2>1. s < next[p] /\ <<p, s>> \notin Upstream /\ s \in Nat
    BY <1>2 DEF WrittenWell
  <2>2. <<p, s>> \in Upstream' => next[p] <= s
    BY <1>3, <2>1
  <2> QED
    BY <1>1, <2>1, <2>2
<1>5. CASE Write /\ written' # written
  <2> DEFINE r == Head(ready)
             q == r[1]
             n == r[2]
  <2>1. /\ q \in Partitions /\ n \in Nat /\ n < next[q] /\ r = <<q, n>>
        /\ r \in Upstream /\ r \notin Upstream'
        /\ written' = [written EXCEPT ![q] = Append(@, n)]
    BY <1>5, WritingIs
  <2> HIDE DEF r
  <2>2. n \notin Range(written[q])
    BY <2>1 DEF WrittenWell
  <2>3. /\ Range(Append(written[q], n)) = Range(written[q]) \union {n}
        /\ IsInjective(Append(written[q], n))
    BY <1>2, <2>1, <2>2, RangeAppend DEF WrittenWell
  <2>4. ASSUME NEW p \in Partitions
        PROVE  /\ IsInjective(written'[p])
               /\ \A s \in Range(written'[p]) : s \in Range(written[p]) \/ (p = q /\ s = n)
    BY <2>1, <2>3 DEF WrittenWell, IInv, Typed
  <2>5. ASSUME NEW p \in Partitions, NEW s \in Range(written'[p])
        PROVE  s < next'[p] /\ <<p, s>> \notin Upstream'
    <3>1. CASE p = q /\ s = n
      BY <1>1, <2>1, <3>1
    <3>2. CASE s \in Range(written[p])
      <4>1. s < next[p] /\ <<p, s>> \notin Upstream /\ s \in Nat
        BY <1>2, <3>2 DEF WrittenWell
      <4>2. <<p, s>> \in Upstream' => next[p] <= s
        BY <1>3, <4>1
      <4> QED
        BY <1>1, <4>1, <4>2
    <3> QED
      BY <2>4, <3>1, <3>2
  <2> QED
    BY <2>4, <2>5 DEF WrittenWell, IsInjective, Range
<1>6. Write \/ written' = written
  BY QuietOrNot
     DEF Stirs, Quiet, writerVars, Admit, FlushWork, FlushCompletion, FlushSent,
     PollerOnly, TakeWork, SendCompletion, SendCompletionFails, WorkerPanic, WorkerOnly,
     TakeCompletion, Order, Direct
<1> QED
  BY <1>4, <1>5, <1>6

\* Ahead of the frontier nothing appears but what was just admitted.
LEMMA AheadStays ==
    ASSUME IInv, RunWell, OrderedWell, Ordered, Next, NEW x \in Ahead'
    PROVE  /\ x[1] \in Partitions /\ x[2] \in Nat /\ x = <<x[1], x[2]>>
           /\ frontier[x[1]] <= x[2] /\ frontier[x[1]] \in Nat
<1>1. x \in RecordType
  <2>1. x \in Located'
    BY DEF Ahead, Unordered, Located, Places
  <2> QED
    BY <2>1, IInvStays DEF IInv, CreditsWell, RecordType
<1>2. x[1] \in Partitions /\ x[2] \in Nat /\ x = <<x[1], x[2]>>
  BY <1>1 DEF RecordType
<1>3. frontier[x[1]] <= next[x[1]] /\ frontier[x[1]] \in Nat /\ next[x[1]] \in Nat
  BY <1>2 DEF IInv, CreditsWell, Typed, TypeOK
<1>4. x \in Ahead \/ next[x[1]] <= x[2]
  BY Flow
<1> QED
  BY <1>2, <1>3, <1>4 DEF OrderedWell

LEMMA OrderedKeeps ==
    ASSUME IInv, RunWell, OrderedWell, Ordered, Next, UNCHANGED <<frontier, ready, written>>,
           reorder' \subseteq reorder, wfail' = None => wfail = None
    PROVE  OrderedWell'
<1>1. /\ \A p \in Partitions : ReadyOf(p)' = ReadyOf(p)
      /\ \A p \in Partitions : \A s \in Range(written'[p]) : s \in Range(written[p])
      /\ \A p \in Partitions : InOrder(written[p])' <=> InOrder(written[p])
  BY DEF ReadyOf, InOrder, Range
<1>2. \A r \in Ahead' : frontier'[r[1]] <= r[2]
  BY AheadStays
<1>3. \A r \in reorder' : r[2] # frontier'[r[1]]
  BY DEF OrderedWell
<1>4. \A p \in Partitions : \A s \in Range(written'[p]) : s < frontier'[p]
  BY <1>1 DEF OrderedWell
<1>5. ASSUME wfail' = None
      PROVE  /\ \A p \in Partitions :
                InOrder(written[p])' /\ Len(written'[p]) + ReadyOf(p)' = frontier'[p]
             /\ \A i \in DOMAIN ready' :
                ready'[i] = <<ready'[1][1], Len(written'[ready'[1][1]]) + i - 1>>
  BY <1>1, <1>5 DEF OrderedWell
<1> QED
  BY <1>2, <1>3, <1>4, <1>5 DEF OrderedWell, InOrder, Range

\* The next record joins the pool, and what it completes becomes ready.
LEMMA OrderIs ==
    ASSUME IInv, Order
    PROVE  LET r == Head(wbatch)
               p == r[1]
               pool == reorder \union {r}
           IN  /\ UNCHANGED written /\ ready = <<>> /\ p \in Partitions
               /\ \/ UNCHANGED <<frontier, reorder, ready>> /\ wfail' # None
                  \/ /\ ready' \in Seq(RecordType) /\ Len(ready') \in Nat
                     /\ DOMAIN ready' = 1..Len(ready')
                     /\ \A i \in 1..Len(ready') : ready'[i] = <<p, frontier[p] + i - 1>>
                     /\ <<p, frontier[p] + Len(ready')>> \notin pool
                     /\ reorder' \subseteq pool \ Range(ready')
                     /\ frontier' = [frontier EXCEPT ![p] = @ + Len(ready')]
                     /\ wfail' = wfail
<1> DEFINE r == Head(wbatch)
           p == r[1]
           pool == reorder \union {r}
<1>1. /\ wbatch # <<>> /\ ready = <<>> /\ UNCHANGED written
      /\ \/ UNCHANGED <<frontier, reorder, ready>> /\ wfail' # None
         \/ /\ ready' = Drain(p, pool)
            /\ reorder' = pool \ Range(ready')
            /\ frontier' = [frontier EXCEPT ![p] = @ + Len(ready')]
            /\ wfail' = wfail
  BY DEF Order, WriterFails, Remain, None
<1>2. r \in RecordType /\ r \in Range(wbatch)
  BY <1>1, WriterTail, RangeTail
<1>3. p \in Partitions /\ frontier[p] \in Nat
  BY <1>2 DEF RecordType, IInv, Typed, TypeOK
<1>4. IsFiniteSet(pool)
  <2>1. reorder \subseteq Located
    BY StageIs DEF Located, Places
  <2>2. IsFiniteSet(reorder)
    BY <2>1, FS_Subset DEF IInv, CreditsWell
  <2> QED
    BY <2>2, FS_AddElement
<1> HIDE DEF pool, p
<1>5. /\ Drain(p, pool) \in Seq(RecordType)
      /\ Len(Drain(p, pool)) \in Nat
      /\ <<p, frontier[p] + Len(Drain(p, pool))>> \notin pool
      /\ \A i \in 1..Len(Drain(p, pool)) : Drain(p, pool)[i] = <<p, frontier[p] + i - 1>>
      /\ DOMAIN Drain(p, pool) = 1..Len(Drain(p, pool))
  BY <1>3, <1>4, DrainIs
<1> QED
  BY <1>1, <1>3, <1>5 DEF pool, p

LEMMA OrderKeeps ==
    ASSUME IInv, RunWell, OrderedWell, Ordered, Next, Order
    PROVE  OrderedWell'
<1> DEFINE r == Head(wbatch)
           p == r[1]
           pool == reorder \union {r}
           n == Len(ready')
<1>1. UNCHANGED written /\ ready = <<>> /\ p \in Partitions
  BY OrderIs
<1>2. CASE UNCHANGED <<frontier, reorder, ready>> /\ wfail' # None
  BY <1>1, <1>2, OrderedKeeps
<1>3. CASE /\ ready' \in Seq(RecordType) /\ n \in Nat
           /\ DOMAIN ready' = 1..n
           /\ \A i \in 1..n : ready'[i] = <<p, frontier[p] + i - 1>>
           /\ <<p, frontier[p] + n>> \notin pool
           /\ reorder' \subseteq pool \ Range(ready')
           /\ frontier' = [frontier EXCEPT ![p] = @ + n]
           /\ wfail' = wfail
  <2> HIDE DEF p, pool, n
  <2>1. /\ frontier \in [Partitions -> Nat] /\ frontier[p] \in Nat
        /\ frontier'[p] = frontier[p] + n
        /\ \A q \in Partitions : q # p => frontier'[q] = frontier[q]
    BY <1>1, <1>3 DEF IInv, Typed, TypeOK
  <2>2. ASSUME NEW x \in Ahead' PROVE frontier'[x[1]] <= x[2]
    <3>1. /\ x[1] \in Partitions /\ x[2] \in Nat /\ x = <<x[1], x[2]>>
          /\ frontier[x[1]] <= x[2]
      BY <2>2, AheadStays
    <3>2. CASE x[1] # p
      BY <2>1, <3>1, <3>2
    <3>3. CASE x[1] = p
      <4> SUFFICES ASSUME x[2] < frontier[p] + n PROVE FALSE
        BY <1>3, <2>1, <3>1, <3>3
      <4>1. x[2] - frontier[p] + 1 \in 1..n
        BY <1>3, <2>1, <3>1, <3>3
      <4>2. ready'[x[2] - frontier[p] + 1] = <<p, frontier[p] + (x[2] - frontier[p] + 1) - 1>>
        BY <1>3, <4>1
      <4>3. x \in Range(ready')
        <5>1. frontier[p] + (x[2] - frontier[p] + 1) - 1 = x[2]
          BY <2>1, <3>1
        <5>2. x = ready'[x[2] - frontier[p] + 1]
          BY <3>1, <3>3, <4>2, <5>1
        <5> QED
          BY <1>3, <4>1, <5>2 DEF Range
      <4>4. x \in Stage("ready")'
        BY <4>3, StageIsPrimed
      <4>5. Apart'
        BY IInvStays DEF IInv
      <4> QED
        BY <2>2, <4>4, <4>5 DEF Apart, Ahead, Unordered, Places
    <3> QED
      BY <3>2, <3>3
  <2>3. ASSUME NEW x \in reorder' PROVE x[2] # frontier'[x[1]]
    <3>1. x \in Ahead'
      BY <2>3, StageIsPrimed DEF Ahead, Unordered
    <3>2. x[1] \in Partitions /\ x = <<x[1], x[2]>>
      BY <3>1, AheadStays
    <3>3. CASE x[1] = p
      BY <1>3, <2>1, <2>3, <3>2, <3>3
    <3>4. CASE x[1] # p
      <4>1. x \in reorder
        BY <1>3, <2>3, <3>4 DEF pool, p
      <4> QED
        BY <2>1, <3>2, <3>4, <4>1 DEF OrderedWell
    <3> QED
      BY <3>3, <3>4
  <2>4. ASSUME NEW q \in Partitions, NEW s \in Range(written'[q]) PROVE s < frontier'[q]
    <3>1. s \in Range(written[q])
      BY <1>1, <2>4
    <3>2. s < frontier[q] /\ s \in Nat /\ frontier[q] \in Nat
      BY <2>1, <3>1, SeqFacts DEF OrderedWell, IInv, Typed
    <3> QED
      BY <1>3, <2>1, <3>2
  <2>5. ASSUME wfail' = None
        PROVE  /\ \A q \in Partitions :
                  InOrder(written[q])' /\ Len(written'[q]) + ReadyOf(q)' = frontier'[q]
               /\ \A i \in DOMAIN ready' :
                  ready'[i] = <<ready'[1][1], Len(written'[ready'[1][1]]) + i - 1>>
    <3>1. \A q \in Partitions : /\ InOrder(written[q]) /\ Len(written[q]) = frontier[q]
                                /\ InOrder(written[q])'
      <4>1. \A q \in Partitions : /\ InOrder(written[q])
                                  /\ Len(written[q]) + 0 = frontier[q]
        BY <1>1, <1>3, <2>5 DEF OrderedWell, ReadyOf
      <4>2. \A q \in Partitions : Len(written[q]) \in Nat
        BY SeqFacts DEF IInv, Typed
      <4> QED
        BY <1>1, <4>1, <4>2 DEF InOrder
    <3>2. ready' # <<>> => n > 0 /\ ready'[1] = <<p, frontier[p] + 1 - 1>>
      <4>1. ready' # <<>> => n # 0
        BY <1>3, EmptySeq DEF n
      <4> QED
        BY <1>3, <4>1
    <3>3. ready' = <<>> => n = 0
      BY DEF n
    <3>4. ASSUME NEW q \in Partitions PROVE Len(written'[q]) + ReadyOf(q)' = frontier'[q]
      <4>1. CASE q = p
        <5>1. ReadyOf(q)' = n
          BY <3>2, <3>3, <4>1 DEF ReadyOf, n
        <5> QED
          BY <1>1, <2>1, <3>1, <4>1, <5>1
      <4>2. CASE q # p
        <5>1. ReadyOf(q)' = 0
          BY <3>2, <4>2 DEF ReadyOf
        <5>2. Len(written'[q]) = frontier'[q] /\ frontier'[q] \in Nat
          BY <1>1, <2>1, <3>1, <4>2
        <5> QED
          BY <5>1, <5>2
      <4> QED
        BY <4>1, <4>2
    <3>5. ASSUME NEW i \in DOMAIN ready'
          PROVE  ready'[i] = <<ready'[1][1], Len(written'[ready'[1][1]]) + i - 1>>
      <4>1. i \in 1..n /\ 1 \in 1..n
        BY <1>3, <3>5
      <4>2. ready'[1][1] = p /\ Len(written'[p]) = frontier[p]
        BY <1>1, <1>3, <3>1, <4>1
      <4> QED
        BY <1>3, <4>1, <4>2
    <3> QED
      BY <3>1, <3>4, <3>5
  <2> QED
    BY <2>2, <2>3, <2>4, <2>5 DEF OrderedWell, InOrder, Range
<1> QED
  BY <1>2, <1>3, OrderIs

LEMMA WriteKeeps ==
    ASSUME IInv, RunWell, OrderedWell, Ordered, Next, Write
    PROVE  OrderedWell'
<1> DEFINE r == Head(ready)
           p == r[1]
           m == Len(ready)
           L == Len(written[p])
<1>1. /\ r = ready[1] /\ p \in Partitions /\ r[2] \in Nat /\ r = <<p, r[2]>>
      /\ ready' = Tail(ready) /\ m \in Nat \ {0} /\ r \in RecordType
      /\ \/ UNCHANGED written /\ wfail' # None
         \/ /\ written' = [written EXCEPT ![p] = Append(@, r[2])]
            /\ wfail = None /\ wfail' = None
  BY WritingIs
<1>2. UNCHANGED <<frontier, reorder>> /\ ready # <<>> /\ ready \in Seq(RecordType)
  BY DEF Write, IInv, Typed, TypeOK
<1>3. /\ DOMAIN ready = 1..m /\ Len(Tail(ready)) = m - 1 /\ DOMAIN Tail(ready) = 1..(m - 1)
      /\ \A i \in 1..(m - 1) : Tail(ready)[i] = ready[i + 1]
  <2>1. Tail(ready) \in Seq(RecordType) /\ Len(Tail(ready)) = m - 1
        /\ \A i \in 1..Len(Tail(ready)) : Tail(ready)[i] = ready[i + 1]
    BY <1>2, HeadTailProperties
  <2> QED
    BY <1>2, <2>1, SeqFacts
<1>4. /\ written \in [Partitions -> Seq(Nat)] /\ frontier \in [Partitions -> Nat]
      /\ \A q \in Partitions : Len(written[q]) \in Nat
                            /\ DOMAIN written[q] = 1..Len(written[q])
                            /\ \A s \in Range(written[q]) : s \in Nat
  BY SeqFacts DEF IInv, Typed, TypeOK
<1> HIDE DEF r, p, m, L
<1>5. \A x \in Ahead' : frontier'[x[1]] <= x[2]
  BY <1>2, AheadStays
<1>6. \A x \in reorder' : x[2] # frontier'[x[1]]
  BY <1>2 DEF OrderedWell
<1>7. CASE UNCHANGED written /\ wfail' # None
  <2>1. \A q \in Partitions : \A s \in Range(written'[q]) : s < frontier'[q]
    BY <1>2, <1>7 DEF OrderedWell
  <2> QED
    BY <1>5, <1>6, <1>7, <2>1 DEF OrderedWell, Range
<1>8. CASE /\ written' = [written EXCEPT ![p] = Append(@, r[2])]
           /\ wfail = None /\ wfail' = None
  <2>1. /\ \A q \in Partitions : /\ InOrder(written[q])
                               /\ Len(written[q]) + ReadyOf(q) = frontier[q]
        /\ \A i \in 1..m : ready[i] = <<ready[1][1], Len(written[ready[1][1]]) + i - 1>>
    BY <1>3, <1>8 DEF OrderedWell
  <2>2. /\ L \in Nat /\ ready[1][1] = p /\ ready[1][2] = r[2] /\ r[2] = L
        /\ \A i \in 1..m : ready[i] = <<p, L + i - 1>>
    <3>1. ready[1][1] = p /\ ready[1][2] = r[2] /\ L \in Nat
      BY <1>1, <1>4 DEF L, p
    <3>2. \A i \in 1..m : ready[i] = <<p, L + i - 1>>
      BY <2>1, <3>1 DEF L
    <3>3. 1 \in 1..m
      BY <1>1
    <3>4. ready[1] = <<p, L + 1 - 1>>
      BY <3>2, <3>3
    <3> QED
      BY <3>1, <3>2, <3>4
  <2>3. L + m = frontier[p]
    <3>1. ReadyOf(p) = m
      BY <1>2, <2>2 DEF ReadyOf, m
    <3> QED
      BY <1>1, <2>1, <3>1 DEF L
  <2>4. /\ written'[p] = Append(written[p], L)
        /\ \A q \in Partitions : q # p => written'[q] = written[q]
    BY <1>1, <1>4, <1>8, <2>2
  <2>5. /\ Len(written'[p]) = L + 1 /\ DOMAIN written'[p] = 1..(L + 1)
        /\ \A i \in 1..L : written'[p][i] = written[p][i]
        /\ written'[p][L + 1] = L
        /\ Range(written'[p]) = Range(written[p]) \union {L}
    <3> DEFINE t == Append(written[p], L)
    <3>1. written[p] \in Seq(Nat) /\ L \in Nat
      BY <1>1, <1>4, <2>2
    <3>2. /\ t \in Seq(Nat) /\ Len(t) = L + 1 /\ t[L + 1] = L
          /\ \A i \in 1..L : t[i] = written[p][i]
      BY <3>1, AppendProperties DEF L
    <3>3. DOMAIN t = 1..(L + 1)
      BY <3>2, SeqFacts
    <3>4. Range(t) = Range(written[p]) \union {L}
      BY <3>1, RangeAppend
    <3> QED
      BY <2>4, <3>2, <3>3, <3>4
  <2>6. \A q \in Partitions : InOrder(written'[q])
    <3>1. InOrder(written'[p])
      <4>1. \A i \in 1..(L + 1) : i \in 1..L \/ (i = L + 1 /\ L = i - 1)
        BY <2>2
      <4>2. \A i \in 1..L : written[p][i] = i - 1
        BY <1>1, <1>4, <2>1 DEF InOrder, L
      <4> QED
        BY <2>5, <4>1, <4>2 DEF InOrder
    <3> QED
      BY <2>1, <2>4, <3>1
  <2>7. \A q \in Partitions : \A s \in Range(written'[q]) : s < frontier'[q]
    <3>1. L < frontier[p]
      BY <1>1, <2>2, <2>3
    <3>2. \A q \in Partitions : \A s \in Range(written[q]) : s < frontier[q]
      BY DEF OrderedWell
    <3> QED
      BY <1>1, <1>2, <2>4, <2>5, <3>1, <3>2
  <2>8. /\ DOMAIN ready' = 1..(m - 1) /\ Len(ready') = m - 1
        /\ \A i \in 1..(m - 1) : ready'[i] = <<p, Len(written'[p]) + i - 1>>
    <3>1. m \in Nat \ {0} /\ L \in Nat
      BY <1>1, <2>2
    <3>2. \A i \in 1..(m - 1) : i + 1 \in 1..m /\ L + (i + 1) - 1 = (L + 1) + i - 1
      BY <3>1
    <3> QED
      BY <1>1, <1>3, <2>2, <2>5, <3>2
  <2>9. ready' # <<>> => m - 1 > 0 /\ ready'[1][1] = p
    <3>1. ready' \in Seq(RecordType)
      BY <1>1, <1>2, HeadTailProperties
    <3>2. ready' # <<>> => m - 1 # 0
      BY <2>8, <3>1, EmptySeq
    <3>3. m \in Nat \ {0}
      BY <1>1
    <3>4. m - 1 # 0 => 1 \in 1..(m - 1) /\ m - 1 > 0
      BY <3>3
    <3>5. 1 \in 1..(m - 1) => ready'[1][1] = p
      BY <2>8
    <3> QED
      BY <3>2, <3>4, <3>5
  <2>10. ASSUME NEW q \in Partitions PROVE Len(written'[q]) + ReadyOf(q)' = frontier'[q]
    <3>1. CASE q = p
      <4>1. ReadyOf(q)' = m - 1
        <5>1. ready' = <<>> => m - 1 = 0
          BY <2>8
        <5> QED
          BY <2>8, <2>9, <3>1, <5>1 DEF ReadyOf
      <4>2. m \in Nat /\ L \in Nat /\ frontier'[p] = L + m /\ Len(written'[p]) = L + 1
        BY <1>1, <1>2, <2>2, <2>3, <2>5
      <4>3. (L + 1) + (m - 1) = L + m
        BY <4>2
      <4> QED
        BY <3>1, <4>1, <4>2, <4>3
    <3>2. CASE q # p
      <4>1. ReadyOf(q)' = 0
        BY <2>9, <3>2 DEF ReadyOf
      <4>2. ReadyOf(q) = 0
        BY <2>2, <3>2 DEF ReadyOf
      <4> QED
        BY <1>2, <2>1, <2>4, <3>2, <4>1, <4>2
    <3> QED
      BY <3>1, <3>2
  <2>11. ASSUME NEW i \in DOMAIN ready'
         PROVE  ready'[i] = <<ready'[1][1], Len(written'[ready'[1][1]]) + i - 1>>
    <3>1. i \in 1..(m - 1) /\ 1 \in 1..(m - 1)
      BY <1>1, <2>8, <2>11
    <3>2. ready'[1][1] = p
      BY <2>8, <3>1
    <3> QED
      BY <2>8, <3>1, <3>2
  <2> QED
    BY <1>5, <1>6, <2>6, <2>7, <2>10, <2>11 DEF OrderedWell, InOrder, Range
<1> QED
  BY <1>1, <1>7, <1>8

LEMMA OrderedStays ==
    ASSUME IInv, RunWell, OrderedWell, Next
    PROVE  OrderedWell'
<1> SUFFICES ASSUME Ordered PROVE OrderedWell'
  <2>1. Ordered' <=> Ordered
    BY DEF Next, Ordered
  <2> QED
    BY <2>1 DEF OrderedWell
<1>1. CASE Order
  BY <1>1, OrderKeeps
<1>2. CASE Write
  BY <1>2, WriteKeeps
<1>3. CASE ~Order /\ ~Write
  <2>1. UNCHANGED <<frontier, ready, written>> /\ reorder' \subseteq reorder
        /\ (wfail' = None => wfail = None)
    BY <1>3, QuietOrNot
       DEF Stirs, Quiet, writerVars, Admit, FlushWork, FlushCompletion, FlushSent,
       PollerOnly, TakeWork, SendCompletion, SendCompletionFails, WorkerPanic, WorkerOnly,
       TakeCompletion, Direct
  <2> QED
    BY <2>1, OrderedKeeps
<1> QED
  BY <1>1, <1>2, <1>3

LEMMA RisingAppends ==
    ASSUME NEW s \in Seq(RecordType), NEW r \in RecordType, Rising(s), Before(Range(s), {r})
    PROVE  Rising(Append(s, r))
<1> DEFINE t == Append(s, r)
           n == Len(s)
<1>1. n \in Nat /\ DOMAIN s = 1..n
  BY SeqFacts
<1>2. /\ t \in Seq(RecordType) /\ Len(t) = n + 1 /\ t[n + 1] = r
      /\ \A i \in 1..n : t[i] = s[i]
  BY AppendProperties
<1>3. DOMAIN t = 1..(n + 1)
  BY <1>2, SeqFacts
<1> HIDE DEF t, n
<1>4. \A i, j \in 1..(n + 1) : i < j => i \in 1..n /\ (j \in 1..n \/ j = n + 1)
  BY <1>1
<1>5. \A i \in 1..n : s[i][1] = r[1] => s[i][2] < r[2]
  BY <1>1 DEF Before, Range
<1> QED
  BY <1>1, <1>2, <1>3, <1>4, <1>5 DEF Rising, t

LEMMA RisingTail ==
    ASSUME NEW s \in Seq(RecordType), s # <<>>, IsInjective(s), Rising(s)
    PROVE  Rising(Tail(s)) /\ Before({Head(s)}, Range(Tail(s)))
<1>1. \A i \in DOMAIN Tail(s) : i + 1 \in DOMAIN s /\ Tail(s)[i] = s[i + 1] /\ 1 < i + 1 /\ i \in Nat
  <2>1. \A i \in DOMAIN Tail(s) : i + 1 \in DOMAIN s /\ Tail(s)[i] = s[i + 1]
    BY RangeTail
  <2>2. DOMAIN Tail(s) \subseteq Nat \ {0}
    BY RangeTail, SeqFacts
  <2>3. \A i \in Nat \ {0} : 1 < i + 1
    OBVIOUS
  <2> QED
    BY <2>1, <2>2, <2>3
<1>2. 1 \in DOMAIN s /\ Head(s) = s[1]
  BY SeqFacts
<1>3. Rising(Tail(s))
  <2> SUFFICES ASSUME NEW i \in DOMAIN Tail(s), NEW j \in DOMAIN Tail(s), i < j,
                      Tail(s)[i][1] = Tail(s)[j][1]
               PROVE  Tail(s)[i][2] < Tail(s)[j][2]
    BY DEF Rising
  <2>1. i + 1 < j + 1
    BY <1>1
  <2> QED
    BY <1>1, <2>1 DEF Rising
<1>4. Before({Head(s)}, Range(Tail(s)))
  BY <1>1, <1>2 DEF Before, Range, Rising
<1> QED
  BY <1>3, <1>4

\* The records in line were admitted.
LEMMA LineIsUpstream ==
    ASSUME IInv
    PROVE  /\ Line \subseteq Upstream
           /\ \A x \in Line : x \in RecordType /\ x[1] \in Partitions /\ x[2] \in Nat
                            /\ x[2] < next[x[1]] /\ x = <<x[1], x[2]>>
<1>1. Line \subseteq Upstream /\ Line \subseteq Located
  BY StageIs DEF Line, Upstream, Located, Places
<1> QED
  BY <1>1 DEF IInv, CreditsWell, RecordType

LEMMA LineIsPrimed ==
    Line' = Range(ready') \union Range(wbatch') \union Recs(completion') \union Recs(buf')
  BY DEF Line, Recs, Range

LEMMA LineAdmits ==
    ASSUME IInv, LineRises, LineKeeps, LineFull, NEW c \in Pollers, Admit(c)
    PROVE  LineRises' /\ LineKeeps' /\ LineFull'
<1> DEFINE p == pending[c]
           n == next[p]
           r == <<p, n>>
<1>1. /\ p \in Partitions /\ r \in RecordType
      /\ Stage("buf")' = Stage("buf") \union {r}
      /\ buf' \in [Pollers -> Seq(RecordType)]
  BY AdmitAdds
<1>2. /\ buf' = [buf EXCEPT ![c] = Append(buf[c], r)] /\ next' = [next EXCEPT ![p] = @ + 1]
      /\ UNCHANGED <<completion, wbatch, ready, written, wfail>>
  BY DEF Admit, PollerOnly, writerVars
<1>3. /\ Recs(buf') = Recs(buf) \union {r} /\ n \in Nat
      /\ next' \in [Partitions -> Nat] /\ next'[p] = n + 1
      /\ \A q \in Partitions : q # p => next'[q] = next[q]
  BY <1>1, <1>2, StageIs, StageIsPrimed DEF IInv, Typed, TypeOK
<1>4. Before(Line, {r})
  BY LineIsUpstream DEF Before
<1> HIDE DEF r
<1>5. LineRises'
  <2>1. /\ buf[c] \in Seq(RecordType) /\ DOMAIN buf = Pollers
        /\ Range(buf[c]) \subseteq Line
    BY Buffers DEF IInv, Line
  <2>2. Rising(Append(buf[c], r))
    BY <1>1, <1>4, <2>1, RisingAppends DEF LineRises, Before
  <2>3. \A d \in Pollers : Rising(buf'[d])
    BY <1>2, <2>1, <2>2 DEF LineRises
  <2> QED
    BY <1>2, <2>3 DEF LineRises, Rising
<1>6. LineKeeps'
  <2>1. Before(Range(ready) \union Range(wbatch) \union Recs(completion), Recs(buf'))
    BY <1>3, <1>4 DEF LineKeeps, Before, Line
  <2> QED
    BY <1>2, <2>1 DEF LineKeeps, Before, Recs, Range
<1>7. LineFull'
  <2>1. Line' = Line \union {r}
    BY <1>2, <1>3, LineIsPrimed DEF Line
  <2> SUFFICES ASSUME wfail = None, NEW q \in Partitions, NEW s \in 0..(next'[q] - 1)
               PROVE  InOrder(written[q]) /\ (s < Len(written[q]) \/ <<q, s>> \in Line')
    BY <1>2 DEF LineFull, InOrder
  <2>2. CASE q = p /\ s = n
    BY <2>1, <2>2 DEF LineFull, r
  <2>3. CASE ~(q = p /\ s = n)
    <3>1. next[q] \in Nat /\ next'[q] \in Nat
      BY <1>3 DEF IInv, Typed, TypeOK
    <3>2. s \in 0..(next[q] - 1)
      BY <1>3, <2>3, <3>1
    <3> QED
      BY <2>1, <3>2 DEF LineFull
  <2> QED
    BY <2>2, <2>3
<1> QED
  BY <1>5, <1>6, <1>7

LEMMA LineFlushes ==
    ASSUME IInv, LineRises, LineKeeps, LineFull, NEW c \in Pollers, FlushCompletion(c)
    PROVE  LineRises' /\ LineKeeps' /\ LineFull'
<1> DEFINE b == buf[c]
           t == Append(completion, b)
<1>1. /\ buf' = [buf EXCEPT ![c] = <<>>] /\ completion' = t
      /\ UNCHANGED <<wbatch, ready, written, wfail, next>>
  BY DEF FlushCompletion, FlushSent, PollerOnly, writerVars, admissionVars
<1>2. /\ b \in Seq(RecordType) /\ IsInjective(b) /\ Range(b) \subseteq Recs(buf)
      /\ Recs(buf') = Recs(buf) \ Range(b) /\ DOMAIN buf = Pollers
  BY <1>1, Buffers DEF IInv
<1>3. /\ completion \in Seq(Seq(RecordType)) /\ Flat(completion)
      /\ Range(b) \intersect Recs(completion) = {}
  <2>1. Stage("buf") \intersect Stage("completion") = {}
    BY DEF IInv, Apart, Places
  <2> QED
    BY <1>2, <2>1, StageIs, WriterTail
<1>4. /\ Recs(completion') = Recs(completion) \union Range(b)
      /\ Len(completion) \in Nat /\ DOMAIN completion = 1..Len(completion)
      /\ DOMAIN t = 1..(Len(completion) + 1) /\ t[Len(completion) + 1] = b
      /\ \A i \in 1..Len(completion) : t[i] = completion[i]
  <2>1. Recs(t) = Recs(completion) \union Range(b)
    BY <1>2, <1>3, FlatAppend
  <2>2. Len(completion) \in Nat /\ DOMAIN completion = 1..Len(completion)
    BY <1>3, SeqFacts
  <2>3. /\ t \in Seq(Seq(RecordType)) /\ Len(t) = Len(completion) + 1
        /\ t[Len(completion) + 1] = b /\ \A i \in 1..Len(completion) : t[i] = completion[i]
    BY <1>2, <1>3, AppendProperties
  <2>4. DOMAIN t = 1..(Len(completion) + 1)
    BY <2>3, SeqFacts
  <2> QED
    BY <1>1, <2>1, <2>2, <2>3, <2>4
<1> DEFINE n == Len(completion)
<1> HIDE DEF b, t, n
<1>5. \A i \in 1..(n + 1) : i \in 1..n \/ i = n + 1
  BY <1>4 DEF n
<1>6. LineRises'
  <2>1. Rising(<<>>) /\ Rising(b)
    BY DEF Rising, LineRises, b
  <2>2. \A d \in Pollers : Rising(buf'[d])
    BY <1>1, <1>2, <2>1 DEF LineRises
  <2>3. \A i \in DOMAIN t : Rising(t[i])
    BY <1>4, <1>5, <2>1 DEF LineRises, n
  <2> QED
    BY <1>1, <2>2, <2>3 DEF LineRises, Rising
<1>7. Before(Range(b), Recs(buf'))
  <2> SUFFICES ASSUME NEW x \in Range(b), NEW y \in Recs(buf'), x[1] = y[1] PROVE FALSE
    BY DEF Before
  <2>1. y \in Recs(buf) /\ y \notin Range(b)
    BY <1>2
  <2>2. PICK d \in Pollers : y \in Range(buf[d])
    BY <1>2, <2>1 DEF Recs
  <2>3. Owner(y) = d /\ Owner(x) = c
    BY <2>2 DEF IInv, BatchesWell, b
  <2> QED
    BY <2>1, <2>2, <2>3 DEF Owner, b
<1>8. LineKeeps'
  <2>1. ASSUME NEW i \in DOMAIN t, NEW j \in DOMAIN t, i < j
        PROVE  Before(Range(t[i]), Range(t[j]))
    <3>1. i \in 1..n /\ t[i] = completion[i] /\ Range(t[i]) \subseteq Recs(completion)
      <4>1. i \in 1..n
        BY <1>4, <1>5, <2>1 DEF n
      <4> QED
        BY <1>4, <4>1 DEF Recs, n
    <3>2. CASE j \in 1..n
      BY <1>4, <2>1, <3>1, <3>2 DEF LineKeeps, n
    <3>3. CASE j = n + 1
      BY <1>2, <1>4, <3>1, <3>3 DEF LineKeeps, Before, n
    <3> QED
      BY <1>4, <1>5, <3>2, <3>3 DEF n
  <2>2. Before(Range(ready) \union Range(wbatch), Recs(completion'))
    BY <1>2, <1>4 DEF LineKeeps, Before
  <2>3. Before(Range(ready) \union Range(wbatch) \union Recs(completion'), Recs(buf'))
    BY <1>2, <1>4, <1>7 DEF LineKeeps, Before
  <2>4. \A i, j \in DOMAIN completion' : i < j => Before(Range(completion'[i]), Range(completion'[j]))
    BY <1>1, <2>1
  <2>5. Before(Range(ready'), Range(wbatch'))
    BY <1>1 DEF LineKeeps
  <2>6. /\ Before(Range(ready') \union Range(wbatch'), Recs(completion'))
        /\ Before(Range(ready') \union Range(wbatch') \union Recs(completion'), Recs(buf'))
    BY <1>1, <2>2, <2>3
  <2> QED
    BY <2>4, <2>5, <2>6 DEF LineKeeps, Before, Recs, Range
<1>9. LineFull'
  <2>1. Line' = Line
    BY <1>1, <1>2, <1>4, LineIsPrimed DEF Line
  <2> QED
    BY <1>1, <2>1 DEF LineFull, InOrder
<1> QED
  BY <1>6, <1>8, <1>9

LEMMA LineIsTaken ==
    ASSUME IInv, LineRises, LineKeeps, LineFull, TakeCompletion
    PROVE  LineRises' /\ LineKeeps' /\ LineFull'
<1> DEFINE b == Head(completion)
           t == Tail(completion)
<1>1. /\ wbatch' = b /\ completion' = t /\ completion # <<>>
      /\ wbatch = <<>> /\ ready = <<>>
      /\ UNCHANGED <<buf, ready, written, wfail, next>>
  BY DEF TakeCompletion, Resting, WriterOnly, pollerVars, loopVars, admissionVars
<1>2. /\ Range(b) \subseteq Recs(completion) /\ Recs(t) = Recs(completion) \ Range(b)
      /\ 1 \in DOMAIN completion /\ b = completion[1]
      /\ \A i \in DOMAIN t : i + 1 \in DOMAIN completion /\ t[i] = completion[i + 1]
  BY <1>1, FlatTail, WriterTail
<1>3. \A i \in DOMAIN t : i \in Nat /\ 1 < i + 1
  <2>1. t \in Seq(Seq(RecordType))
    BY <1>1, FlatTail, WriterTail
  <2>2. DOMAIN t \subseteq Nat \ {0}
    BY <2>1, SeqFacts
  <2>3. \A i \in Nat \ {0} : 1 < i + 1
    OBVIOUS
  <2> QED
    BY <2>2, <2>3
<1> HIDE DEF b, t
<1>4. LineRises'
  <2>1. Rising(b) /\ \A i \in DOMAIN t : Rising(t[i])
    BY <1>2 DEF LineRises
  <2> QED
    BY <1>1, <2>1 DEF LineRises, Rising
<1>5. LineKeeps'
  <2>1. ASSUME NEW i \in DOMAIN t, NEW j \in DOMAIN t, i < j
        PROVE  Before(Range(t[i]), Range(t[j]))
    <3>1. i + 1 < j + 1
      BY <1>3, <2>1
    <3> QED
      BY <1>2, <3>1 DEF LineKeeps
  <2>2. Before(Range(b), Recs(t))
    <3> SUFFICES ASSUME NEW x \in Range(b), NEW y \in Recs(t), x[1] = y[1] PROVE x[2] < y[2]
      BY DEF Before
    <3>1. PICK i \in DOMAIN t : y \in Range(t[i])
      BY DEF Recs
    <3>2. Before(Range(completion[1]), Range(completion[i + 1]))
      BY <1>2, <1>3 DEF LineKeeps
    <3> QED
      BY <1>2, <3>1, <3>2 DEF Before
  <2>3. Range(ready) = {} /\ Range(wbatch) = {}
    BY <1>1, EmptyBatch
  <2>4. Before(Range(b) \union Recs(t), Recs(buf))
    BY <1>2 DEF LineKeeps, Before
  <2>5. /\ \A i, j \in DOMAIN completion' :
            i < j => Before(Range(completion'[i]), Range(completion'[j]))
        /\ Before(Range(ready'), Range(wbatch'))
        /\ Before(Range(ready') \union Range(wbatch'), Recs(completion'))
        /\ Before(Range(ready') \union Range(wbatch') \union Recs(completion'), Recs(buf'))
    <3>1. \A i, j \in DOMAIN completion' :
            i < j => Before(Range(completion'[i]), Range(completion'[j]))
      BY <1>1, <2>1
    <3>2. ready' = ready /\ wbatch' = b /\ completion' = t /\ buf' = buf
      BY <1>1
    <3>3. Before(Range(ready'), Range(wbatch'))
      BY <2>3, <3>2 DEF Before
    <3>4. Before(Range(ready') \union Range(wbatch'), Recs(completion'))
      BY <2>2, <2>3, <3>2
    <3>5. Before(Range(ready') \union Range(wbatch') \union Recs(completion'), Recs(buf'))
      BY <2>3, <2>4, <3>2
    <3> QED
      BY <3>1, <3>3, <3>4, <3>5
  <2> QED
    BY <2>5 DEF LineKeeps, Before, Recs, Range
<1>6. LineFull'
  <2>1. Line' = Line
    <3>1. Range(ready) = {} /\ Range(wbatch) = {} /\ Range(ready') = {}
      BY <1>1, EmptyBatch
    <3> QED
      BY <1>1, <1>2, <3>1, LineIsPrimed DEF Line
  <2> QED
    BY <1>1, <2>1 DEF LineFull, InOrder
<1> QED
  BY <1>4, <1>5, <1>6

LEMMA LinePasses ==
    ASSUME IInv, LineRises, LineKeeps, LineFull, Direct
    PROVE  LineRises' /\ LineKeeps' /\ LineFull'
<1> DEFINE r == Head(wbatch)
           t == Tail(wbatch)
           one == <<r>>
<1>1. /\ wbatch' = t /\ wbatch # <<>> /\ ready = <<>> /\ ready' = one
      /\ UNCHANGED <<buf, completion, written, wfail, next>>
  BY DEF Direct, WriterOnly, pollerVars, loopVars, admissionVars
<1>2. /\ r \in Range(wbatch) /\ Range(t) = Range(wbatch) \ {r}
      /\ Rising(t) /\ Before({r}, Range(t))
  <2>1. wbatch \in Seq(RecordType) /\ IsInjective(wbatch) /\ Rising(wbatch)
    BY WriterTail DEF LineRises
  <2> QED
    BY <1>1, <2>1, RangeTail, RisingTail
<1>3. Range(one) = {r} /\ Len(one) = 1
  BY DEF Range
<1>4. Range(ready) = {}
  BY <1>1, EmptyBatch
<1> HIDE DEF r, t, one
<1>5. LineRises'
  BY <1>1, <1>2, <1>3 DEF LineRises, Rising
<1>6. LineKeeps'
  <2>1. Range(ready') \union Range(wbatch') = Range(ready) \union Range(wbatch)
    BY <1>1, <1>2, <1>3, <1>4
  <2>2. Before(Range(ready'), Range(wbatch'))
    BY <1>1, <1>2, <1>3
  <2>3. completion' = completion /\ buf' = buf
    BY <1>1
  <2>4. /\ Before(Range(ready') \union Range(wbatch'), Recs(completion'))
        /\ Before(Range(ready') \union Range(wbatch') \union Recs(completion'), Recs(buf'))
    BY <2>1, <2>3 DEF LineKeeps
  <2>5. \A i, j \in DOMAIN completion' : i < j => Before(Range(completion'[i]), Range(completion'[j]))
    BY <2>3 DEF LineKeeps
  <2> QED
    BY <2>2, <2>4, <2>5 DEF LineKeeps, Before, Recs, Range
<1>7. LineFull'
  <2>1. Line' = Line
    BY <1>1, <1>2, <1>3, <1>4, LineIsPrimed DEF Line
  <2> QED
    BY <1>1, <2>1 DEF LineFull, InOrder
<1> QED
  BY <1>5, <1>6, <1>7

LEMMA LineIsWritten ==
    ASSUME IInv, WrittenWell, LineRises, LineKeeps, LineFull, Next, Write
    PROVE  LineRises' /\ LineKeeps' /\ LineFull'
<1> DEFINE r == Head(ready)
           p == r[1]
           L == Len(written[p])
<1>1. /\ r = ready[1] /\ p \in Partitions /\ r[2] \in Nat /\ r = <<p, r[2]>>
      /\ r[2] < next[p] /\ r \in Upstream /\ r \in Range(ready)
      /\ ready' = Tail(ready) /\ Len(ready) \in Nat \ {0}
      /\ \/ UNCHANGED written /\ wfail' # None
         \/ /\ written' = [written EXCEPT ![p] = Append(@, r[2])]
            /\ wfail = None /\ wfail' = None
  BY WritingIs
<1>2. UNCHANGED <<buf, completion, wbatch, next>> /\ ready # <<>> /\ ready \in Seq(RecordType)
  BY DEF Write, WriterOnly, pollerVars, loopVars, admissionVars, IInv, Typed, TypeOK
<1>3. Len(ready) = 1 /\ ready' = <<>> /\ Range(ready) = {r}
  <2>1. Len(ready) = 1
    <3>1. Len(ready) \in Nat \ {0}
      BY <1>1
    <3>2. Len(ready) <= 1
      BY DEF LineRises
    <3>3. \A n \in Nat \ {0} : n <= 1 => n = 1
      OBVIOUS
    <3> QED
      BY <3>1, <3>2, <3>3
  <2>2. Tail(ready) \in Seq(RecordType) /\ Len(Tail(ready)) = 0
    BY <1>2, <2>1, HeadTailProperties
  <2>3. DOMAIN ready = {1}
    BY <1>2, <2>1, SeqFacts
  <2> QED
    BY <1>1, <2>1, <2>2, <2>3, EmptySeq DEF Range
<1>4. Range(ready') = {}
  BY <1>3, EmptyBatch
<1> HIDE DEF r, p, L
<1>5. LineRises'
  <2>1. Len(ready') <= 1
    BY <1>3
  <2> QED
    BY <1>2, <2>1 DEF LineRises, Rising
<1>6. LineKeeps'
  <2>1. /\ Before(Range(ready'), Range(wbatch'))
        /\ Before(Range(ready') \union Range(wbatch'), Recs(completion'))
        /\ Before(Range(ready') \union Range(wbatch') \union Recs(completion'), Recs(buf'))
    BY <1>2, <1>4 DEF LineKeeps, Before
  <2>2. \A i, j \in DOMAIN completion' : i < j => Before(Range(completion'[i]), Range(completion'[j]))
    BY <1>2 DEF LineKeeps
  <2> QED
    BY <2>1, <2>2 DEF LineKeeps, Before, Recs, Range
<1>7. LineFull'
  <2>1. CASE wfail' # None
    BY <2>1 DEF LineFull
  <2>2. CASE written' = [written EXCEPT ![p] = Append(@, r[2])] /\ wfail = None
    <3>1. /\ \A q \in Partitions : InOrder(written[q])
          /\ \A q \in Partitions : \A s \in 0..(next[q] - 1) :
                s < Len(written[q]) \/ <<q, s>> \in Line
      BY <2>2 DEF LineFull
    <3>2. /\ written \in [Partitions -> Seq(Nat)] /\ written[p] \in Seq(Nat)
          /\ L \in Nat /\ DOMAIN written[p] = 1..L /\ next[p] \in Nat
      BY <1>1, SeqFacts DEF IInv, Typed, TypeOK, L
    <3>3. Line = {r} \union Line'
      BY <1>2, <1>3, <1>4, LineIsPrimed DEF Line
    <3>4. Before({r}, Line')
      BY <1>2, <1>3, <1>4, LineIsPrimed DEF LineKeeps, Before
    <3>5. r[2] = L
      <4>1. ~(r[2] < L)
        <5> SUFFICES ASSUME r[2] < L PROVE FALSE
          OBVIOUS
        <5>1. r[2] + 1 \in DOMAIN written[p] /\ (r[2] + 1) - 1 = r[2]
          BY <1>1, <3>2
        <5>2. written[p][r[2] + 1] = r[2]
          BY <1>1, <3>1, <5>1 DEF InOrder
        <5>3. r[2] \in Range(written[p])
          BY <5>1, <5>2 DEF Range
        <5> QED
          BY <1>1, <5>3 DEF WrittenWell
      <4>2. ~(L < r[2])
        <5> SUFFICES ASSUME L < r[2] PROVE FALSE
          OBVIOUS
        <5>1. L \in 0..(next[p] - 1) /\ ~(L < L)
          BY <1>1, <3>2
        <5>2. <<p, L>> \in Line
          BY <1>1, <3>1, <5>1 DEF L
        <5>3. <<p, L>> \in Line'
          BY <1>1, <3>2, <3>3, <5>2
        <5>4. r[2] < <<p, L>>[2]
          BY <1>1, <3>4, <5>3 DEF Before
        <5> QED
          BY <1>1, <3>2, <5>4
      <4> QED
        BY <1>1, <3>2, <4>1, <4>2
    <3> DEFINE t == Append(written[p], L)
    <3>6. /\ Len(t) = L + 1 /\ DOMAIN t = 1..(L + 1) /\ t[L + 1] = L
          /\ \A i \in 1..L : t[i] = written[p][i]
      <4>1. /\ t \in Seq(Nat) /\ Len(t) = L + 1 /\ t[L + 1] = L
            /\ \A i \in 1..L : t[i] = written[p][i]
        BY <3>2, AppendProperties DEF L
      <4>2. DOMAIN t = 1..(L + 1)
        BY <4>1, SeqFacts
      <4> QED
        BY <4>1, <4>2
    <3>7. written'[p] = t /\ \A q \in Partitions : q # p => written'[q] = written[q]
      BY <1>1, <2>2, <3>2, <3>5
    <3> HIDE DEF t
    <3>8. InOrder(t)
      <4>1. \A i \in 1..(L + 1) : i \in 1..L \/ (i = L + 1 /\ L = i - 1)
        BY <3>2
      <4>2. \A i \in 1..L : written[p][i] = i - 1
        BY <1>1, <3>1, <3>2 DEF InOrder
      <4> QED
        BY <3>6, <4>1, <4>2 DEF InOrder
    <3>9. ASSUME NEW q \in Partitions, NEW s \in 0..(next[q] - 1)
          PROVE  s < Len(written'[q]) \/ <<q, s>> \in Line'
      <4>1. s < Len(written[q]) \/ <<q, s>> \in Line
        BY <3>1
      <4>2. CASE q # p
        <5>1. <<q, s>> # r
          BY <1>1, <4>2
        <5> QED
          BY <3>3, <3>7, <4>1, <4>2, <5>1
      <4>3. CASE q = p
        <5>1. s \in Nat /\ L < L + 1 /\ (s < L => s < L + 1)
          BY <1>1, <3>2, <3>9, <4>3
        <5>2. <<q, s>> = r => s = L
          BY <1>1, <3>5
        <5> QED
          BY <3>3, <3>6, <3>7, <4>1, <4>3, <5>1, <5>2 DEF L
      <4> QED
        BY <4>2, <4>3
    <3>10. \A q \in Partitions : InOrder(written'[q])
      BY <3>1, <3>7, <3>8
    <3> QED
      BY <1>2, <3>9, <3>10 DEF LineFull, InOrder
  <2> QED
    BY <1>1, <2>1, <2>2
<1> QED
  BY <1>5, <1>6, <1>7

LEMMA DirectStays ==
    ASSUME IInv, RunWell, WrittenWell, DirectWell, Next
    PROVE  DirectWell'
<1>1. mode' = mode /\ (Ordered' <=> Ordered)
  BY DEF Next, Ordered
<1>2. ASSUME ~Ordered PROVE reorder' = {}
  <2>1. reorder' \subseteq reorder
    BY <1>2, QuietOrNot
       DEF Stirs, Quiet, writerVars, Admit, FlushWork, FlushCompletion, FlushSent,
       PollerOnly, TakeWork, SendCompletion, SendCompletionFails, WorkerPanic, WorkerOnly,
       TakeCompletion, Direct, Order, Write
  <2> QED
    BY <1>2, <2>1 DEF DirectWell
<1>3. ASSUME mode = "direct" PROVE work' = <<>> /\ LineRises' /\ LineKeeps' /\ LineFull'
  <2>1. /\ ~Ordered /\ ~ParsesJson /\ work = <<>> /\ LineRises /\ LineKeeps /\ LineFull
        /\ \A w \in Workers : worker[w] = "unborn"
    BY <1>3 DEF Ordered, ParsesJson, DirectWell, IInv, ThreadsWell
  <2>2. ASSUME NEW c \in Pollers, Admit(c) PROVE work' = work /\ LineRises' /\ LineKeeps' /\ LineFull'
    BY <2>1, <2>2, LineAdmits DEF Admit
  <2>3. ASSUME NEW c \in Pollers, FlushCompletion(c)
        PROVE  work' = work /\ LineRises' /\ LineKeeps' /\ LineFull'
    BY <2>1, <2>3, LineFlushes DEF FlushCompletion
  <2>4. CASE TakeCompletion
    BY <2>1, <2>4, LineIsTaken DEF TakeCompletion, WriterOnly
  <2>5. CASE Direct
    BY <2>1, <2>5, LinePasses DEF Direct, WriterOnly
  <2>6. CASE Write
    BY <2>1, <2>6, LineIsWritten DEF Write, WriterOnly
  <2>7. CASE Quiet
    <3>1. /\ UNCHANGED <<buf, completion, wbatch, ready, written, next, work>>
          /\ wfail' = None => wfail = None
      BY <2>7 DEF Quiet
    <3>2. LineRises'
      BY <2>1, <3>1 DEF LineRises, Rising
    <3>3. LineKeeps'
      BY <2>1, <3>1 DEF LineKeeps, Before, Recs, Range
    <3>4. LineFull'
      <4>1. Line' = Line
        BY <3>1, LineIsPrimed DEF Line
      <4> QED
        BY <2>1, <3>1, <4>1 DEF LineFull, InOrder
    <3> QED
      BY <2>1, <3>1, <3>2, <3>3, <3>4
  <2>8. ~Order /\ \A c \in Pollers : ~FlushWork(c)
    BY <2>1 DEF Order, FlushWork
  <2>9. \A w \in Workers :
          ~(TakeWork(w) \/ SendCompletion(w) \/ SendCompletionFails(w) \/ WorkerPanic(w))
    BY <2>1 DEF TakeWork, SendCompletion, SendCompletionFails, WorkerPanic
  <2> QED
    BY <2>1, <2>2, <2>3, <2>4, <2>5, <2>6, <2>7, <2>8, <2>9, QuietOrNot DEF Stirs
<1> QED
  BY <1>1, <1>2, <1>3 DEF DirectWell

-----------------------------------------------------------------------------
\* Why the run stops.

LEMMA Counts ==
    /\ CountLimit # NoCount => CountLimit \in Nat \ {0}
    /\ CountPerPartition # NoCount => CountPerPartition \in Nat \ {0}
    /\ CountLimit = NoCount \/ CountPerPartition = NoCount
    /\ NoPartition \notin Partitions
    /\ None \notin {"startup", "runtime", "output", "claimed", "published"}
  BY PipelineAssumption DEF NoPartition, None

LEMMA StopsStay ==
    ASSUME IInv, SendersWell, StopsWell, Next
    PROVE  StopsWell'
<1> USE DEF failVars, admissionVars, pollerVars, loopVars, workerVars, mainVars, writerVars,
            Fail, Goto, StopsWell
<1>1. /\ poller \in [Pollers -> {"unborn", "top", "poll", "reserve", "flush", "wait",
                                "panicked", "exit", "unstarted"}]
      /\ after \in [Pollers -> {"top", "wait", "drain"}]
      /\ stopping \in [Pollers -> BOOLEAN]
      /\ pending \in [Pollers -> Partitions \union {NoPartition}]
      /\ finished \subseteq Partitions
      /\ \A c \in Pollers : pending[c] \in PartitionsOf(c) \union {NoPartition}
      /\ NoPartition \notin Partitions
      /\ None \notin {"startup", "runtime", "output", "claimed", "published"}
  BY Counts DEF IInv, Typed, TypeOK, ThreadsWell
<1>2. /\ Unbroken' => Unbroken /\ firstFailure' = None
      /\ CountLimit # NoCount => admitted \in Nat /\ CountLimit \in Nat
  BY UnbrokenStays, Counts DEF Unbroken, IInv, Typed, TypeOK
<1>3. ASSUME NEW c \in Pollers, DrainRelease(c) \/ WaitCredits(c) PROVE StopsWell'
  BY <1>1, <1>2, <1>3
     DEF DrainRelease, PollerOnly, TakeCredits, WaitCredits, PartitionsOf, CountReached
<1>4. ASSUME NEW c \in Pollers, CheckStop(c) PROVE StopsWell'
  BY <1>1, <1>2, <1>4
     DEF CheckStop, PollerOnly, PartitionsOf, CountReached
<1>5. ASSUME NEW c \in Pollers, PollRecord(c) PROVE StopsWell'
  BY <1>1, <1>2, <1>5
     DEF PollRecord, PollerOnly, PollOnly, PartitionsOf, CountReached
<1>6. ASSUME NEW c \in Pollers, PollEnd(c) PROVE StopsWell'
  BY <1>1, <1>2, <1>6
     DEF PollEnd, PollerOnly, PollOnly, GoIdle, PartitionsOf, CountReached
<1>7. ASSUME NEW c \in Pollers, PollTimeout(c) PROVE StopsWell'
  BY <1>1, <1>2, <1>7
     DEF PollTimeout, PollerOnly, PollOnly, GoIdle, Polling, PartitionsOf, CountReached
<1>8. ASSUME NEW c \in Pollers, PollDone(c) \/ WaitTimeout(c) PROVE StopsWell'
  BY <1>1, <1>2, <1>8
     DEF PollDone, PollerOnly, PollOnly, WaitTimeout, PartitionsOf, CountReached
<1>9. ASSUME NEW c \in Pollers, PollError(c) PROVE StopsWell'
  BY <1>1, <1>2, <1>9
     DEF PollError, PollerOnly, PollOnly, Polling, PartitionsOf, CountReached
<1>10. ASSUME NEW c \in Pollers, PollerGuard(c) PROVE StopsWell'
  BY <1>1, <1>2, <1>10
     DEF PollerGuard, PollerOnly, PollOnly, PartitionsOf, CountReached
<1>11. ASSUME NEW c \in Pollers, FlushFails(c) \/ WaitDisconnected(c) PROVE StopsWell'
  BY <1>1, <1>2, <1>11
     DEF FlushFails, PollerOnly, Leave, WaitDisconnected, PartitionsOf, CountReached
<1>12. ASSUME NEW c \in Pollers, Admit(c) PROVE StopsWell'
  <2>1. /\ pending' = [pending EXCEPT ![c] = NoPartition] /\ UNCHANGED <<stopping, signal>>
        /\ finished \subseteq finished' /\ finished' \subseteq finished \union {pending[c]}
        /\ admitted' = IF CountLimit = NoCount THEN admitted ELSE admitted + 1
        /\ poller'[c] \in {"flush", "top"}
        /\ \A d \in Pollers : d # c => poller'[d] = poller[d]
    BY <1>1, <1>12 DEF Admit, PollerOnly
  <2>2. /\ firstFailure' = None => firstFailure = None /\ shutdown' = shutdown
        /\ pending[c] \in PartitionsOf(c)
    BY <1>1, <1>12 DEF Admit, IInv, ThreadsWell
  <2>3. CountReached => CountReached'
    BY <1>2, <2>1 DEF CountReached
  <2>4. \A d \in Pollers : d # c => pending[d] # pending[c]
    BY <1>1, <2>2 DEF PartitionsOf
  <2>5. shutdown' => firstFailure' # None \/ signal' # None
    BY <2>1, <2>2
  <2>6. ASSUME NEW d \in Pollers
        PROVE  /\ poller'[d] = "poll" => pending'[d] = NoPartition
               /\ pending'[d] \notin finished'
               /\ poller'[d] = "exit" /\ Unbroken' => stopping'[d]
    BY <1>1, <1>2, <2>1, <2>2, <2>4 DEF PartitionsOf
  <2>7. ASSUME NEW d \in Pollers, stopping'[d], firstFailure' = None, signal' = None
        PROVE  CountReached' \/ PartitionsOf(d) \subseteq finished'
    BY <2>1, <2>2, <2>3, <2>7
  <2> QED
    BY <2>5, <2>6, <2>7 DEF PartitionsOf
<1>13. ASSUME NEW c \in Pollers, Refuse(c) \/ PollerPanic(c) PROVE StopsWell'
  BY <1>1, <1>2, <1>13
     DEF Refuse, PollerOnly, PollOnly, PollerPanic, Polling, PartitionsOf, CountReached
<1>14. ASSUME NEW c \in Pollers, FlushWork(c) \/ FlushCompletion(c) PROVE StopsWell'
  BY <1>1, <1>2, <1>14
     DEF FlushWork, PollerOnly, FlushSent, FlushCompletion, SendersWell, PartitionsOf,
     CountReached
<1>15. ASSUME NEW w \in Workers, TakeWork(w) \/ SendCompletion(w) \/
      SendCompletionFails(w) \/ WorkEnds(w) \/ WorkerGuard(w) \/ WorkerPanic(w) PROVE
      StopsWell'
  BY <1>1, <1>2, <1>15
     DEF TakeWork, SetWorker, WorkerOnly, SendCompletion, SendCompletionFails,
     WorkEnds, WorkerGuard, WorkerPanic, PartitionsOf, CountReached
<1>16. CASE StartWorker \/ WorkerFailsToStart
  BY <1>1, <1>2, <1>16
     DEF StartWorker, Starting, WorkerFailsToStart, PartitionsOf, CountReached
<1>17. CASE PollerFailsToStart
  BY <1>1, <1>2, <1>17
     DEF PollerFailsToStart, Starting, PartitionsOf, CountReached
<1>18. CASE BeginWriting \/ TakeCompletion \/ Order
  BY <1>1, <1>2, <1>18
     DEF BeginWriting, WriterOnly, TakeCompletion, Resting, Order, WriterFails,
     PartitionsOf, CountReached
<1>19. CASE Direct \/ Write \/ ReturnCredits
  BY <1>1, <1>2, <1>19
     DEF Direct, WriterOnly, Write, WriterFails, ReturnCredits, PartitionsOf,
     CountReached
<1>20. CASE CloseWriter
  BY <1>1, <1>2, <1>20
     DEF CloseWriter, WriterOnly, WriterFails, Resting, PartitionsOf, CountReached
<1>21. CASE FlushOutput \/ Join \/ WriterPanic
  BY <1>1, <1>2, <1>21
     DEF FlushOutput, WriterOnly, WriterFails, Join, WriterPanic, PartitionsOf,
     CountReached
<1>22. CASE ClaimSignal \/ PublishShutdown
  BY <1>1, <1>2, <1>22
     DEF ClaimSignal, HandlerOnly, PublishShutdown, PartitionsOf, CountReached
<1>23. CASE UNCHANGED runVars
  BY <1>1, <1>2, <1>23
     DEF runVars, PartitionsOf, CountReached
<1>24. CASE StartPoller
  <2>1. /\ poller' = [poller EXCEPT ![spawned + 1] = "top"]
        /\ UNCHANGED <<shutdown, firstFailure, signal, admitted, pending, stopping, finished>>
    BY <1>24 DEF StartPoller, Starting
  <2>2. \A c \in Pollers : poller'[c] = poller[c] \/ poller'[c] = "top"
    BY <1>1, <2>1
  <2> QED
    BY <1>1, <1>2, <2>1, <2>2 DEF PartitionsOf, CountReached
<1> QED
  BY <1>3, <1>4, <1>5, <1>6, <1>7, <1>8, <1>9, <1>10, <1>11, <1>12, <1>13, <1>14,
     <1>15, <1>16, <1>17, <1>18, <1>19, <1>20, <1>21, <1>22, <1>23, <1>24
     DEF Next, Step, PollLoop, Deliver, WorkerLoop, RunPipeline, Fault

\* Only admitting reads, and a partition is finished at its end or its count.
LEMMA ReadsStay ==
    ASSUME IInv, RunWell, StopsWell, ReadWell, Next
    PROVE  ReadWell'
<1> USE DEF failVars, admissionVars, pollerVars, loopVars, workerVars, mainVars, writerVars,
            Fail, Goto
<1>1. /\ next \in [Partitions -> Nat] /\ finished \subseteq Partitions
      /\ CountPerPartition # NoCount => CountPerPartition \in Nat \ {0}
  BY Counts DEF IInv, Typed, TypeOK
<1>2. ASSUME NEW c \in Pollers, Admit(c) PROVE ReadWell'
  <2> DEFINE q == pending[c]
  <2>1. /\ q \in Partitions /\ q \notin finished
        /\ next' = [next EXCEPT ![q] = @ + 1]
        /\ finished' = IF CountSpent(q) THEN finished \union {q} ELSE finished
    BY <1>2, Counts DEF Admit, IInv, ThreadsWell, PartitionsOf, StopsWell
  <2>2. \A p \in Partitions : p # q => next'[p] = next[p] /\ (p \in finished' <=> p \in finished)
    BY <1>1, <2>1
  <2>3. next'[q] = next[q] + 1 /\ next[q] \in Nat
    BY <1>1, <2>1
  <2>4. CountPerPartition # NoCount => next[q] < CountPerPartition
    BY <2>1 DEF ReadWell
  <2>5. /\ CountPerPartition # NoCount => next'[q] <= CountPerPartition
        /\ q \notin finished' /\ CountPerPartition # NoCount => next'[q] < CountPerPartition
        /\ q \in finished' => CountPerPartition # NoCount /\ next'[q] = CountPerPartition
    BY <1>1, <2>1, <2>3, <2>4 DEF CountSpent
  <2> HIDE DEF q
  <2> QED
    BY <2>2, <2>5 DEF ReadWell
<1>3. ASSUME NEW c \in Pollers, PollEnd(c) \/ PollError(c) PROVE ReadWell'
  <2>1. /\ next' = next /\ finished \subseteq finished'
        /\ \A p \in finished' : p \in finished \/ next[p] = Len(Log[p])
    BY <1>3 DEF PollEnd, PollError, PollOnly
  <2> QED
    BY <2>1 DEF ReadWell
<1>4. \/ next' = next /\ finished' = finished
      \/ \E c \in Pollers : Admit(c) \/ PollEnd(c) \/ PollError(c)
  <2> SUFFICES ASSUME \A c \in Pollers : ~(Admit(c) \/ PollEnd(c) \/ PollError(c))
               PROVE  next' = next /\ finished' = finished
    OBVIOUS
  <2>1. ASSUME NEW c \in Pollers, DrainRelease(c) \/ WaitCredits(c) \/ CheckStop(c)
        PROVE next' = next /\ finished' = finished
    BY <2>1
       DEF DrainRelease, PollerOnly, TakeCredits, WaitCredits, CheckStop
  <2>2. ASSUME NEW c \in Pollers, PollRecord(c) \/ PollDone(c) \/ PollTimeout(c) \/
        Refuse(c) \/ WaitTimeout(c) \/ PollerGuard(c) PROVE next' = next /\ finished' =
        finished
    BY <2>2
       DEF PollRecord, PollerOnly, PollOnly, PollDone, PollTimeout, GoIdle, Polling,
       Refuse, WaitTimeout, PollerGuard
  <2>3. ASSUME NEW c \in Pollers, FlushWork(c) \/ FlushCompletion(c) \/ FlushFails(c) \/
        WaitDisconnected(c) \/ PollerPanic(c) PROVE next' = next /\ finished' = finished
    BY <2>3
       DEF FlushWork, PollerOnly, FlushSent, FlushCompletion, FlushFails, Leave,
       WaitDisconnected, PollerPanic, Polling
  <2>4. ASSUME NEW w \in Workers, TakeWork(w) \/ SendCompletion(w) \/
        SendCompletionFails(w) \/ WorkEnds(w) \/ WorkerGuard(w) \/ WorkerPanic(w) PROVE
        next' = next /\ finished' = finished
    BY <2>4
       DEF TakeWork, SetWorker, WorkerOnly, SendCompletion, SendCompletionFails,
       WorkEnds, WorkerGuard, WorkerPanic
  <2>5. CASE StartPoller \/ StartWorker \/ PollerFailsToStart \/ WorkerFailsToStart
    BY <2>5
       DEF StartPoller, Starting, StartWorker, PollerFailsToStart, WorkerFailsToStart
  <2>6. CASE BeginWriting \/ TakeCompletion \/ Order \/ Direct \/ Write \/ ReturnCredits
        \/ CloseWriter \/ FlushOutput \/ Join \/ WriterPanic
    BY <2>6
       DEF BeginWriting, WriterOnly, TakeCompletion, Resting, Order, WriterFails, Direct,
       Write, ReturnCredits, CloseWriter, FlushOutput, Join, WriterPanic
  <2>7. CASE ClaimSignal \/ PublishShutdown
    BY <2>7
       DEF ClaimSignal, HandlerOnly, PublishShutdown
  <2>8. CASE UNCHANGED runVars
    BY <2>8
       DEF runVars
  <2> QED
    BY <2>1, <2>2, <2>3, <2>4, <2>5, <2>6, <2>7, <2>8
       DEF Next, Step, PollLoop, Deliver, WorkerLoop, RunPipeline, Fault
<1> QED
  BY <1>2, <1>3, <1>4 DEF ReadWell

LEMMA CountsStay ==
    ASSUME IInv, CountWell, Next
    PROVE  CountWell'
<1> USE DEF failVars, admissionVars, pollerVars, loopVars, workerVars, mainVars, writerVars,
            Fail, Goto
<1>1. /\ next \in [Partitions -> Nat] /\ admitted \in Nat
      /\ CountLimit # NoCount => CountLimit \in Nat \ {0}
  BY Counts DEF IInv, Typed, TypeOK
<1>2. ASSUME NEW c \in Pollers, Admit(c) PROVE CountWell'
  <2> DEFINE q == pending[c]
             x == <<q, next[q] + 1>>
  <2> SUFFICES ASSUME CountLimit # NoCount
               PROVE  IsFiniteSet(Taken') /\ admitted' = Cardinality(Taken') /\ admitted' <= CountLimit
    BY DEF CountWell
  <2>1. /\ q \in Partitions /\ next' = [next EXCEPT ![q] = @ + 1]
        /\ admitted' = admitted + 1 /\ ~CountReached
    BY <1>2, Counts DEF Admit, IInv, ThreadsWell, PartitionsOf, CanReserve
  <2>2. next[q] \in Nat /\ next'[q] = next[q] + 1 /\ \A p \in Partitions : p # q => next'[p] = next[p]
    BY <1>1, <2>1
  <2>3. 1..(next[q] + 1) = (1..next[q]) \union {next[q] + 1} /\ next[q] + 1 \notin 1..next[q]
    BY <2>2
  <2>4. Taken' = Taken \union {x} /\ x \notin Taken
    <3>1. ASSUME NEW y PROVE y \in Taken' <=> y \in Taken \/ y = x
      <4>1. y \in Taken' <=> \E p \in Partitions : y \in {p} \X (1..next'[p])
        BY DEF Taken
      <4>2. y \in Taken <=> \E p \in Partitions : y \in {p} \X (1..next[p])
        BY DEF Taken
      <4>3. {q} \X (1..next'[q]) = ({q} \X (1..next[q])) \union {x}
        BY <2>2, <2>3
      <4> HIDE DEF q, x
      <4> QED
        BY <2>1, <2>2, <4>1, <4>2, <4>3
    <3>2. x \notin Taken
      <4> SUFFICES ASSUME NEW p \in Partitions, x \in {p} \X (1..next[p]) PROVE FALSE
        BY DEF Taken
      <4> QED
        BY <2>3
    <3> QED
      BY <3>1, <3>2
  <2>5. IsFiniteSet(Taken) /\ admitted = Cardinality(Taken)
    BY DEF CountWell
  <2>6. IsFiniteSet(Taken') /\ Cardinality(Taken') = Cardinality(Taken) + 1
    BY <2>4, <2>5, FS_AddElement
  <2>7. admitted + 1 <= CountLimit
    BY <1>1, <2>1 DEF CountReached
  <2> QED
    BY <2>1, <2>5, <2>6, <2>7
<1>3. ASSUME UNCHANGED <<admitted, next>> PROVE CountWell'
  <2>1. Taken' = Taken
    BY <1>3 DEF Taken
  <2> QED
    BY <1>3, <2>1 DEF CountWell
<1>4. ASSUME NEW c \in Pollers, DrainRelease(c) \/ WaitCredits(c) \/ CheckStop(c)
      PROVE CountWell'
  BY <1>3, <1>4
     DEF DrainRelease, PollerOnly, TakeCredits, WaitCredits, CheckStop
<1>5. ASSUME NEW c \in Pollers, PollEnd(c) \/ PollError(c) \/ PollRecord(c) \/
      PollDone(c) \/ PollTimeout(c) \/ Refuse(c) \/ WaitTimeout(c) \/ PollerGuard(c)
      PROVE CountWell'
  BY <1>3, <1>5
     DEF PollEnd, PollerOnly, PollOnly, GoIdle, PollError, Polling, PollRecord,
     PollDone, PollTimeout, Refuse, WaitTimeout, PollerGuard
<1>6. ASSUME NEW c \in Pollers, FlushWork(c) \/ FlushCompletion(c) \/ FlushFails(c) \/
      WaitDisconnected(c) \/ PollerPanic(c) PROVE CountWell'
  BY <1>3, <1>6
     DEF FlushWork, PollerOnly, FlushSent, FlushCompletion, FlushFails, Leave,
     WaitDisconnected, PollerPanic, Polling
<1>7. ASSUME NEW w \in Workers, TakeWork(w) \/ SendCompletion(w) \/
      SendCompletionFails(w) \/ WorkEnds(w) \/ WorkerGuard(w) \/ WorkerPanic(w) PROVE
      CountWell'
  BY <1>3, <1>7
     DEF TakeWork, SetWorker, WorkerOnly, SendCompletion, SendCompletionFails,
     WorkEnds, WorkerGuard, WorkerPanic
<1>8. CASE StartPoller \/ StartWorker \/ PollerFailsToStart \/ WorkerFailsToStart
  BY <1>3, <1>8
     DEF StartPoller, Starting, StartWorker, PollerFailsToStart, WorkerFailsToStart
<1>9. CASE BeginWriting \/ TakeCompletion \/ Order \/ Direct \/ Write \/ ReturnCredits
      \/ CloseWriter \/ FlushOutput \/ Join \/ WriterPanic
  BY <1>3, <1>9
     DEF BeginWriting, WriterOnly, TakeCompletion, Resting, Order, WriterFails, Direct,
     Write, ReturnCredits, CloseWriter, FlushOutput, Join, WriterPanic
<1>10. CASE ClaimSignal \/ PublishShutdown
  BY <1>3, <1>10
     DEF ClaimSignal, HandlerOnly, PublishShutdown
<1>11. CASE UNCHANGED runVars
  BY <1>3, <1>11
     DEF runVars
<1> QED
  BY <1>2, <1>3, <1>4, <1>5, <1>6, <1>7, <1>8, <1>9, <1>10, <1>11
     DEF Next, Step, PollLoop, Deliver, WorkerLoop, RunPipeline, Fault

LEMMA OInvStays ==
    ASSUME IInv, OInv, Next
    PROVE  OInv'
<1>1. /\ RunWell /\ WrittenWell /\ OrderedWell /\ DirectWell
      /\ OpenWell /\ HealthWell /\ StopsWell /\ ReadWell /\ CountWell /\ SendersWell
  BY DEF OInv, FinishWell, OpenWell
<1>2. RunWell'
  BY <1>1, RunStays
<1>3. WrittenWell' /\ OrderedWell' /\ DirectWell'
  BY <1>1, WrittenStays, OrderedStays, DirectStays
<1>4. OpenWell'
  <2>1. SendersWell'
    BY <1>1, SendersStay
  <2>2. ASSUME Unbroken' PROVE EndsWell' /\ \A d \in Pollers : SentWell(d)'
    BY <1>1, <2>2, EndsStay, SentStay
  <2> QED
    BY <2>1, <2>2 DEF OpenWell
<1>5. HealthWell'
  BY <1>1, HealthStays
<1>6. FinishWell'
  BY <1>1, StopsStay, ReadsStay, CountsStay DEF FinishWell
<1> QED
  BY <1>2, <1>3, <1>4, <1>5, <1>6 DEF OInv

LEMMA OInvStarts == Init => OInv
<1> SUFFICES ASSUME Init PROVE OInv
  OBVIOUS
<1> USE DEF Init
<1>1. \A p \in Partitions : Len(Log[p]) \in Nat
  BY PipelineAssumption
<1>2. RunWell
  BY <1>1 DEF RunWell
<1>3. /\ \A i \in DOMAIN buf : buf[i] = <<>>
      /\ \A i \in DOMAIN hold : hold[i] = <<>>
  OBVIOUS
<1>4. /\ Recs(buf) = {} /\ Recs(hold) = {} /\ Recs(work) = {} /\ Recs(completion) = {}
      /\ Range(wbatch) = {} /\ Range(ready) = {} /\ reorder = {}
  BY <1>3, EmptyBatch DEF Recs
<1>5. Ahead = {} /\ Line = {}
  BY <1>4, StageIs DEF Ahead, Unordered, Line
<1>6. /\ DOMAIN <<>> = {} /\ Len(<<>>) = 0
      /\ \A p \in Partitions : written[p] = <<>> /\ Range(written[p]) = {}
  BY EmptyBatch
<1>7. \A p \in Partitions : InOrder(written[p]) /\ IsInjective(written[p])
  BY <1>6 DEF InOrder, IsInjective
<1>8. WrittenWell
  BY <1>6, <1>7 DEF WrittenWell
<1>9. OrderedWell
  <2>1. \A p \in Partitions : ReadyOf(p) = 0
    BY DEF ReadyOf
  <2>2. \A p \in Partitions : Len(written[p]) + ReadyOf(p) = frontier[p]
    BY <1>6, <2>1
  <2> QED
    BY <1>4, <1>5, <1>6, <1>7, <2>2 DEF OrderedWell
<1>10. DirectWell
  <2>1. LineRises
    <3>1. Rising(<<>>)
      BY <1>6 DEF Rising
    <3> QED
      BY <1>3, <1>6, <3>1 DEF LineRises
  <2>2. LineKeeps
    BY <1>4, <1>6 DEF LineKeeps, Before
  <2>3. LineFull
    BY <1>7 DEF LineFull
  <2> QED
    BY <1>4, <2>1, <2>2, <2>3 DEF DirectWell
<1>11. OpenWell
  BY DEF OpenWell, SendersWell, EndsWell, SentWell
<1>12. HealthWell
  BY DEF HealthWell, Unbroken
<1>13. StopsWell /\ ReadWell
  BY <1>1, Counts DEF StopsWell, ReadWell
<1>14. CountWell
  <2>1. \A p \in Partitions : next[p] = 0 /\ 1..0 = {}
    OBVIOUS
  <2>2. Taken = {}
    BY <2>1 DEF Taken
  <2>3. IsFiniteSet({}) /\ Cardinality({}) = 0
    BY FS_EmptySet
  <2> QED
    BY <2>2, <2>3, Counts DEF CountWell
<1> QED
  BY <1>2, <1>8, <1>9, <1>10, <1>11, <1>12, <1>13, <1>14 DEF OInv, FinishWell

\* What is written, ordered, sent and counted, in every state of the pipeline.
THEOREM OutputInvariant == Spec => [](IInv /\ OInv)
<1>1. OInv /\ UNCHANGED vars => OInv'
  <2> SUFFICES ASSUME OInv, UNCHANGED vars PROVE OInv'
    OBVIOUS
  <2> USE DEF vars, runVars, failVars, admissionVars, pollerVars, loopVars, workerVars,
              mainVars, writerVars
  <2>1. RunWell' /\ WrittenWell' /\ OrderedWell' /\ DirectWell'
    <3>1. Upstream' = Upstream /\ Ahead' = Ahead /\ Line' = Line /\ (Ordered' <=> Ordered)
      BY SameStage, LineIsPrimed DEF Upstream, Ahead, Unordered, Line, Ordered, Places
    <3>2. RunWell' /\ WrittenWell'
      BY <3>1 DEF OInv, RunWell, WrittenWell
    <3>3. OrderedWell'
      BY <3>1 DEF OInv, OrderedWell, ReadyOf
    <3>4. DirectWell'
      BY <3>1 DEF OInv, DirectWell, LineRises, LineKeeps, LineFull, Recs
    <3> QED
      BY <3>2, <3>3, <3>4
  <2>2. OpenWell' /\ HealthWell'
    BY DEF OInv, OpenWell, SendersWell, EndsWell, SentWell, Idle, PartitionsOf, HealthWell,
           Unbroken
  <2>3. FinishWell'
    BY DEF OInv, FinishWell, StopsWell, ReadWell, CountWell, Taken, Unbroken, CountReached,
           PartitionsOf
  <2> QED
    BY <2>1, <2>2, <2>3 DEF OInv
<1>2. Init => IInv /\ OInv
  BY IInvStarts, OInvStarts
<1>3. IInv /\ OInv /\ [Next]_vars => OInv'
  BY <1>1, OInvStays
<1> QED
  BY <1>2, <1>3, InductiveInvariant, PTL DEF Spec

\* A run in which nothing fails on its own reports no failure.
THEOREM HealthyRunsDoNotFail == Spec => []HealthyRunsSucceed
<1>1. OInv => HealthyRunsSucceed
  BY DEF OInv, HealthWell, Healthy, Unbroken, HealthyRunsSucceed
<1> QED
  BY <1>1, OutputInvariant, PTL

-----------------------------------------------------------------------------
\* The refinement: what the output shows of every step.

\* When the run ends without a failure, what was admitted is written.
LEMMA AllWritten ==
    ASSUME IInv, OInv, main = "joining", firstFailure = None,
           \A c \in Pollers : poller[c] \in {"exit", "unstarted"},
           ParsesJson => \A w \in Workers : worker[w] \in {"exit", "unstarted"}
    PROVE  Unbroken /\ \A p \in Partitions : Len(written[p]) = next[p]
<1>1. Unbroken
  BY DEF Unbroken, IInv, ThreadsWell
<1>2. /\ \A c \in Pollers : ~open[c]
      /\ work = <<>> /\ completion = <<>> /\ wbatch = <<>> /\ ready = <<>> /\ reorder = {}
      /\ \A w \in Workers : worker[w] # "busy"
  BY <1>1 DEF OInv, OpenWell, EndsWell, IInv, ThreadsWell, WriterGone
<1>3. Stage("buf") = {} /\ Stage("hold") = {}
  BY <1>1, <1>2, NothingHeld DEF OInv
<1>4. Upstream = {}
  <2>1. \A s \in Places \ {"returned", "releases"} : Stage(s) = {}
    BY <1>2, <1>3, StageIs, EmptyBatch DEF Places
  <2> QED
    BY <2>1 DEF Upstream
<1>5. ASSUME NEW p \in Partitions PROVE Len(written[p]) = next[p]
  <2> DEFINE n == next[p]
             ss == written[p]
  <2>1. n \in Nat /\ ss \in Seq(Nat)
    BY DEF IInv, Typed, TypeOK
  <2>2. IsInjective(ss) /\ \A s \in Range(ss) : s < n
    BY DEF OInv, WrittenWell
  <2>3. \A s \in 0..(n - 1) : s \in Range(ss)
    BY <1>1, <1>4 DEF IInv, WritesWell
  <2> HIDE DEF n, ss
  <2>4. Range(ss) = 0..(n - 1)
    <3>1. Range(ss) \subseteq Nat
      BY <2>1, SeqFacts
    <3>2. \A s \in Range(ss) : s \in 0..(n - 1)
      BY <2>1, <2>2, <3>1
    <3> QED
      BY <2>3, <3>2
  <2>5. Len(ss) \in Nat /\ ss \in [1..Len(ss) -> Nat] /\ DOMAIN ss = 1..Len(ss)
    BY <2>1, LenProperties
  <2>6. ss \in Bijection(1..Len(ss), 0..(n - 1))
    <3>1. ss \in [1..Len(ss) -> Range(ss)]
      BY <2>5 DEF Range
    <3> QED
      BY <2>2, <2>4, <2>5, <3>1 DEF Bijection, Injection, Surjection, IsInjective, Range
  <2>7. IsFiniteSet(1..Len(ss)) /\ Cardinality(1..Len(ss)) = Len(ss)
    BY <2>5, FS_Interval, SMTT(30)
  <2>8. Cardinality(0..(n - 1)) = Len(ss)
    BY <2>6, <2>7, FS_Bijection DEF ExistsBijection
  <2>9. Cardinality(0..(n - 1)) = n
    <3>1. n - 1 \in Int /\ 0 \in Int
      BY <2>1
    <3>2. Cardinality(0..(n - 1)) = IF 0 > n - 1 THEN 0 ELSE n - 1 - 0 + 1
      BY <3>1, FS_Interval
    <3> QED
      BY <2>1, <3>2
  <2> QED
    BY <2>8, <2>9 DEF n, ss
<1> QED
  BY <1>1, <1>5

\* What every other step does to the output: at most, the writer fails.
LEMMA OutputKeeps ==
    ASSUME IInv, RunWell, Next, ~Write, ~Join, \A c \in Pollers : ~Admit(c)
    PROVE  /\ mode' = mode /\ next' = next /\ written' = written /\ result' = result
           /\ wfail' = wfail \/ (main # "finished" /\ wfail' # None)
<1> USE DEF failVars, admissionVars, pollerVars, loopVars, workerVars, mainVars, writerVars,
            Fail, Goto
<1> DEFINE Goal == /\ next' = next /\ written' = written /\ result' = result
                   /\ wfail' = wfail \/ (main # "finished" /\ wfail' # None)
<1>1. ASSUME NEW c \in Pollers, DrainRelease(c) \/ WaitCredits(c) \/ CheckStop(c) PROVE Goal
  BY <1>1
     DEF DrainRelease, PollerOnly, TakeCredits, WaitCredits, CheckStop
<1>2. ASSUME NEW c \in Pollers, PollEnd(c) \/ PollError(c) \/ PollRecord(c) \/
      PollDone(c) \/ PollTimeout(c) \/ Refuse(c) \/ WaitTimeout(c) \/ PollerGuard(c)
      PROVE Goal
  BY <1>2
     DEF PollEnd, PollerOnly, PollOnly, GoIdle, PollError, Polling, PollRecord,
     PollDone, PollTimeout, Refuse, WaitTimeout, PollerGuard
<1>3. ASSUME NEW c \in Pollers, FlushWork(c) \/ FlushCompletion(c) \/ FlushFails(c) \/
      WaitDisconnected(c) \/ PollerPanic(c) PROVE Goal
  BY <1>3
     DEF FlushWork, PollerOnly, FlushSent, FlushCompletion, FlushFails, Leave,
     WaitDisconnected, PollerPanic, Polling
<1>4. ASSUME NEW w \in Workers, TakeWork(w) \/ SendCompletion(w) \/
      SendCompletionFails(w) \/ WorkEnds(w) \/ WorkerGuard(w) \/ WorkerPanic(w) PROVE
      Goal
  BY <1>4
     DEF TakeWork, SetWorker, WorkerOnly, SendCompletion, SendCompletionFails,
     WorkEnds, WorkerGuard, WorkerPanic
<1>5. ASSUME StartPoller \/ StartWorker \/ PollerFailsToStart \/ WorkerFailsToStart
      PROVE Goal
  BY <1>5
     DEF StartPoller, Starting, StartWorker, PollerFailsToStart, WorkerFailsToStart
<1>6. ASSUME BeginWriting PROVE Goal
  BY <1>6 DEF BeginWriting, WriterOnly, RunWell, None
<1>7. ASSUME TakeCompletion \/ Direct \/ ReturnCredits \/ WriterPanic PROVE Goal
  BY <1>7
     DEF TakeCompletion, WriterOnly, Resting, Direct, ReturnCredits, WriterPanic
<1>8. ASSUME Order \/ CloseWriter \/ FlushOutput PROVE Goal
  BY <1>8
     DEF Order, WriterOnly, WriterFails, CloseWriter, Resting, FlushOutput, None
<1>9. ASSUME ClaimSignal \/ PublishShutdown \/ UNCHANGED runVars PROVE Goal
  BY <1>9
     DEF ClaimSignal, HandlerOnly, PublishShutdown, runVars
<1>10. Goal
  BY <1>1, <1>2, <1>3, <1>4, <1>5, <1>6, <1>7, <1>8, <1>9
     DEF Next, Step, PollLoop, Deliver, WorkerLoop, RunPipeline, Fault
<1> QED
  BY <1>10 DEF Next

LEMMA AdmitTakes ==
    ASSUME IInv, OInv, NEW c \in Pollers, Admit(c), UNCHANGED mode
    PROVE  \E p \in DOMAIN Log : Output!Take(p)
<1>1. /\ pending[c] \in DOMAIN Log /\ next[pending[c]] < Len(Log[pending[c]])
      /\ main # "finished"
  BY DEF Admit, IInv, ThreadsWell, OInv, RunWell, PartitionsOf, Partitions
<1>2. /\ next' = [next EXCEPT ![pending[c]] = @ + 1]
      /\ UNCHANGED <<written, result, wfail>>
  BY DEF Admit, PollerOnly, mainVars, writerVars
<1>3. result = None
  BY <1>1 DEF OInv, RunWell
<1> QED
  BY <1>1, <1>2, <1>3 DEF Output!Take, None

LEMMA WritePuts ==
    ASSUME IInv, OInv, OInv', Next, Write
    PROVE  \/ \E p \in DOMAIN Log : \E s \in 0..(next[p] - 1) : Output!Put(p, s)
           \/ Output!Fail \/ UNCHANGED Output!specVars
<1> DEFINE r == Head(ready)
           p == r[1]
           s == r[2]
           L == Len(written[p])
<1>1. /\ p \in Partitions /\ s \in Nat /\ s < next[p] /\ r = <<p, s>> /\ r \in Upstream
      /\ \/ UNCHANGED written /\ wfail' # None
         \/ /\ written' = [written EXCEPT ![p] = Append(@, s)]
            /\ wfail = None /\ wfail' = None
  BY WritingIs
<1>2. /\ UNCHANGED <<next, result, mode>> /\ main = "writer" /\ result = None
  BY DEF Write, WriterOnly, admissionVars, Next, OInv, RunWell
<1>3. CASE UNCHANGED written /\ wfail' # None
  BY <1>2, <1>3 DEF Output!Fail, Output!specVars, None
<1>4. CASE written' = [written EXCEPT ![p] = Append(@, s)] /\ wfail = None /\ wfail' = None
  <2>1. Log[p][s + 1] # "fatal"
    <3>1. Fate(r) # "fatal"
      BY <1>4 DEF Write, WriterFails, Silent, None
    <3> QED
      BY <1>1, <3>1 DEF Fate
  <2>2. s \notin Range(written[p])
    BY <1>1 DEF OInv, WrittenWell
  <2>3. written[p] \in Seq(Nat) /\ L \in Nat /\ DOMAIN written = Partitions
    BY <1>1, SeqFacts DEF IInv, Typed
  <2>4. written'[p] = Append(written[p], s)
    BY <1>1, <1>4, <2>3
  <2>5. mode # "unordered" => s = L
    <3> SUFFICES ASSUME mode # "unordered" PROVE s = L
      OBVIOUS
    <3>1. mode \in {"direct", "ordered", "unordered"}
      BY PipelineAssumption DEF IInv, Typed, TypeOK
    <3>2. InOrder(written'[p])
      <4>1. CASE mode = "ordered"
        BY <1>1, <1>2, <1>4, <4>1 DEF OInv, OrderedWell, Ordered, InOrder
      <4>2. CASE mode = "direct"
        BY <1>1, <1>2, <1>4, <4>2 DEF OInv, DirectWell, LineFull, InOrder
      <4> QED
        BY <3>1, <4>1, <4>2
    <3> HIDE DEF p, s
    <3>3. L + 1 \in DOMAIN written'[p] /\ written'[p][L + 1] = s
      BY <1>1, <2>3, <2>4, AppendProperties DEF L
    <3> HIDE DEF L
    <3> QED
      BY <1>1, <2>3, <3>2, <3>3 DEF InOrder
  <2>6. s \in 0..(next[p] - 1)
    BY <1>1 DEF IInv, Typed, TypeOK
  <2> HIDE DEF p, s
  <2>7. Output!Put(p, s)
    <3>1. /\ result = None /\ result' = None /\ wfail = None /\ wfail' = None
          /\ None \notin {"complete", "signal"}
      BY <1>2, <1>4 DEF None
    <3>2. UNCHANGED <<mode, next>> /\ (mode # "unordered" => s = Len(written[p]))
      BY <1>2, <2>5 DEF L
    <3>3. written' = [written EXCEPT ![p] = Append(@, s)]
      BY <1>4
    <3> QED
      BY <2>1, <2>2, <3>1, <3>2, <3>3 DEF Output!Put, Output!Range, Range
  <2> QED
    BY <1>1, <2>6, <2>7 DEF Partitions
<1> QED
  BY <1>1, <1>3, <1>4

LEMMA JoinEnds ==
    ASSUME IInv, OInv, Join, UNCHANGED mode
    PROVE  Output!Complete \/ Output!Fail \/ UNCHANGED Output!specVars
<1>1. /\ UNCHANGED <<next, written, wfail, mode>> /\ result' = Outcome
      /\ main = "joining" /\ result = None
  BY DEF Join, WriterOnly, admissionVars, writerVars, OInv, RunWell
<1>2. CASE firstFailure # None
  <2>1. result' \notin {"complete", "signal", None}
    BY <1>1, <1>2 DEF Outcome, IInv, Typed, TypeOK
  <2> QED
    BY <1>1, <2>1 DEF Output!Fail, Output!specVars, None
<1>3. CASE firstFailure = None
  <2>1. wfail = None /\ result' \in {"complete", "signal"}
    BY <1>1, <1>3 DEF Outcome, IInv, ThreadsWell
  <2>2. \A p \in DOMAIN Log : Len(written[p]) = next[p]
    BY <1>1, <1>3, AllWritten DEF Join, Partitions
  <2> QED
    BY <1>1, <2>1, <2>2 DEF Output!Complete, None
<1> QED
  BY <1>2, <1>3

LEMMA OutputSteps ==
    ASSUME IInv, OInv, OInv', [Next]_vars
    PROVE  [Output!Next]_(Output!specVars)
<1>1. CASE UNCHANGED vars
  BY <1>1 DEF vars, runVars, admissionVars, mainVars, writerVars, Output!specVars
<1>2. ASSUME Next, NEW c \in Pollers, Admit(c) PROVE Output!Next
  BY <1>2, AdmitTakes DEF Next, Output!Next
<1>3. CASE Next /\ Write
  BY <1>3, WritePuts DEF Output!Next
<1>4. CASE Next /\ Join
  BY <1>4, JoinEnds DEF Next, Output!Next
<1>5. CASE Next /\ ~Write /\ ~Join /\ \A c \in Pollers : ~Admit(c)
  <2>1. /\ UNCHANGED <<mode, next, written, result>>
        /\ wfail' = wfail \/ (main # "finished" /\ wfail' # None)
    BY <1>5, OutputKeeps DEF OInv
  <2>2. main # "finished" => result = None
    BY DEF OInv, RunWell
  <2>3. Output!Fail \/ UNCHANGED Output!specVars
    BY <2>1, <2>2 DEF Output!Fail, Output!specVars, None
  <2> QED
    BY <2>3 DEF Output!Next
<1> QED
  BY <1>1, <1>2, <1>3, <1>4, <1>5

\* Whatever the threads do, the output is what OutputSpec promises: each
\* partition in order and once, nothing after a failure or of a fatal record,
\* and all of it when the run succeeds.
THEOREM OutputIsImplemented == Spec => ImplementsOutput
<1>1. Init => Output!Init
  BY DEF Init, Output!Init, Partitions, None
<1>2. IInv /\ OInv /\ OInv' /\ [Next]_vars => [Output!Next]_(Output!specVars)
  BY OutputSteps
<1> QED
  BY <1>1, <1>2, OutputInvariant, PTL DEF Spec, ImplementsOutput, Output!Spec

-----------------------------------------------------------------------------
\* The end of a run: its whole input.

Rows == UNION {{p} \X DOMAIN Log[p] : p \in Partitions}

LEMMA RowsAreFinite == IsFiniteSet(Rows)
<1> DEFINE row == [p \in Partitions |-> {p} \X DOMAIN Log[p]]
           all == {{p} \X DOMAIN Log[p] : p \in Partitions}
<1>1. ASSUME NEW p \in Partitions PROVE IsFiniteSet({p} \X DOMAIN Log[p])
  <2>1. Log[p] \in Seq(Fates)
    BY PipelineAssumption
  <2>2. Len(Log[p]) \in Int /\ DOMAIN Log[p] = 1..Len(Log[p]) /\ 1 \in Int
    BY <2>1, SeqFacts
  <2>3. IsFiniteSet(DOMAIN Log[p])
    BY <2>2, FS_Interval
  <2>4. IsFiniteSet({p})
    BY FS_Singleton
  <2> QED
    BY <2>3, <2>4, FS_Product
<1>2. row \in Surjection(Partitions, all)
  BY DEF Surjection
<1>3. IsFiniteSet(Partitions)
  BY PipelineAssumption
<1> HIDE DEF row
<1>4. IsFiniteSet(all)
  BY <1>2, <1>3, FS_Surjection
<1>5. \A T \in all : IsFiniteSet(T)
  BY <1>1
<1> HIDE DEF all
<1>6. IsFiniteSet(UNION all)
  BY <1>4, <1>5, FS_UNION
<1> QED
  BY <1>6 DEF Rows, all

\* A run that joins its threads without a failure or a signal has stopped at
\* its count or at the end of every partition.
LEMMA JoinCovers ==
    ASSUME IInv, OInv, Join, Outcome = "complete", UNCHANGED mode
    PROVE  IF CountLimit # NoCount THEN Total(written) = Smaller(CountLimit, Total(Log))
           ELSE \A p \in Partitions :
                Len(written[p]) = IF CountPerPartition = NoCount THEN Len(Log[p])
                                  ELSE Smaller(CountPerPartition, Len(Log[p]))
<1>1. firstFailure = None /\ signal = None
  BY DEF Outcome, IInv, Typed, TypeOK, None
<1>2. Unbroken /\ \A p \in Partitions : Len(written[p]) = next[p]
  BY <1>1, AllWritten DEF Join
<1>3. CountReached \/ \A p \in Partitions : p \in finished
  <2>1. \A c \in Pollers : poller[c] = "exit"
    BY <1>2 DEF Join, OInv, OpenWell, SentWell
  <2>2. \A c \in Pollers : CountReached \/ PartitionsOf(c) \subseteq finished
    BY <1>1, <1>2, <2>1 DEF OInv, FinishWell, StopsWell
  <2>3. \A p \in Partitions : Assigned[p] \in Pollers
    BY PipelineAssumption
  <2> QED
    BY <2>2, <2>3 DEF PartitionsOf
<1>4. ASSUME NEW p \in Partitions
      PROVE  /\ next[p] \in Nat /\ Len(Log[p]) \in Nat /\ next[p] <= Len(Log[p])
             /\ DOMAIN Log[p] = 1..Len(Log[p]) /\ DOMAIN written[p] = 1..next[p]
  <2>1. Log[p] \in Seq(Fates) /\ written[p] \in Seq(Nat)
    BY PipelineAssumption DEF IInv, Typed
  <2>2. next[p] \in Nat /\ next[p] <= Len(Log[p])
    BY DEF IInv, Typed, TypeOK, OInv, RunWell
  <2> QED
    BY <1>2, <2>1, <2>2, SeqFacts
<1>5. ReadWell /\ CountWell
  BY DEF OInv, FinishWell
<1>6. CASE CountLimit = NoCount
  <2>1. \A p \in Partitions : p \in finished
    BY <1>3, <1>6 DEF CountReached
  <2> SUFFICES ASSUME NEW p \in Partitions
               PROVE  next[p] = IF CountPerPartition = NoCount THEN Len(Log[p])
                                ELSE Smaller(CountPerPartition, Len(Log[p]))
    BY <1>2, <1>6
  <2>2. CASE CountPerPartition = NoCount
    BY <1>5, <2>1, <2>2 DEF ReadWell
  <2>3. CASE CountPerPartition # NoCount
    <3>1. /\ CountPerPartition \in Nat /\ next[p] <= CountPerPartition
          /\ next[p] = Len(Log[p]) \/ next[p] = CountPerPartition
      BY <1>5, <2>1, <2>3, Counts DEF ReadWell
    <3>2. \A a, b, n \in Nat : n <= a /\ n <= b /\ (n = b \/ n = a) => n = IF a < b THEN a ELSE b
      OBVIOUS
    <3> QED
      BY <1>4, <2>3, <3>1, <3>2 DEF Smaller
  <2> QED
    BY <2>2, <2>3
<1>7. CASE CountLimit # NoCount
  <2>1. /\ Total(written) = Cardinality(Taken) /\ Total(Log) = Cardinality(Rows)
        /\ Taken \subseteq Rows
    <3>1. \A p \in Partitions : 1..next[p] \subseteq DOMAIN Log[p]
      BY <1>4
    <3>2. UNION {{p} \X DOMAIN written[p] : p \in Partitions} = Taken
      BY <1>4 DEF Taken
    <3>3. Taken \subseteq Rows
      BY <3>1 DEF Taken, Rows
    <3> QED
      BY <3>2, <3>3 DEF Total, Rows
  <2>2. Cardinality(Taken) <= Cardinality(Rows)
    BY <2>1, RowsAreFinite, FS_Subset
  <2>3. /\ Cardinality(Rows) \in Nat /\ Cardinality(Taken) \in Nat /\ CountLimit \in Nat
        /\ Cardinality(Taken) <= CountLimit /\ IsFiniteSet(Taken)
    BY <1>5, <1>7, RowsAreFinite, FS_CardinalityType, Counts DEF CountWell
  <2>4. Cardinality(Taken) = CountLimit \/ Cardinality(Taken) = Cardinality(Rows)
    <3>1. CASE CountReached
      <4>1. Cardinality(Taken) >= CountLimit
        BY <1>5, <1>7, <3>1 DEF CountWell, CountReached
      <4> QED
        BY <2>3, <4>1
    <3>2. CASE \A p \in Partitions : p \in finished
      <4>1. CountPerPartition = NoCount
        BY <1>7, Counts
      <4>2. \A p \in Partitions : next[p] = Len(Log[p])
        BY <1>5, <3>2, <4>1 DEF ReadWell
      <4>3. Taken = Rows
        BY <1>4, <4>2 DEF Taken, Rows
      <4> QED
        BY <4>3
    <3> QED
      BY <1>3, <3>1, <3>2
  <2>5. \A a, b, n \in Nat : n <= a /\ n <= b /\ (n = b \/ n = a) => n = IF a < b THEN a ELSE b
    OBVIOUS
  <2>6. Cardinality(Taken) = Smaller(CountLimit, Cardinality(Rows))
    BY <2>2, <2>3, <2>4, <2>5 DEF Smaller
  <2> QED
    BY <1>7, <2>1, <2>6
<1> QED
  BY <1>6, <1>7

LEMMA CoversStays ==
    ASSUME IInv, OInv, CompleteCoversInput, Next
    PROVE  CompleteCoversInput'
<1>1. CASE UNCHANGED <<written, result>>
  BY <1>1 DEF CompleteCoversInput, Total, Smaller
<1>2. CASE Join
  <2>1. UNCHANGED written /\ result' = Outcome /\ UNCHANGED mode
    BY <1>2 DEF Join, WriterOnly, writerVars, Next
  <2>2. CASE Outcome = "complete"
    BY <1>2, <2>1, <2>2, JoinCovers DEF CompleteCoversInput, Total, Smaller
  <2>3. CASE Outcome # "complete"
    BY <2>1, <2>3 DEF CompleteCoversInput
  <2> QED
    BY <2>2, <2>3
<1>3. CASE Write
  <2>1. result' = None
    BY <1>3 DEF Write, WriterOnly, OInv, RunWell
  <2> QED
    BY <2>1 DEF CompleteCoversInput, None
<1>4. ASSUME NEW c \in Pollers, Admit(c) PROVE CompleteCoversInput'
  BY <1>1, <1>4 DEF Admit, PollerOnly, mainVars, writerVars
<1>5. CASE ~Write /\ ~Join /\ \A c \in Pollers : ~Admit(c)
  BY <1>1, <1>5, OutputKeeps DEF OInv
<1> QED
  BY <1>2, <1>3, <1>4, <1>5

\* A run that completes without a signal has written or dropped its whole
\* input, or as many records as the count allows.
THEOREM CompleteRunsCoverTheInput == Spec => []CompleteCoversInput
<1>1. Init => CompleteCoversInput
  BY DEF Init, CompleteCoversInput, None
<1>2. CompleteCoversInput /\ UNCHANGED vars => CompleteCoversInput'
  BY DEF CompleteCoversInput, Total, Smaller, vars, runVars, mainVars, writerVars
<1>3. IInv /\ OInv /\ CompleteCoversInput /\ [Next]_vars => CompleteCoversInput'
  BY <1>2, CoversStays
<1> QED
  BY <1>1, <1>3, OutputInvariant, PTL DEF Spec
=============================================================================
