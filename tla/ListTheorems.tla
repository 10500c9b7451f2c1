---------------------------- MODULE ListTheorems ----------------------------
(***************************************************************************)
(* Induction along a list, by the well-founded order of the naturals: what *)
(* a fold over a list and a list of lists taken together are, step by      *)
(* step. The folds of the program's models take a step of their own each;  *)
(* it comes in here as a function of a value and a place.                  *)
(***************************************************************************)
EXTENDS Integers, SequencesExt, FiniteSetTheorems, SequenceTheorems, WellFoundedInduction,
        TLAPS

\* The order of the naturals is well-founded, so a set of them has a first element.
LessNat == {x \in Nat \X Nat : x[1] < x[2]}

LEMMA LessNatWellFounded == IsWellFoundedOn(LessNat, Nat)
<1>1. OpToRel(<, Nat) = LessNat
  BY DEF OpToRel, LessNat
<1> QED
  BY <1>1, NatLessThanWellFounded, Zenon

LEMMA LeastNatural ==
    ASSUME NEW S \in SUBSET Nat, S # {}
    PROVE  \E n \in S : \A m \in S : n <= m
<1>1. PICK n \in S : \A m \in S : <<m, n>> \notin LessNat
  BY WFMin, LessNatWellFounded
<1>2. \A m \in S : ~(m < n)
  BY <1>1 DEF LessNat
<1> QED
  BY <1>2

\* What is true of the first place, and of each place if of the one before, is
\* true of all.
LEMMA Climbs ==
    ASSUME NEW n \in Nat, NEW S, 0 \in S,
           \A k \in 1..n : k - 1 \in S => k \in S
    PROVE  \A k \in 0..n : k \in S
<1> DEFINE Missing == {k \in 0..n : k \notin S}
<1> SUFFICES ASSUME Missing # {} PROVE FALSE
  OBVIOUS
<1>1. Missing \subseteq Nat
  OBVIOUS
<1>2. PICK k \in Missing : \A m \in Missing : <<m, k>> \notin LessNat
  BY <1>1, WFMin, LessNatWellFounded
<1>3. k \in 1..n /\ k - 1 \in 0..n /\ <<k - 1, k>> \in LessNat
  BY DEF LessNat
<1> QED
  BY <1>2, <1>3

\* A set of places that is not empty has a last one.
LEMMA LargestIn ==
    ASSUME NEW n \in Nat, NEW s \in SUBSET (1..n)
    PROVE  /\ s # {} => Max(s) \in s /\ \A y \in s : Max(s) >= y
           /\ n \in s => Max(s) = n
<1>1. ASSUME s # {} PROVE \E x \in s : \A y \in s : x >= y
  <2> DEFINE Above == {k \in 0..n : n - k \in s}
  <2>1. Above \subseteq Nat
    OBVIOUS
  <2>2. PICK x \in s : TRUE
    BY <1>1
  <2>3. n - x \in Above
    BY <2>2
  <2>4. PICK k \in Above : \A m \in Above : <<m, k>> \notin LessNat
    BY <2>1, <2>3, WFMin, LessNatWellFounded
  <2>5. ASSUME NEW y \in s PROVE n - k >= y
    <3>1. n - y \in Above /\ n - y \in Nat /\ k \in Nat
      OBVIOUS
    <3>2. ~(n - y < k)
      BY <2>4, <3>1 DEF LessNat
    <3> QED
      BY <3>1, <3>2
  <2> QED
    BY <2>4, <2>5
<1>2. s # {} => Max(s) \in s /\ \A y \in s : Max(s) >= y
  BY <1>1 DEF Max
<1>3. ASSUME n \in s PROVE Max(s) = n
  <2>1. Max(s) \in s /\ Max(s) >= n
    BY <1>2, <1>3
  <2>2. Max(s) \in 1..n
    BY <2>1
  <2> QED
    BY <2>1, <2>2
<1> QED
  BY <1>2, <1>3

\* The first places of a list end with one that comes after the others.
LEMMA UpTo ==
    ASSUME NEW n \in Nat, NEW k \in 1..n
    PROVE  /\ 1..k \in SUBSET (1..n) /\ 1..(k - 1) \in SUBSET (1..n)
           /\ 1..k # {} /\ Max(1..k) = k /\ (1..k) \ {k} = 1..(k - 1)
<1>1. k \in Nat /\ k \in 1..k
  OBVIOUS
<1>2. Max(1..k) = k
  BY <1>1, LargestIn
<1>3. (1..k) \ {k} = 1..(k - 1)
  BY <1>1
<1>4. 1..k \in SUBSET (1..n) /\ 1..(k - 1) \in SUBSET (1..n)
  OBVIOUS
<1> QED
  BY <1>1, <1>2, <1>3, <1>4

-----------------------------------------------------------------------------
\* Folds. MapThenFoldSet takes the largest place last.

\* The steps on a value at each of n places, and a fold of them.
Steps(V, n) == [V \X (1..n) -> V]
IsFold(h, base, n, F) ==
    \A s \in SUBSET (1..n) : h[s] = IF s = {} THEN base ELSE F[<<h[s \ {Max(s)}], Max(s)>>]
IsRun(g, base, n, F, result) ==
    g[0] = base /\ (\A k \in 1..n : g[k] = F[<<g[k - 1], k>>]) /\ g[n] = result

\* There is one, whatever the steps do.
LEMMA Iterates ==
    ASSUME NEW V, NEW base \in V, NEW n \in Nat, NEW F \in Steps(V, n)
    PROVE  \E h \in [SUBSET (1..n) -> V] : IsFold(h, base, n, F)
<1> USE DEF Steps
<1> DEFINE Folds(h, k) == h \in [SUBSET (1..k) -> V] /\ IsFold(h, base, k, F)
<1> DEFINE Reached == {k \in 0..n : \E h : Folds(h, k)}
<1>1. 0 \in Reached
  <2> DEFINE h == [s \in SUBSET (1..0) |-> base]
  <2>1. Folds(h, 0)
    BY DEF IsFold
  <2> HIDE DEF h, Folds
  <2> QED
    BY <2>1
<1>2. ASSUME NEW k \in 1..n, k - 1 \in Reached PROVE k \in Reached
  <2>1. PICK h : Folds(h, k - 1)
    BY <1>2
  <2> DEFINE H == [s \in SUBSET (1..k) |->
                     IF k \in s THEN F[<<h[s \ {k}], k>>] ELSE h[s]]
  <2>2. ASSUME NEW s \in SUBSET (1..k)
        PROVE  /\ s \ {k} \in SUBSET (1..(k - 1)) /\ (k \notin s => s \in SUBSET (1..(k - 1)))
               /\ k \in s => Max(s) = k
               /\ s # {} /\ k \notin s => Max(s) \in 1..(k - 1)
    <3>1. k \in Nat /\ k - 1 \in Nat
      OBVIOUS
    <3>2. s \ {k} \in SUBSET (1..(k - 1)) /\ (k \notin s => s \in SUBSET (1..(k - 1)))
      OBVIOUS
    <3>3. k \in s => Max(s) = k
      BY <3>1, LargestIn
    <3>4. s # {} => Max(s) \in s
      BY <3>1, LargestIn
    <3> QED
      BY <3>2, <3>3, <3>4
  <2>3. H \in [SUBSET (1..k) -> V]
    BY <2>1, <2>2
  <2>4. ASSUME NEW s \in SUBSET (1..k)
        PROVE  H[s] = IF s = {} THEN base ELSE F[<<H[s \ {Max(s)}], Max(s)>>]
    <3>1. CASE k \in s
      <4>1. H[s \ {k}] = h[s \ {k}]
        BY <2>2
      <4> QED
        BY <3>1, <4>1, <2>2
    <3>2. CASE k \notin s /\ s # {}
      <4>1. s \ {Max(s)} \in SUBSET (1..k) /\ k \notin s \ {Max(s)}
        BY <3>2
      <4>2. H[s \ {Max(s)}] = h[s \ {Max(s)}]
        BY <4>1
      <4> QED
        BY <3>2, <4>2, <2>1, <2>2 DEF IsFold
    <3>3. CASE s = {}
      BY <3>3, <2>1 DEF IsFold
    <3> QED
      BY <3>1, <3>2, <3>3
  <2>5. Folds(H, k)
    BY <2>3, <2>4 DEF IsFold
  <2> HIDE DEF H, Folds
  <2> QED
    BY <2>5
<1>3. n \in Reached
  <2> HIDE DEF Reached
  <2> QED
    BY <1>1, <1>2, Climbs
<1> QED
  BY <1>3

\* Two functions of the places taken so far that start alike and never part.
OfPlaces(f, n) == f = [t \in SUBSET (1..n) |-> f[t]]
Alike(f, h, n) ==
    /\ f[{}] = h[{}]
    /\ \A t \in SUBSET (1..n) :
          t # {} /\ f[t \ {Max(t)}] = h[t \ {Max(t)}] => f[t] = h[t]

\* They are one: there is no second fold.
LEMMA SameFold ==
    ASSUME NEW n \in Nat, NEW f, NEW h, OfPlaces(f, n), OfPlaces(h, n), Alike(f, h, n)
    PROVE  f = h
<1> USE DEF Alike
<1> DEFINE Same == {k \in 0..n : \A t \in SUBSET (1..k) : f[t] = h[t]}
<1>1. 0 \in Same
  <2>1. 0 \in 0..n /\ \A t \in SUBSET (1..0) : t = {}
    OBVIOUS
  <2>2. \A t \in SUBSET (1..0) : f[t] = h[t]
    BY <2>1
  <2> QED
    BY <2>1, <2>2
<1>2. ASSUME NEW k \in 1..n, k - 1 \in Same PROVE k \in Same
  <2>1. ASSUME NEW t \in SUBSET (1..k) PROVE f[t] = h[t]
    <3>1. t \in SUBSET (1..n) /\ k \in Nat
      OBVIOUS
    <3>2. CASE k \in t
      <4>1. Max(t) = k
        BY <3>1, <3>2, LargestIn
      <4>2. t \ {k} \in SUBSET (1..(k - 1))
        OBVIOUS
      <4>3. f[t \ {k}] = h[t \ {k}]
        BY <1>2, <4>2
      <4> HIDE DEF Same
      <4> QED
        BY <3>1, <3>2, <4>1, <4>3
    <3>3. CASE k \notin t
      <4>1. t \in SUBSET (1..(k - 1))
        BY <3>3
      <4> QED
        BY <1>2, <4>1
    <3> QED
      BY <3>2, <3>3
  <2>2. k \in 0..n
    OBVIOUS
  <2> QED
    BY <2>1, <2>2
<1>3. n \in Same
  <2>1. n \in 0..n
    OBVIOUS
  <2> HIDE DEF Same
  <2> QED
    BY <1>1, <1>2, <2>1, Climbs
<1>4. \A t \in SUBSET (1..n) : f[t] = h[t]
  BY <1>3
<1> QED
  BY <1>4 DEF OfPlaces

\* A fold over a list takes its places in order.
LEMMA Runs ==
    ASSUME NEW V, NEW base, NEW n \in Nat, NEW F, NEW h \in [SUBSET (1..n) -> V],
           IsFold(h, base, n, F)
    PROVE  \E g \in [0..n -> V] : IsRun(g, base, n, F, h[1..n])
<1> DEFINE g == [k \in 0..n |-> h[1..k]]
<1>2. ASSUME NEW k \in 0..n PROVE g[k] = h[1..k] /\ 1..k \in SUBSET (1..n)
  OBVIOUS
<1>3. g \in [0..n -> V]
  BY <1>2
<1>4. g[0] = base
  <2>1. 1..0 = {} /\ 0 \in 0..n
    OBVIOUS
  <2> QED
    BY <1>2, <2>1 DEF IsFold
<1>5. ASSUME NEW k \in 1..n PROVE g[k] = F[<<g[k - 1], k>>]
  <2>1. k \in 0..n /\ k - 1 \in 0..n
    OBVIOUS
  <2>2. h[1..k] = F[<<h[(1..k) \ {Max(1..k)}], Max(1..k)>>]
    BY UpTo DEF IsFold
  <2>3. h[1..k] = F[<<h[1..(k - 1)], k>>]
    BY <2>2, UpTo
  <2> HIDE DEF g
  <2> QED
    BY <1>2, <2>1, <2>3
<1>6. g[n] = h[1..n]
  BY <1>2
<1> HIDE DEF g
<1> QED
  BY <1>3, <1>4, <1>5, <1>6 DEF IsRun

-----------------------------------------------------------------------------
\* Lists of lists.

\* A list of lists is put together list by list.
Joins(g, lists, n) ==
    /\ g[0] = <<>>
    /\ \A k \in 1..n : g[k] = g[k - 1] \o lists[k]
    /\ FlattenSeq(lists) = g[n]

LEMMA Flattens ==
    ASSUME NEW V, NEW lists \in Seq(Seq(V)), NEW n, n = Len(lists)
    PROVE  \E g \in [0..n -> Seq(V)] : Joins(g, lists, n)
<1>1. n \in Nat /\ DOMAIN lists = 1..n /\ <<>> \in Seq(V) /\ \A k \in 1..n : lists[k] \in Seq(V)
  OBVIOUS
<1>2. PICK g \in [0..n -> Seq(V)] : g[0] = <<>> /\ \A k \in 1..n : g[k] = g[k - 1] \o lists[k]
  <2> DEFINE F == [a \in Seq(V) \X (1..n) |-> a[1] \o lists[a[2]]]
  <2>1. F \in Steps(Seq(V), n)
    BY <1>1 DEF Steps
  <2>2. \A a \in Seq(V), k \in 1..n : F[<<a, k>>] = a \o lists[k]
    OBVIOUS
  <2> HIDE DEF F
  <2>3. PICK h \in [SUBSET (1..n) -> Seq(V)] : IsFold(h, <<>>, n, F)
    BY <1>1, <2>1, Iterates
  <2>4. PICK g \in [0..n -> Seq(V)] : IsRun(g, <<>>, n, F, h[1..n])
    BY <1>1, <2>3, Runs
  <2>5. ASSUME NEW k \in 1..n PROVE g[k] = g[k - 1] \o lists[k]
    <3>1. k - 1 \in 0..n
      BY <1>1
    <3>2. g[k - 1] \in Seq(V)
      BY <3>1
    <3> QED
      BY <2>2, <2>4, <3>2 DEF IsRun
  <2> QED
    BY <2>4, <2>5 DEF IsRun
<1> DEFINE E(f) == f = [i \in 1..n |-> IF i = 1 THEN lists[i] ELSE f[i - 1] \o lists[i]]
<1>3. CASE n > 0
  <2> DEFINE f == [i \in 1..n |-> g[i]]
  <2>1. ASSUME NEW i \in 1..n
        PROVE  g[i] = IF i = 1 THEN lists[i] ELSE f[i - 1] \o lists[i]
    <3>1. CASE i = 1
      <4>1. 1 \in 1..n /\ 1 - 1 = 0
        BY <3>1
      <4>2. g[1] = g[0] \o lists[1] /\ lists[1] \in Seq(V)
        BY <1>1, <1>2, <4>1
      <4>3. <<>> \o lists[1] = lists[1]
        BY <4>2, ConcatEmptySeq
      <4> QED
        BY <1>2, <3>1, <4>2, <4>3
    <3>2. CASE i # 1
      <4>1. i - 1 \in 1..n
        BY <1>1, <3>2
      <4>2. f[i - 1] = g[i - 1]
        BY <4>1
      <4> HIDE DEF f
      <4> QED
        BY <1>2, <3>2, <4>2
    <3> QED
      BY <3>1, <3>2
  <2>2. f = [i \in 1..n |-> IF i = 1 THEN lists[i] ELSE f[i - 1] \o lists[i]]
    BY <2>1
  <2>3. E(f)
    <3> HIDE DEF f
    <3> QED
      BY <2>2
  <2> DEFINE flatten == CHOOSE x : E(x)
  <2>4. E(flatten)
    <3> HIDE DEF f, E
    <3> QED
      BY <2>3
  <2>5. FlattenSeq(lists) = flatten[n]
    BY <1>3 DEF FlattenSeq
  <2> HIDE DEF flatten
  <2>6. ASSUME NEW i \in 1..n
        PROVE  flatten[i] = IF i = 1 THEN lists[i] ELSE flatten[i - 1] \o lists[i]
    BY <2>4
  <2> DEFINE Same == {i \in 0..n : i = 0 \/ flatten[i] = g[i]}
  <2>7. 0 \in Same
    BY <1>1
  <2>8. ASSUME NEW i \in 1..n, i - 1 \in Same PROVE i \in Same
    <3>1. i # 1 => i - 1 \in 1..n /\ f[i - 1] = g[i - 1] /\ flatten[i - 1] = g[i - 1]
      BY <1>1, <2>8
    <3>2. g[i] = IF i = 1 THEN lists[i] ELSE f[i - 1] \o lists[i]
      BY <2>1
    <3>3. flatten[i] = IF i = 1 THEN lists[i] ELSE flatten[i - 1] \o lists[i]
      BY <2>6
    <3>4. flatten[i] = g[i]
      <4> HIDE DEF f
      <4> QED
        BY <3>1, <3>2, <3>3
    <3> QED
      BY <1>1, <3>4
  <2>9. n \in Same
    <3>1. n \in 0..n
      BY <1>1
    <3> HIDE DEF Same
    <3> QED
      BY <1>1, <2>7, <2>8, <3>1, Climbs
  <2>10. flatten[n] = g[n]
    BY <1>3, <2>9
  <2> QED
    BY <1>2, <2>5, <2>10 DEF Joins
<1>4. CASE n = 0
  <2>1. FlattenSeq(lists) = lists
    BY <1>4 DEF FlattenSeq
  <2>2. lists = <<>>
    BY <1>4, EmptySeq
  <2> QED
    BY <1>2, <1>4, <2>1, <2>2 DEF Joins
<1> QED
  BY <1>1, <1>3, <1>4
\* What two lists hold together.
LEMMA ConcatRange ==
    ASSUME NEW V, NEW a \in Seq(V), NEW b \in Seq(V)
    PROVE  Range(a \o b) = Range(a) \cup Range(b)
<1>1. /\ Len(a) \in Nat /\ Len(b) \in Nat
      /\ DOMAIN a = 1..Len(a) /\ DOMAIN b = 1..Len(b) /\ DOMAIN (a \o b) = 1..(Len(a) + Len(b))
      /\ \A i \in 1..(Len(a) + Len(b)) :
            (a \o b)[i] = IF i <= Len(a) THEN a[i] ELSE b[i - Len(a)]
  OBVIOUS
<1>2. ASSUME NEW i \in DOMAIN (a \o b) PROVE (a \o b)[i] \in Range(a) \cup Range(b)
  BY <1>1 DEF Range
<1>3. ASSUME NEW i \in DOMAIN a PROVE a[i] \in Range(a \o b)
  BY <1>1 DEF Range
<1>4. ASSUME NEW i \in DOMAIN b PROVE b[i] \in Range(a \o b)
  <2>1. /\ Len(a) + i \in DOMAIN (a \o b) /\ ~(Len(a) + i <= Len(a))
        /\ (Len(a) + i) - Len(a) = i
    BY <1>1
  <2>2. (a \o b)[Len(a) + i] = b[i]
    BY <1>1, <2>1
  <2> QED
    BY <2>1, <2>2 DEF Range
<1> QED
  BY <1>2, <1>3, <1>4 DEF Range

\* A list of lists holds what any of them holds.
LEMMA FlattenedRange ==
    ASSUME NEW V, NEW lists \in Seq(Seq(V))
    PROVE  /\ FlattenSeq(lists) \in Seq(V)
           /\ Range(FlattenSeq(lists)) = UNION {Range(l) : l \in Range(lists)}
<1> DEFINE n == Len(lists)
           Joined(k) == UNION {Range(lists[j]) : j \in 1..k}
<1>1. n \in Nat /\ DOMAIN lists = 1..n /\ \A k \in 1..n : lists[k] \in Seq(V)
  OBVIOUS
<1>2. PICK g \in [0..n -> Seq(V)] : Joins(g, lists, n)
  BY Flattens
<1> HIDE DEF n
<1> DEFINE Ranged == {k \in 0..n : Range(g[k]) = Joined(k)}
<1>3. 0 \in Ranged
  <2>1. Range(<<>>) = {} /\ Joined(0) = {} /\ 0 \in 0..n
    BY <1>1 DEF Range
  <2> QED
    BY <1>2, <2>1 DEF Joins
<1>4. ASSUME NEW k \in 1..n, k - 1 \in Ranged PROVE k \in Ranged
  <2>1. g[k] = g[k - 1] \o lists[k] /\ g[k - 1] \in Seq(V) /\ lists[k] \in Seq(V)
    <3>1. k - 1 \in 0..n
      BY <1>1
    <3>2. g[k] = g[k - 1] \o lists[k]
      BY <1>2 DEF Joins
    <3> QED
      BY <1>1, <3>1, <3>2
  <2>2. Range(g[k - 1] \o lists[k]) = Range(g[k - 1]) \cup Range(lists[k])
    BY <2>1, ConcatRange
  <2>3. 1..k = (1..(k - 1)) \cup {k}
    BY <1>1
  <2>4. Joined(k) = Joined(k - 1) \cup Range(lists[k])
    BY <2>3
  <2>5. Range(g[k - 1]) = Joined(k - 1)
    BY <1>4
  <2>6. Range(g[k]) = Joined(k)
    BY <2>1, <2>2, <2>4, <2>5
  <2> HIDE DEF Joined
  <2> QED
    BY <1>1, <2>6
<1>5. n \in 0..n /\ Range(g[n]) = Joined(n)
  <2>1. n \in 0..n
    BY <1>1
  <2> HIDE DEF Ranged
  <2>2. n \in Ranged
    BY <1>1, <1>3, <1>4, <2>1, Climbs
  <2> USE DEF Ranged
  <2> QED
    BY <2>1, <2>2
<1>6. Joined(n) = UNION {Range(l) : l \in Range(lists)}
  <2>1. Range(lists) = {lists[j] : j \in 1..n}
    BY <1>1 DEF Range
  <2> QED
    BY <2>1
<1>7. FlattenSeq(lists) = g[n]
  BY <1>2 DEF Joins
<1> HIDE DEF Joined
<1> QED
  BY <1>2, <1>5, <1>6, <1>7

LEMMA FlattenedNone == FlattenSeq(<<>>) = <<>>
  BY DEF FlattenSeq

\* One more list comes last.
LEMMA FlattenedLast ==
    ASSUME NEW V, NEW lists \in Seq(Seq(V)), NEW l \in Seq(V)
    PROVE  FlattenSeq(Append(lists, l)) = FlattenSeq(lists) \o l
<1> DEFINE n == Len(lists)
           longer == Append(lists, l)
<1>1. n \in Nat /\ longer \in Seq(Seq(V)) /\ n + 1 = Len(longer) /\ longer[n + 1] = l
      /\ \A k \in 1..n : longer[k] = lists[k]
  OBVIOUS
<1>2. PICK g \in [0..n -> Seq(V)] : Joins(g, lists, n)
  BY Flattens
<1> HIDE DEF n, longer
<1>3. PICK h \in [0..(n + 1) -> Seq(V)] : Joins(h, longer, n + 1)
  BY <1>1, Flattens
<1> DEFINE Equal == {k \in 0..n : h[k] = g[k]}
<1>4. 0 \in Equal
  BY <1>1, <1>2, <1>3 DEF Joins
<1>5. ASSUME NEW k \in 1..n, k - 1 \in Equal PROVE k \in Equal
  <2>1. k \in 1..(n + 1) /\ k \in 0..n
    BY <1>1
  <2>2. h[k] = h[k - 1] \o longer[k] /\ g[k] = g[k - 1] \o lists[k]
    BY <1>2, <1>3, <2>1 DEF Joins
  <2> QED
    BY <1>1, <1>5, <2>1, <2>2
<1>6. h[n] = g[n]
  <2>1. n \in 0..n
    BY <1>1
  <2>2. n \in Equal
    <3> HIDE DEF Equal
    <3> QED
      BY <1>1, <1>4, <1>5, <2>1, Climbs
  <2> QED
    BY <2>2
<1>7. h[n + 1] = h[n] \o l
  <2>1. n + 1 \in 1..(n + 1) /\ (n + 1) - 1 = n
    BY <1>1
  <2> QED
    BY <1>1, <1>3, <2>1 DEF Joins
<1>8. FlattenSeq(longer) = h[n + 1] /\ FlattenSeq(lists) = g[n]
  BY <1>2, <1>3 DEF Joins
<1> QED
  BY <1>6, <1>7, <1>8 DEF longer

\* What a list holds makes it a list of anything it is part of.
LEMMA ListOf ==
    ASSUME NEW s, s \in Seq(Range(s)), NEW V, Range(s) \subseteq V
    PROVE  s \in Seq(V)
<1>1. Len(s) \in Nat /\ s \in [1..Len(s) -> Range(s)]
  OBVIOUS
<1>2. s \in [1..Len(s) -> V]
  BY <1>1
<1> QED
  BY <1>1, <1>2, SeqDef

LEMMA FlattenedList ==
    ASSUME NEW lists, lists \in Seq(Range(lists)),
           \A i \in DOMAIN lists : lists[i] \in Seq(Range(lists[i]))
    PROVE  /\ FlattenSeq(lists) \in Seq(Range(FlattenSeq(lists)))
           /\ Range(FlattenSeq(lists)) = UNION {Range(l) : l \in Range(lists)}
<1> DEFINE V == UNION {Range(l) : l \in Range(lists)}
           flat == FlattenSeq(lists)
<1>1. ASSUME NEW i \in DOMAIN lists PROVE lists[i] \in Seq(V)
  <2>1. Range(lists[i]) \subseteq V
    BY DEF Range
  <2> HIDE DEF V
  <2> QED
    BY <2>1, ListOf
<1>2. Range(lists) \subseteq Seq(V)
  <2> HIDE DEF V
  <2> QED
    BY <1>1 DEF Range
<1>3. lists \in Seq(Seq(V))
  <2> HIDE DEF V
  <2> QED
    BY <1>2, ListOf
<1>4. flat \in Seq(V) /\ Range(flat) = V
  <2> HIDE DEF V
  <2> QED
    BY <1>3, FlattenedRange DEF V
<1> HIDE DEF V, flat
<1>5. flat \in Seq(Range(flat))
  BY <1>4
<1> QED
  BY <1>4, <1>5 DEF V, flat

\* A list with one more element, place by place.
LEMMA AppendPlaces ==
    ASSUME NEW V, NEW s \in Seq(V), NEW x \in V, NEW n \in Nat, n = Len(s)
    PROVE  Append(s, x) = [i \in 1..(n + 1) |-> IF i = n + 1 THEN x ELSE s[i]]
<1> DEFINE f == [i \in 1..(n + 1) |-> IF i = n + 1 THEN x ELSE s[i]]
           a == Append(s, x)
<1>1. a \in Seq(V) /\ Len(a) = n + 1 /\ DOMAIN a = 1..(n + 1)
  OBVIOUS
<1>2. a = [i \in 1..(n + 1) |-> a[i]]
  <2> HIDE DEF a
  <2> QED
    BY <1>1
<1>3. \A i \in 1..(n + 1) : a[i] = IF i = n + 1 THEN x ELSE s[i]
  OBVIOUS
<1> HIDE DEF a
<1>4. f = a
  BY <1>2, <1>3
<1> QED
  BY <1>4 DEF a
=============================================================================
