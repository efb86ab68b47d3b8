---------------------------- MODULE ModbusProofs ----------------------------
(***************************************************************************)
(* Theorems about ModbusBatch and ModbusSession.                           *)
(*                                                                         *)
(* The batch, for every list of metrics and every limit: a metric is       *)
(* decoded from its own registers and costs two reads at most; what is     *)
(* read is legal, and a failure stays where it belongs, as long as nothing *)
(* reaches the top address.                                                *)
(* The session, for every set of reads and every bound on what is on the   *)
(* way: exclusive use of the line until a read is given up, and answers    *)
(* that are the read's own.                                                *)
(***************************************************************************)
EXTENDS ModbusBatch, ModbusSession, FiniteSetTheorems, SequenceTheorems, WellFoundedInduction, TLAPS

-----------------------------------------------------------------------------
(* Induction.  Sets take the place of predicates, so that the provers can    *)
(* instantiate the lemmas.                                                   *)

\* A non-empty set of numbers has a least one.
LEMMA LeastElement ==
    ASSUME NEW T \in SUBSET Nat, T # {}
    PROVE  \E m \in T : \A n \in T : m <= n
<1> DEFINE R == {p \in Nat \X Nat : p[1] < p[2]}
<1>1. IsWellFoundedOn(R, Nat)
    BY NatLessThanWellFounded DEF OpToRel
<1>2. PICK x \in T : \A y \in T : ~ (<<y, x>> \in R)
    BY <1>1, WFMin
<1>3. \A y \in T : ~ (y < x)
    BY <1>2
<1>4. QED BY <1>3

\* Induction over the natural numbers.
LEMMA Induction ==
    ASSUME NEW S, 0 \in S, \A n \in Nat : n \in S => n + 1 \in S
    PROVE  Nat \subseteq S
<1> SUFFICES ASSUME Nat \ S # {} PROVE FALSE
    OBVIOUS
<1>1. PICK m \in Nat \ S : \A n \in Nat \ S : m <= n
    BY LeastElement
<1>2. m - 1 \in Nat /\ m - 1 \in S
    BY <1>1
<1>3. QED BY <1>1, <1>2

\* A finite set each part of which has a first element can be put in order.
LEMMA OrderExists ==
    ASSUME NEW S, IsFiniteSet(S), NEW R,
           \A T \in SUBSET S : T # {} => \E m \in T : \A x \in T \ {m} : <<m, x>> \in R
    PROVE  \E s \in SetToSeqs(S) : \A j, k \in DOMAIN s : j < k => <<s[j], s[k]>> \in R
<1> DEFINE Ordered(s, T) == \A j, k \in DOMAIN s : j < k => <<s[j], s[k]>> \in R
           Orderable(T) == \E s \in SetToSeqs(T) : Ordered(s, T)
           Sizes == {n \in Nat : \A T \in SUBSET S : Cardinality(T) = n => Orderable(T)}
<1>1. \A T \in SUBSET S : Cardinality(T) = 0 => Orderable(T)
    <2> SUFFICES ASSUME NEW T \in SUBSET S, Cardinality(T) = 0 PROVE Orderable(T)
        OBVIOUS
    <2>1. T = {} /\ 1 .. Cardinality(T) = {}
        BY FS_Subset, FS_EmptySet
    <2> DEFINE s == [k \in 1 .. Cardinality(T) |-> k]
    <2>2. s \in [1 .. Cardinality(T) -> T] /\ DOMAIN s = {}
        BY <2>1
    <2> HIDE DEF s
    <2>3. s \in SetToSeqs(T)
        BY <2>1, <2>2 DEF SetToSeqs
    <2>4. QED BY <2>2, <2>3
<1>2. ASSUME NEW n \in Nat, NEW T \in SUBSET S, Cardinality(T) = n + 1,
             \A U \in SUBSET S : Cardinality(U) = n => Orderable(U)
      PROVE  Orderable(T)
    <2>1. IsFiniteSet(T) /\ T # {}
        BY <1>2, FS_Subset, FS_EmptySet
    <2>2. PICK m \in T : \A x \in T \ {m} : <<m, x>> \in R
        BY <2>1
    <2>3. Cardinality(T \ {m}) = n
        <3>1. Cardinality(T \ {m}) = Cardinality(T) - 1
            BY <2>1, FS_RemoveElement
        <3>2. QED BY <1>2, <3>1
    <2>4. PICK s \in SetToSeqs(T \ {m}) : Ordered(s, T \ {m})
        BY <1>2, <2>3
    <2>5. /\ s \in [1 .. n -> T \ {m}]
          /\ \A j, k \in 1 .. n : j # k => s[j] # s[k]
        BY <2>3, <2>4 DEF SetToSeqs
    <2> DEFINE t == [k \in 1 .. n + 1 |-> IF k = 1 THEN m ELSE s[k - 1]]
    <2>6. \A k \in 1 .. n + 1 : IF k = 1 THEN t[k] = m ELSE k - 1 \in 1 .. n /\ t[k] = s[k - 1]
        OBVIOUS
    <2>7. t \in [1 .. n + 1 -> T]
        BY <2>5
    <2> HIDE DEF t
    <2>8. \A j, k \in 1 .. n + 1 : j # k => t[j] # t[k]
        BY <2>5, <2>6
    <2>9. t \in SetToSeqs(T)
        BY <1>2, <2>7, <2>8 DEF SetToSeqs
    <2>10. ASSUME NEW j \in 1 .. n + 1, NEW k \in 1 .. n + 1, j < k
           PROVE  <<t[j], t[k]>> \in R
        <3>1. k - 1 \in 1 .. n /\ t[k] = s[k - 1] /\ s[k - 1] \in T \ {m}
            BY <2>5, <2>6, <2>10
        <3>2. CASE j = 1
            BY <2>2, <2>6, <3>1, <3>2
        <3>3. CASE j # 1
            <4>1. j - 1 \in 1 .. n /\ t[j] = s[j - 1] /\ j - 1 < k - 1
                BY <2>6, <2>10, <3>3
            <4>2. QED BY <2>4, <2>5, <3>1, <4>1
        <3>4. QED BY <3>2, <3>3
    <2>11. QED BY <2>7, <2>9, <2>10
<1> HIDE DEF Orderable
<1>3. 0 \in Sizes /\ \A n \in Nat : n \in Sizes => n + 1 \in Sizes
    BY <1>1, <1>2
<1> HIDE DEF Sizes
<1>4. Cardinality(S) \in Sizes
    BY <1>3, Induction, FS_CardinalityType
<1>5. Orderable(S)
    BY <1>4 DEF Sizes
<1>6. QED BY <1>5 DEF Orderable

\* No element is there twice.
Distinct(s) == \A j, k \in DOMAIN s : s[j] = s[k] => j = k

\* Each member of the set is in it, once.
LEMMA OrderIsComplete ==
    ASSUME NEW S, IsFiniteSet(S), NEW s \in SetToSeqs(S)
    PROVE  /\ s \in Seq(S)
           /\ Len(s) = Cardinality(S)
           /\ DOMAIN s = 1 .. Cardinality(S)
           /\ Cardinality(S) \in Nat
           /\ \A x \in S : \E k \in DOMAIN s : s[k] = x
           /\ Distinct(s)
<1>1. Cardinality(S) \in Nat
    BY FS_CardinalityType
<1>2. /\ s \in [1 .. Cardinality(S) -> S]
      /\ \A j, k \in 1 .. Cardinality(S) : j # k => s[j] # s[k]
    BY DEF SetToSeqs
<1>3. IsFiniteSet(1 .. Cardinality(S)) /\ Cardinality(1 .. Cardinality(S)) = Cardinality(S)
    BY <1>1, FS_Interval
<1>4. s \in Injection(1 .. Cardinality(S), S)
    BY <1>2 DEF Injection, IsInjective
<1>5. s \in Surjection(1 .. Cardinality(S), S)
    BY <1>3, <1>4, FS_Injection
<1>6. QED BY <1>1, <1>2, <1>5 DEF Surjection, Distinct

-----------------------------------------------------------------------------
(* The metrics and their order *)

\* The list as Init chooses it; no step changes it.
ListOK == metrics \in [1 .. ListLength -> Listed]

\* A metric of the list.
LEMMA MetricFacts ==
    ASSUME ListOK, NEW i \in Indices
    PROVE  /\ Indices = 1 .. ListLength
           /\ i \in Nat
           /\ metrics[i] \in [type : RegisterTypes \cup BitTypes, addr : -1 .. U16Max,
                              data_type : DataTypes, byte_order : ByteOrders]
           /\ metrics[i] \in MetricConfigs
           /\ metrics[i].addr # NoAddress => metrics[i].addr \in 0 .. U16Max
           /\ Count(i) \in {1, 2, 4}
<1>1. /\ Indices = 1 .. ListLength
      /\ metrics[i] \in MetricConfigs
    BY DEF ListOK, Indices, Listed
<1>2. metrics[i] \in [type : RegisterTypes \cup BitTypes, addr : -1 .. U16Max,
                      data_type : DataTypes, byte_order : ByteOrders]
    BY <1>1, BatchAssumption
<1>3. i \in Nat /\ (metrics[i].addr # NoAddress => metrics[i].addr \in 0 .. U16Max)
    BY <1>1, <1>2, BatchAssumption DEF NoAddress
<1>4. metrics[i].data_type \in DataTypes
    BY <1>2
<1>5. Count(i) \in {1, 2, 4}
    BY <1>4 DEF Count, RegistersNeeded, DataTypes
<1>6. QED BY <1>1, <1>2, <1>3, <1>5

\* The metrics of one type are finitely many and have an address.
LEMMA OfTypeFacts ==
    ASSUME ListOK, NEW type
    PROVE  /\ OfType(type) \subseteq Indices
           /\ Indices \subseteq Nat
           /\ IsFiniteSet(OfType(type))
           /\ \A i \in OfType(type) : metrics[i].type = type /\ metrics[i].addr \in 0 .. U16Max
<1>1. Indices = 1 .. ListLength /\ ListLength \in Nat
    BY BatchAssumption DEF ListOK, Indices
<1>2. OfType(type) \in SUBSET (1 .. ListLength)
    BY <1>1 DEF OfType
<1>3. IsFiniteSet(OfType(type))
    BY <1>1, <1>2, FS_Interval, FS_Subset
<1>4. QED BY <1>1, <1>2, <1>3, MetricFacts DEF OfType

\* Among metrics that have an address one is first by address and position.
LEMMA FirstByAddr ==
    ASSUME ListOK, NEW type, NEW T \in SUBSET OfType(type), T # {}
    PROVE  \E m \in T : \A x \in T \ {m} : ByAddr(m, x)
<1>1. T \subseteq Nat /\ \A i \in T : metrics[i].addr \in Nat
    BY OfTypeFacts
<1> DEFINE A == {metrics[i].addr : i \in T}
<1>2. PICK a \in A : \A b \in A : a <= b
    <2>1. A \in SUBSET Nat /\ A # {}
        BY <1>1
    <2> HIDE DEF A
    <2>2. QED BY <2>1, LeastElement
<1> DEFINE F == {i \in T : metrics[i].addr = a}
<1>3. PICK m \in F : \A i \in F : m <= i
    <2>1. F \in SUBSET Nat /\ F # {}
        BY <1>1, <1>2
    <2> HIDE DEF F
    <2>2. QED BY <2>1, LeastElement
<1>4. ASSUME NEW x \in T \ {m} PROVE ByAddr(m, x)
    <2>1. a \in Nat /\ metrics[x].addr \in Nat /\ a <= metrics[x].addr /\ m \in Nat /\ x \in Nat
        BY <1>1, <1>2
    <2>2. metrics[m].addr = a
        OBVIOUS
    <2>3. metrics[x].addr = a => m <= x
        BY <1>3
    <2>4. QED BY <2>1, <2>2, <2>3 DEF ByAddr
<1>5. QED BY <1>4

\* Sorting keeps every metric and puts lower addresses first (sort_by_key).
LEMMA SortedFacts ==
    ASSUME ListOK, NEW type
    PROVE  LET s == SortedByAddr(type)
           IN  /\ s \in Seq(OfType(type))
               /\ Len(s) \in Nat /\ DOMAIN s = 1 .. Len(s)
               /\ \A k \in DOMAIN s : s[k] \in OfType(type)
               /\ \A j, k \in DOMAIN s : j < k => metrics[s[j]].addr <= metrics[s[k]].addr
               /\ \A i \in OfType(type) : \E k \in DOMAIN s : s[k] = i
               /\ Distinct(s)
<1> DEFINE S == OfType(type)
           IsOrder(s) == s \in SetToSeqs(S) /\ \A j, k \in DOMAIN s : j < k => ByAddr(s[j], s[k])
           R == {p \in S \X S : ByAddr(p[1], p[2])}
<1>1. IsFiniteSet(S)
    BY OfTypeFacts
<1>2. \A T \in SUBSET S : T # {} => \E m \in T : \A x \in T \ {m} : <<m, x>> \in R
    BY FirstByAddr
<1>3. PICK t \in SetToSeqs(S) : \A j, k \in DOMAIN t : j < k => <<t[j], t[k]>> \in R
    <2> HIDE DEF R, S
    <2>1. QED BY <1>1, <1>2, OrderExists
<1>4. IsOrder(t)
    BY <1>3
<1>5. SortedByAddr(type) = CHOOSE s : IsOrder(s)
    BY DEF SortedByAddr, InOrder
<1>6. IsOrder(SortedByAddr(type))
    BY <1>4, <1>5
<1> DEFINE s == SortedByAddr(type)
<1>7. /\ s \in Seq(S)
      /\ Len(s) = Cardinality(S)
      /\ DOMAIN s = 1 .. Cardinality(S)
      /\ Cardinality(S) \in Nat
      /\ \A x \in S : \E k \in DOMAIN s : s[k] = x
      /\ Distinct(s)
    <2> HIDE DEF S
    <2>1. QED BY <1>1, <1>6, OrderIsComplete
<1>8. \A k \in DOMAIN s : s[k] \in S
    <2> HIDE DEF S, s
    <2>1. QED BY <1>7, ElementOfSeq
<1>9. ASSUME NEW j \in DOMAIN s, NEW k \in DOMAIN s, j < k
      PROVE  metrics[s[j]].addr <= metrics[s[k]].addr
    <2>1. ByAddr(s[j], s[k])
        BY <1>6, <1>9
    <2>2. metrics[s[j]].addr \in Nat /\ metrics[s[k]].addr \in Nat
        BY <1>8, OfTypeFacts
    <2>3. QED BY <2>1, <2>2 DEF ByAddr
<1>10. QED BY <1>7, <1>8, <1>9
-----------------------------------------------------------------------------
(* Merging *)

\* The members of a concatenation.
LEMMA SetOfConcat ==
    ASSUME NEW S, NEW s \in Seq(S), NEW t \in Seq(S)
    PROVE  ToSet(s \o t) = ToSet(s) \cup ToSet(t)
<1>1. \A x : ToSet(x) = Range(x)
    BY DEF ToSet, Range
<1>2. QED BY <1>1, RangeConcatenation

\* The widest metric fits into one read.
Roomy == MaxRegistersPerRead >= 4

\* No longer than one read, and empty only at the top address, where a
\* saturating end cannot lie behind the start.
LegalBelowTop(r) ==
    /\ r.end - r.start <= MaxRegistersPerRead
    /\ r.start < r.end \/ r.start = U16Max

\* A range of metrics of one type that lie in it.
RangesOf(type) ==
    {r \in [type : {type}, start : 0 .. U16Max, end : 0 .. U16Max, members : Seq(OfType(type))] :
        /\ \A i \in ToSet(r.members) : /\ r.start <= metrics[i].addr
                                       /\ SaturatingAdd(metrics[i].addr, Count(i)) <= r.end
        /\ \E i \in OfType(type) : r.start = metrics[i].addr
        /\ Roomy => LegalBelowTop(r)}

\* One metric alone makes a range.
LEMMA SingleRange ==
    ASSUME ListOK, NEW type, NEW i \in OfType(type)
    PROVE  /\ RangeOf(i) \in RangesOf(type)
           /\ RangeOf(i).start = metrics[i].addr
           /\ RangeOf(i).end = SaturatingAdd(metrics[i].addr, Count(i))
           /\ RangeOf(i).members = <<i>>
<1>1. /\ i \in Indices
      /\ metrics[i].type = type
      /\ metrics[i].addr \in 0 .. U16Max
      /\ Count(i) \in {1, 2, 4}
      /\ U16Max \in Nat
      /\ metrics[i] \in Listed
    BY OfTypeFacts, MetricFacts, BatchAssumption DEF ListOK, Indices
<1> DEFINE e == SaturatingAdd(metrics[i].addr, Count(i))
<1>2. e \in 0 .. U16Max
    BY <1>1 DEF SaturatingAdd, Least
<1>3. Roomy => /\ e - metrics[i].addr <= MaxRegistersPerRead
               /\ metrics[i].addr < e \/ metrics[i].addr = U16Max
    <2>1. MaxRegistersPerRead \in Nat
        BY BatchAssumption
    <2>2. QED BY <1>1, <2>1 DEF SaturatingAdd, Least, Roomy
<1> HIDE DEF e
<1>4. <<i>> \in Seq(OfType(type)) /\ ToSet(<<i>>) = {i}
    BY DEF ToSet
<1>5. RangeOf(i) = [type |-> type, start |-> metrics[i].addr, end |-> e, members |-> <<i>>]
    BY <1>1 DEF RangeOf, e
<1>6. QED BY <1>1, <1>2, <1>3, <1>4, <1>5 DEF RangesOf, LegalBelowTop, e

\* Merging keeps a range in order if the item does not begin before it.
LEMMA MergedRange ==
    ASSUME ListOK, NEW type, NEW r \in RangesOf(type), NEW i \in OfType(type),
           r.start <= metrics[i].addr, FitsIn(RangeOf(i), r)
    PROVE  /\ Merge(r, RangeOf(i)) \in RangesOf(type)
           /\ Merge(r, RangeOf(i)).start = r.start
           /\ ToSet(Merge(r, RangeOf(i)).members) = ToSet(r.members) \cup {i}
<1> DEFINE item == RangeOf(i)
           u == Merge(r, item)
           e == Greatest(r.end, item.end)
<1>1. /\ item.start = metrics[i].addr
      /\ item.end = SaturatingAdd(metrics[i].addr, Count(i))
      /\ item.members = <<i>>
      /\ item \in RangesOf(type)
    BY SingleRange
<1>2. /\ r \in [type : {type}, start : 0 .. U16Max, end : 0 .. U16Max, members : Seq(OfType(type))]
      /\ \A j \in ToSet(r.members) : /\ r.start <= metrics[j].addr
                                     /\ SaturatingAdd(metrics[j].addr, Count(j)) <= r.end
      /\ \E j \in OfType(type) : r.start = metrics[j].addr
      /\ Roomy => /\ r.end - r.start <= MaxRegistersPerRead
                  /\ r.start < r.end \/ r.start = U16Max
      /\ item.end \in 0 .. U16Max
    BY <1>1 DEF RangesOf, LegalBelowTop
<1>3. /\ e \in 0 .. U16Max /\ r.end <= e /\ item.end <= e
      /\ e = r.end \/ e = item.end
    BY <1>2, BatchAssumption DEF Greatest
<1>4. SaturatingSub(item.end, r.start) <= MaxRegistersPerRead
    BY DEF FitsIn
<1>5. Roomy => /\ e - r.start <= MaxRegistersPerRead
               /\ r.start < e \/ r.start = U16Max
    BY <1>2, <1>3, <1>4, BatchAssumption DEF SaturatingSub, Greatest
<1>6. /\ r.members \o <<i>> \in Seq(OfType(type))
      /\ ToSet(r.members \o <<i>>) = ToSet(r.members) \cup {i}
    <2>1. r.members \in Seq(OfType(type)) /\ <<i>> \in Seq(OfType(type)) /\ ToSet(<<i>>) = {i}
        BY <1>2 DEF ToSet
    <2>2. ToSet(r.members \o <<i>>) = ToSet(r.members) \cup ToSet(<<i>>)
        <3>1. \A one \in Seq(OfType(type)) : ToSet(r.members \o one) = ToSet(r.members) \cup ToSet(one)
            BY <2>1, SetOfConcat
        <3>2. QED BY <2>1, <3>1, Zenon
    <2>3. r.members \o <<i>> \in Seq(OfType(type))
        BY <2>1, ConcatProperties
    <2>4. QED BY <2>1, <2>2, <2>3
<1>7. u = [type |-> type, start |-> r.start, end |-> e, members |-> r.members \o <<i>>]
    <2>1. r = [type |-> type, start |-> r.start, end |-> r.end, members |-> r.members]
        BY <1>2
    <2> HIDE DEF item
    <2>2. u = [r EXCEPT !.end = e, !.members = r.members \o <<i>>]
        BY <1>1 DEF Merge
    <2> HIDE DEF u, e
    <2>3. QED BY <1>2, <2>2
<1>8. ASSUME NEW j \in ToSet(r.members) \cup {i}
      PROVE  /\ r.start <= metrics[j].addr
             /\ SaturatingAdd(metrics[j].addr, Count(j)) <= e
    <2>1. CASE j = i
        BY <1>1, <1>3, <2>1
    <2>2. CASE j \in ToSet(r.members)
        <3>1. j \in OfType(type)
            BY <1>2, <2>2, ElementOfSeq DEF ToSet
        <3>2. metrics[j].addr \in Nat /\ Count(j) \in Nat
            BY <3>1, OfTypeFacts, MetricFacts
        <3>3. SaturatingAdd(metrics[j].addr, Count(j)) \in Nat
            BY <3>2, BatchAssumption DEF SaturatingAdd, Least
        <3>4. SaturatingAdd(metrics[j].addr, Count(j)) <= r.end
            BY <1>2, <2>2
        <3> HIDE DEF e
        <3>5. QED BY <1>2, <1>3, <2>2, <3>3, <3>4
    <2>3. QED BY <2>1, <2>2
<1> HIDE DEF e, u, item
<1>9. /\ u.start = r.start
      /\ ToSet(u.members) = ToSet(r.members) \cup {i}
      /\ u.end = e /\ u.members \in Seq(OfType(type))
    BY <1>6, <1>7
<1>10. u \in [type : {type}, start : 0 .. U16Max, end : 0 .. U16Max, members : Seq(OfType(type))]
    BY <1>2, <1>3, <1>6, <1>7
<1>11. u \in RangesOf(type)
    BY <1>2, <1>5, <1>8, <1>9, <1>10 DEF RangesOf, LegalBelowTop
<1>12. QED BY <1>9, <1>11 DEF u, item
\* One metric more: where it goes there is room for it, and nothing is left out.
LEMMA ExtendFacts ==
    ASSUME ListOK, NEW type, NEW t \in Seq(RangesOf(type)), NEW i \in OfType(type),
           \A j \in DOMAIN t : t[j].start <= metrics[i].addr
    PROVE  LET u == Extend(t, RangeOf(i))
           IN  /\ u \in Seq(RangesOf(type))
               /\ \A j \in DOMAIN u : u[j].start <= metrics[i].addr
               /\ \E j \in DOMAIN u : i \in ToSet(u[j].members)
               /\ \A j \in DOMAIN t : \E k \in DOMAIN u :
                     ToSet(t[j].members) \subseteq ToSet(u[k].members)
<1> DEFINE item == RangeOf(i)
           u == Extend(t, item)
<1>1. /\ item \in RangesOf(type)
      /\ item.start = metrics[i].addr /\ metrics[i].addr \in Nat
      /\ ToSet(item.members) = {i}
    BY SingleRange, OfTypeFacts DEF ToSet
<1>2. /\ Len(t) \in Nat /\ DOMAIN t = 1 .. Len(t)
      /\ \A j \in 1 .. Len(t) : t[j] \in RangesOf(type)
    BY LenProperties, ElementOfSeq
<1>3. CASE t # <<>> /\ FitsIn(item, Last(t))
    <2> DEFINE n == Len(t)
               merged == Merge(t[n], item)
    <2>1. n \in 1 .. Len(t) /\ Last(t) = t[n] /\ n \in Nat
        BY <1>2, <1>3, EmptySeq DEF Last
    <2>2. /\ merged \in RangesOf(type)
          /\ merged.start = t[n].start
          /\ ToSet(merged.members) = ToSet(t[n].members) \cup {i}
        BY <1>2, <1>3, <2>1, MergedRange
    <2>3. u = Front(t) \o <<merged>>
        BY <1>3, <2>1 DEF Extend
    <2> HIDE DEF merged
    <2>4. /\ u \in Seq(RangesOf(type))
          /\ Len(u) = n
          /\ u[n] = merged
          /\ \A j \in 1 .. n - 1 : u[j] = t[j]
        <3>1. /\ Front(t) \in Seq(RangesOf(type))
              /\ Len(Front(t)) = n - 1
              /\ \A j \in 1 .. n - 1 : Front(t)[j] = t[j]
            BY <1>2, <2>1 DEF Front
        <3>2. QED BY <2>2, <2>3, <3>1
    <2> HIDE DEF u
    <2>5. DOMAIN u = 1 .. n
        BY <2>4
    <2>6. \A j \in 1 .. n : u[j].start <= metrics[i].addr
        BY <1>2, <2>1, <2>2, <2>4
    <2>7. i \in ToSet(u[n].members)
        BY <2>2, <2>4
    <2>8. \A j \in 1 .. n : ToSet(t[j].members) \subseteq ToSet(u[j].members)
        <3> SUFFICES ASSUME NEW j \in 1 .. n
                     PROVE  ToSet(t[j].members) \subseteq ToSet(u[j].members)
            OBVIOUS
        <3>1. CASE j = n
            BY <2>2, <2>4, <3>1
        <3>2. CASE j # n
            <4>1. j \in 1 .. n - 1
                <5> HIDE DEF n
                <5>1. QED BY <2>1, <3>2
            <4>2. QED BY <2>4, <4>1
        <3>3. QED BY <3>1, <3>2
    <2>9. QED BY <1>2, <2>1, <2>4, <2>5, <2>6, <2>7, <2>8 DEF u, item
<1>4. CASE ~(t # <<>> /\ FitsIn(item, Last(t)))
    <2>1. u = Append(t, item)
        BY <1>4 DEF Extend
    <2> HIDE DEF u, item
    <2>2. /\ u \in Seq(RangesOf(type))
          /\ DOMAIN u = 1 .. Len(t) + 1
          /\ u[Len(t) + 1] = item
          /\ \A j \in 1 .. Len(t) : u[j] = t[j]
        BY <1>1, <1>2, <2>1, AppendProperties
    <2>3. \A j \in 1 .. Len(t) + 1 : u[j].start <= metrics[i].addr
        BY <1>1, <1>2, <2>2
    <2>4. Len(t) + 1 \in DOMAIN u /\ i \in ToSet(u[Len(t) + 1].members)
        BY <1>1, <1>2, <2>2
    <2>5. \A j \in DOMAIN t : j \in DOMAIN u /\ u[j] = t[j]
        BY <1>2, <2>2
    <2>6. QED BY <2>2, <2>3, <2>4, <2>5 DEF u, item
<1>5. QED BY <1>3, <1>4

\* The members of all entries of a queue.
MembersOf(t) == UNION {ToSet(t[k].members) : k \in DOMAIN t}

\* No member is in a queue twice, and no entry is without one.
Apart(t) ==
    \A k \in DOMAIN t :
        /\ t[k].members # <<>> /\ Distinct(t[k].members)
        /\ \A j \in DOMAIN t : j # k => ToSet(t[j].members) \cap ToSet(t[k].members) = {}

\* One element more, that was not there.
LEMMA DistinctAppend ==
    ASSUME NEW S, NEW s \in Seq(S), NEW x \in S, Distinct(s), x \notin ToSet(s)
    PROVE  Distinct(Append(s, x))
<1>1. /\ Len(s) \in Nat /\ DOMAIN s = 1 .. Len(s)
      /\ DOMAIN Append(s, x) = 1 .. Len(s) + 1
      /\ Append(s, x)[Len(s) + 1] = x
      /\ \A k \in 1 .. Len(s) : Append(s, x)[k] = s[k]
    BY LenProperties, AppendProperties
<1> DEFINE u == Append(s, x)
<1> HIDE DEF u
<1>2. \A k \in 1 .. Len(s) : u[k] = s[k] /\ s[k] # x
    BY <1>1 DEF ToSet, u
<1>3. \A j, k \in 1 .. Len(s) : s[j] = s[k] => j = k
    BY <1>1 DEF Distinct
<1>4. ASSUME NEW j \in 1 .. Len(s) + 1, NEW k \in 1 .. Len(s) + 1, u[j] = u[k]
      PROVE  j = k
    <2>1. j \in 1 .. Len(s) \/ j = Len(s) + 1
        BY <1>1
    <2>2. k \in 1 .. Len(s) \/ k = Len(s) + 1
        BY <1>1
    <2>3. u[Len(s) + 1] = x
        BY <1>1 DEF u
    <2>4. QED BY <1>2, <1>3, <1>4, <2>1, <2>2, <2>3
<1>5. QED BY <1>1, <1>4 DEF Distinct, u

\* Merging or adding a new metric keeps the ranges apart.
LEMMA ExtendApart ==
    ASSUME ListOK, NEW type, NEW t \in Seq(RangesOf(type)), NEW i \in OfType(type),
           Apart(t), i \notin MembersOf(t)
    PROVE  LET u == Extend(t, RangeOf(i))
           IN  Apart(u) /\ MembersOf(u) \subseteq MembersOf(t) \cup {i}
<1> DEFINE item == RangeOf(i)
           u == Extend(t, item)
<1>1. item.members = <<i>> /\ ToSet(<<i>>) = {i} /\ Distinct(<<i>>) /\ <<i>> # <<>>
    BY SingleRange DEF ToSet, Distinct
<1>2. /\ Len(t) \in Nat /\ DOMAIN t = 1 .. Len(t)
      /\ \A j \in 1 .. Len(t) : t[j] \in RangesOf(type)
    BY LenProperties, ElementOfSeq
<1>3. \A j \in DOMAIN t : i \notin ToSet(t[j].members)
    BY DEF MembersOf
<1>4. CASE t # <<>> /\ FitsIn(item, Last(t))
    <2> DEFINE n == Len(t)
               merged == Merge(t[n], item)
    <2>1. n \in 1 .. Len(t) /\ Last(t) = t[n] /\ n \in Nat
        BY <1>2, <1>4, EmptySeq DEF Last
    <2>2. merged.members = t[n].members \o <<i>> /\ t[n].members \in Seq(OfType(type))
        BY <1>1, <1>2, <2>1 DEF Merge, RangesOf
    <2>3. t[n].members \o <<i>> = Append(t[n].members, i)
        BY <2>2, AppendIsConcat
    <2>4. ToSet(merged.members) = ToSet(t[n].members) \cup {i}
        <3>1. <<i>> \in Seq(OfType(type))
            OBVIOUS
        <3>2. \A one \in Seq(OfType(type)) : ToSet(t[n].members \o one) = ToSet(t[n].members) \cup ToSet(one)
            BY <2>2, SetOfConcat
        <3>3. ToSet(t[n].members \o <<i>>) = ToSet(t[n].members) \cup ToSet(<<i>>)
            BY <3>1, <3>2, Zenon
        <3>4. QED BY <1>1, <2>2, <3>3
    <2>5. Distinct(merged.members)
        BY <1>2, <1>3, <2>1, <2>2, <2>3, DistinctAppend DEF Apart
    <2>6. merged.members # <<>>
        BY <1>1, <2>4, EmptySeq DEF ToSet
    <2>7. u = Front(t) \o <<merged>>
        BY <1>4, <2>1 DEF Extend
    <2> HIDE DEF merged
    <2>8. /\ DOMAIN u = 1 .. n
          /\ u[n] = merged
          /\ \A j \in 1 .. n - 1 : u[j] = t[j]
        <3>1. /\ Front(t) \in Seq(RangesOf(type))
              /\ Len(Front(t)) = n - 1
              /\ \A j \in 1 .. n - 1 : Front(t)[j] = t[j]
            BY <1>2, <2>1 DEF Front
        <3>2. QED BY <2>7, <2>1, <3>1
    <2> HIDE DEF u
    <2>9. \A j \in 1 .. n : j \in 1 .. n - 1 \/ j = n
        BY <2>1
    <2> HIDE DEF n
    <2>10. \A j, k \in 1 .. n : j # k => ToSet(t[j].members) \cap ToSet(t[k].members) = {}
        BY <1>2 DEF Apart, n
    <2>11. Apart(u)
        <3> SUFFICES ASSUME NEW k \in 1 .. n
                     PROVE  /\ u[k].members # <<>> /\ Distinct(u[k].members)
                            /\ \A j \in 1 .. n : j # k => ToSet(u[j].members) \cap ToSet(u[k].members) = {}
            BY <2>8 DEF Apart
        <3>1. u[k].members # <<>> /\ Distinct(u[k].members)
            <4>1. n = Len(t)
                BY DEF n
            <4>2. QED BY <1>2, <2>5, <2>6, <2>8, <2>9, <4>1 DEF Apart
        <3>2. \A j \in 1 .. n : i \notin ToSet(t[j].members)
            BY <1>2, <1>3 DEF n
        <3>3. ASSUME NEW j \in 1 .. n, j # k PROVE ToSet(u[j].members) \cap ToSet(u[k].members) = {}
            <4>1. ToSet(t[j].members) \cap ToSet(t[k].members) = {}
                BY <2>10, <3>3
            <4>2. CASE j = n
                BY <2>4, <2>8, <2>9, <3>2, <3>3, <4>1, <4>2
            <4>3. CASE k = n
                BY <2>4, <2>8, <2>9, <3>2, <3>3, <4>1, <4>3
            <4>4. CASE j # n /\ k # n
                BY <2>8, <2>9, <4>1, <4>4
            <4>5. QED BY <4>2, <4>3, <4>4
        <3>4. QED BY <3>1, <3>3
    <2>12. MembersOf(u) \subseteq MembersOf(t) \cup {i}
        <3>1. \A j \in 1 .. n : ToSet(u[j].members) \subseteq ToSet(t[j].members) \cup {i}
            BY <2>4, <2>8, <2>9
        <3>2. DOMAIN t = 1 .. n /\ DOMAIN u = 1 .. n
            BY <1>2, <2>8 DEF n
        <3>3. QED BY <3>1, <3>2 DEF MembersOf
    <2>13. QED BY <2>11, <2>12 DEF u, item
<1>5. CASE ~(t # <<>> /\ FitsIn(item, Last(t)))
    <2>1. u = Append(t, item)
        BY <1>5 DEF Extend
    <2>2. item \in RangesOf(type)
        BY SingleRange
    <2> HIDE DEF u, item
    <2>3. /\ DOMAIN u = 1 .. Len(t) + 1
          /\ u[Len(t) + 1] = item
          /\ \A j \in 1 .. Len(t) : u[j] = t[j]
        BY <1>2, <2>1, <2>2, AppendProperties
    <2>4. \A j \in 1 .. Len(t) + 1 : j \in 1 .. Len(t) \/ j = Len(t) + 1
        BY <1>2
    <2>5. \A j, k \in 1 .. Len(t) : j # k => ToSet(t[j].members) \cap ToSet(t[k].members) = {}
        BY <1>2 DEF Apart
    <2>6. \A j \in 1 .. Len(t) : i \notin ToSet(t[j].members) /\ t[j].members # <<>> /\ Distinct(t[j].members)
        BY <1>2, <1>3 DEF Apart
    <2>7. Apart(u)
        <3> SUFFICES ASSUME NEW k \in 1 .. Len(t) + 1
                     PROVE  /\ u[k].members # <<>> /\ Distinct(u[k].members)
                            /\ \A j \in 1 .. Len(t) + 1 :
                                  j # k => ToSet(u[j].members) \cap ToSet(u[k].members) = {}
            BY <2>3 DEF Apart
        <3>1. u[k].members # <<>> /\ Distinct(u[k].members)
            BY <1>1, <2>3, <2>4, <2>6
        <3>2. ASSUME NEW j \in 1 .. Len(t) + 1, j # k PROVE ToSet(u[j].members) \cap ToSet(u[k].members) = {}
            <4>1. CASE j = Len(t) + 1
                BY <1>1, <2>3, <2>4, <2>6, <3>2, <4>1
            <4>2. CASE k = Len(t) + 1
                BY <1>1, <2>3, <2>4, <2>6, <3>2, <4>2
            <4>3. CASE j \in 1 .. Len(t) /\ k \in 1 .. Len(t)
                BY <2>3, <2>5, <3>2, <4>3
            <4>4. QED BY <2>4, <4>1, <4>2, <4>3
        <3>3. QED BY <3>1, <3>2
    <2>8. MembersOf(u) \subseteq MembersOf(t) \cup {i}
        <3>1. ToSet(u[Len(t) + 1].members) = {i}
            BY <1>1, <2>3
        <3>2. \A j \in 1 .. Len(t) : ToSet(u[j].members) \subseteq MembersOf(t)
            BY <1>2, <2>3 DEF MembersOf
        <3>3. \A j \in 1 .. Len(t) + 1 : ToSet(u[j].members) \subseteq MembersOf(t) \cup {i}
            BY <2>4, <3>1, <3>2
        <3>4. QED BY <2>3, <3>3 DEF MembersOf
    <2>9. QED BY <2>7, <2>8 DEF u, item
<1>6. QED BY <1>4, <1>5
\* Every metric of the type is in one range, once, and every range is in order.
LEMMA CoalescedFacts ==
    ASSUME ListOK, NEW type
    PROVE  LET t == Coalesced(type)
           IN  /\ t \in Seq(RangesOf(type))
               /\ \A i \in OfType(type) : \E j \in DOMAIN t : i \in ToSet(t[j].members)
               /\ Apart(t) /\ MembersOf(t) \subseteq OfType(type)
<1> DEFINE s == SortedByAddr(type)
           N == Len(s)
           Solves(f, n) == f = [k \in 0 .. n |->
                                  IF k = 0 THEN <<>> ELSE Extend(f[k - 1], RangeOf(s[k]))]
<1>1. /\ N \in Nat /\ DOMAIN s = 1 .. N
      /\ \A k \in 1 .. N : s[k] \in OfType(type)
      /\ \A j, k \in 1 .. N : j < k => metrics[s[j]].addr <= metrics[s[k]].addr
      /\ \A i \in OfType(type) : \E k \in 1 .. N : s[k] = i
      /\ \A j, k \in 1 .. N : s[j] = s[k] => j = k
    BY SortedFacts DEF Distinct
<1> HIDE DEF s, N
<1>2. \E f : Solves(f, N)
    <2> DEFINE Solvable == {n \in Nat : \E f : Solves(f, n)}
    <2>1. 0 \in Solvable
        <3> DEFINE f == [k \in 0 .. 0 |-> <<>>]
        <3>1. Solves(f, 0)
            OBVIOUS
        <3> HIDE DEF f
        <3>2. QED BY <3>1
    <2>2. ASSUME NEW n \in Solvable PROVE n + 1 \in Solvable
        <3>1. PICK f : Solves(f, n)
            OBVIOUS
        <3> DEFINE g == [k \in 0 .. n + 1 |-> IF k <= n THEN f[k] ELSE Extend(f[n], RangeOf(s[n + 1]))]
        <3>2. ASSUME NEW k \in 0 .. n + 1
              PROVE  g[k] = IF k = 0 THEN <<>> ELSE Extend(g[k - 1], RangeOf(s[k]))
            <4>1. CASE k = 0
                BY <3>1, <4>1
            <4>2. CASE k \in 1 .. n
                <5>1. k \in 0 .. n /\ k # 0 /\ k - 1 \in 0 .. n + 1 /\ k - 1 <= n /\ k <= n
                    BY <4>2
                <5>2. f[k] = Extend(f[k - 1], RangeOf(s[k]))
                    BY <3>1, <5>1, Zenon
                <5>3. QED BY <5>1, <5>2
            <4>3. CASE k = n + 1
                BY <4>3
            <4>4. QED BY <4>1, <4>2, <4>3
        <3>3. g = [k \in 0 .. n + 1 |-> g[k]]
            OBVIOUS
        <3> HIDE DEF g
        <3>4. Solves(g, n + 1)
            BY <3>2, <3>3, Zenon
        <3> HIDE DEF Solves
        <3>5. QED BY <3>4
    <2> HIDE DEF Solvable, Solves
    <2>3. N \in Solvable
        BY <1>1, <2>1, <2>2, Induction
    <2>4. QED BY <2>3 DEF Solvable
<1> DEFINE f == CHOOSE f : Solves(f, N)
<1>3. Solves(f, N) /\ Coalesced(type) = f[N]
    BY <1>2 DEF Coalesced, s, N
<1> HIDE DEF f
<1>4. f[0] = <<>> /\ \A k \in 1 .. N : f[k] = Extend(f[k - 1], RangeOf(s[k]))
    <2>1. 0 \in 0 .. N /\ \A k \in 1 .. N : k \in 0 .. N /\ k # 0
        BY <1>1
    <2>2. QED BY <1>3, <2>1, Zenon
<1> DEFINE Good(n) == /\ f[n] \in Seq(RangesOf(type))
                      /\ \A j \in DOMAIN f[n] : \A k \in n + 1 .. N : f[n][j].start <= metrics[s[k]].addr
                      /\ \A k \in 1 .. n : \E j \in DOMAIN f[n] : s[k] \in ToSet(f[n][j].members)
                      /\ Apart(f[n]) /\ MembersOf(f[n]) \subseteq {s[k] : k \in 1 .. n}
           AllGood == {n \in Nat : n <= N => Good(n)}
<1>5. Good(0)
    BY <1>4 DEF Apart, MembersOf
<1>6. ASSUME NEW n \in Nat, n + 1 <= N, Good(n) PROVE Good(n + 1)
    <2> DEFINE t == f[n]
               i == s[n + 1]
    <2>1. n + 1 \in 1 .. N /\ i \in OfType(type) /\ f[n + 1] = Extend(t, RangeOf(i))
        BY <1>1, <1>4, <1>6
    <2>2. /\ t \in Seq(RangesOf(type))
          /\ \A j \in DOMAIN t : t[j].start <= metrics[i].addr
        BY <1>6, <2>1
    <2> DEFINE u == f[n + 1]
    <2> HIDE DEF t, i
    <2>3. /\ u \in Seq(RangesOf(type))
          /\ \A j \in DOMAIN u : u[j].start <= metrics[i].addr
          /\ \E j \in DOMAIN u : i \in ToSet(u[j].members)
          /\ \A j \in DOMAIN t : \E k \in DOMAIN u :
                ToSet(t[j].members) \subseteq ToSet(u[k].members)
        BY <2>1, <2>2, ExtendFacts
    <2> USE DEF t, i
    <2>4. ASSUME NEW j \in DOMAIN u, NEW k \in n + 2 .. N
          PROVE  u[j].start <= metrics[s[k]].addr
        <3>1. /\ metrics[i].addr <= metrics[s[k]].addr
              /\ metrics[i].addr \in Nat /\ metrics[s[k]].addr \in Nat
            BY <1>1, <2>1, OfTypeFacts
        <3>2. u[j].start \in Nat
            BY <2>3, LenProperties, ElementOfSeq DEF RangesOf
        <3>3. QED BY <2>3, <3>1, <3>2
    <2>5. ASSUME NEW k \in 1 .. n + 1
          PROVE  \E j \in DOMAIN u : s[k] \in ToSet(u[j].members)
        <3>1. CASE k = n + 1
            BY <2>3, <3>1
        <3>2. CASE k \in 1 .. n
            BY <1>6, <2>3, <3>2
        <3>3. QED BY <3>1, <3>2
    <2>6. Apart(u) /\ MembersOf(u) \subseteq {s[k] : k \in 1 .. n + 1}
        <3>1. Apart(t) /\ MembersOf(t) \subseteq {s[k] : k \in 1 .. n}
            BY <1>6
        <3>2. \A k \in 1 .. n : k \in 1 .. N /\ k # n + 1
            BY <1>1, <1>6
        <3>3. i \notin MembersOf(t)
            BY <1>1, <2>1, <3>1, <3>2
        <3> HIDE DEF t, i
        <3>4. Apart(u) /\ MembersOf(u) \subseteq MembersOf(t) \cup {i}
            BY <2>1, <2>2, <3>1, <3>3, ExtendApart
        <3>5. QED BY <3>1, <3>4 DEF i
    <2>7. QED BY <2>3, <2>4, <2>5, <2>6
<1> HIDE DEF Good
<1>7. 0 \in AllGood /\ \A n \in Nat : n \in AllGood => n + 1 \in AllGood
    BY <1>1, <1>5, <1>6
<1> HIDE DEF AllGood
<1>8. Nat \subseteq AllGood
    BY <1>7, Induction
<1>9. Good(N)
    BY <1>1, <1>8 DEF AllGood
<1>10. {s[k] : k \in 1 .. N} \subseteq OfType(type)
    BY <1>1
<1>11. QED BY <1>1, <1>3, <1>9, <1>10 DEF Good

-----------------------------------------------------------------------------
(* Decoding *)

\* A function on 1 .. 4 is a tuple.
LEMMA TupleOf4 ==
    ASSUME NEW f, f = [k \in 1 .. 4 |-> f[k]]
    PROVE  f = <<f[1], f[2], f[3], f[4]>>
OBVIOUS

\* A function on 1 .. 8 is a tuple.
LEMMA TupleOf8 ==
    ASSUME NEW f, f = [k \in 1 .. 8 |-> f[k]]
    PROVE  f = <<f[1], f[2], f[3], f[4], f[5], f[6], f[7], f[8]>>
OBVIOUS

\* Two pairs in a row.
LEMMA TwoPairs ==
    ASSUME NEW a, NEW b, NEW c, NEW d
    PROVE  <<a, b>> \o <<c, d>> = <<a, b, c, d>>
<1> DEFINE S == {a, b, c, d}
           p == <<a, b>>
           q == <<c, d>>
           s == p \o q
<1>1. /\ p \in Seq(S) /\ Len(p) = 2 /\ p[1] = a /\ p[2] = b
      /\ q \in Seq(S) /\ Len(q) = 2 /\ q[1] = c /\ q[2] = d
    OBVIOUS
<1> HIDE DEF p, q, S
<1>2. /\ s \in Seq(S) /\ Len(s) = 4
      /\ s[1] = a /\ s[2] = b /\ s[3] = c /\ s[4] = d
    <2>1. /\ s \in Seq(S) /\ Len(s) = Len(p) + Len(q)
          /\ \A k \in 1 .. Len(p) + Len(q) : s[k] = IF k <= Len(p) THEN p[k] ELSE q[k - Len(p)]
        BY <1>1, ConcatProperties, Zenon
    <2> HIDE DEF s
    <2>2. QED BY <1>1, <2>1
<1>3. s = [k \in 1 .. 4 |-> s[k]]
    <2> HIDE DEF s
    <2>1. s \in [1 .. 4 -> S]
        BY <1>2, LenProperties
    <2>2. QED BY <2>1
<1>4. s = <<a, b, c, d>>
    <2> HIDE DEF s
    <2>1. QED BY <1>2, <1>3, TupleOf4
<1>5. QED BY <1>4 DEF p, q

\* Four pairs in a row.
LEMMA FourPairs ==
    ASSUME NEW a, NEW b, NEW c, NEW d, NEW e, NEW f, NEW g, NEW h
    PROVE  <<a, b>> \o <<c, d>> \o <<e, f>> \o <<g, h>> = <<a, b, c, d, e, f, g, h>>
<1> DEFINE S == {a, b, c, d, e, f, g, h}
           p == <<a, b, c, d>>
           q == <<e, f>>
           r == <<g, h>>
           <1>1. /\ p \in Seq(S) /\ Len(p) = 4 /\ p[1] = a /\ p[2] = b /\ p[3] = c /\ p[4] = d
      /\ q \in Seq(S) /\ Len(q) = 2 /\ q[1] = e /\ q[2] = f
      /\ r \in Seq(S) /\ Len(r) = 2 /\ r[1] = g /\ r[2] = h
    OBVIOUS
<1> HIDE DEF p, q, r, S
<1> DEFINE o == p \o q
<1>2. /\ o \in Seq(S) /\ Len(o) = 6
      /\ o[1] = a /\ o[2] = b /\ o[3] = c /\ o[4] = d /\ o[5] = e /\ o[6] = f
    <2>1. /\ o \in Seq(S) /\ Len(o) = Len(p) + Len(q)
          /\ \A k \in 1 .. Len(p) + Len(q) : o[k] = IF k <= Len(p) THEN p[k] ELSE q[k - Len(p)]
        BY <1>1, ConcatProperties, Zenon
    <2> HIDE DEF o
    <2>2. QED BY <1>1, <2>1
<1> HIDE DEF o
<1> DEFINE s == o \o r
<1>3. /\ s \in Seq(S) /\ Len(s) = 8
      /\ s[1] = a /\ s[2] = b /\ s[3] = c /\ s[4] = d
      /\ s[5] = e /\ s[6] = f /\ s[7] = g /\ s[8] = h
    <2>1. /\ s \in Seq(S) /\ Len(s) = Len(o) + Len(r)
          /\ \A k \in 1 .. Len(o) + Len(r) : s[k] = IF k <= Len(o) THEN o[k] ELSE r[k - Len(o)]
        BY <1>1, <1>2, ConcatProperties, Zenon
    <2> HIDE DEF s
    <2>2. QED BY <1>1, <1>2, <2>1
<1>4. s = [k \in 1 .. 8 |-> s[k]]
    <2> HIDE DEF s
    <2>1. s \in [1 .. 8 -> S]
        BY <1>3, LenProperties
    <2>2. QED BY <2>1
<1>5. s = <<a, b, c, d, e, f, g, h>>
    <2> HIDE DEF s
    <2>1. QED BY <1>3, <1>4, TupleOf8
<1>6. <<a, b>> \o <<c, d>> = p
    BY TwoPairs DEF p
<1>7. QED BY <1>5, <1>6 DEF o, q, r

\* The bytes of four registers.
LEMMA FourRegisters ==
    ASSUME NEW a, NEW b, NEW c, NEW d
    PROVE  /\ Be(a) \o Be(b) \o Be(c) \o Be(d)
                = <<Hi(a), Lo(a), Hi(b), Lo(b), Hi(c), Lo(c), Hi(d), Lo(d)>>
           /\ Le(a) \o Le(b) \o Le(c) \o Le(d)
                = <<Lo(a), Hi(a), Lo(b), Hi(b), Lo(c), Hi(c), Lo(d), Hi(d)>>
<1>1. \A w, x, y, z : Be(w) \o Be(x) \o Be(y) \o Be(z)
                         = <<Hi(w), Lo(w), Hi(x), Lo(x), Hi(y), Lo(y), Hi(z), Lo(z)>>
    BY FourPairs DEF Be
<1>2. Le(a) \o Le(b) \o Le(c) \o Le(d)
        = <<Lo(a), Hi(a), Lo(b), Hi(b), Lo(c), Hi(c), Lo(d), Hi(d)>>
    BY FourPairs DEF Le
<1>3. QED BY <1>1, <1>2, Zenon

\* What a metric is decoded from when all its registers are there.
LEMMA DecodedOwn ==
    ASSUME ListOK, NEW i \in Indices
    PROVE  Value(i, Own(i)) = Decoded(ExpectedBytes(i))
<1> DEFINE m == metrics[i]
           regs == Own(i)
           n == Count(i)
           bytes == OwnBytes(i)
<1>1. /\ m.type \in RegisterTypes \cup BitTypes
      /\ m.data_type \in DataTypes /\ m.byte_order \in ByteOrders
      /\ n \in {1, 2, 4}
    BY MetricFacts
<1>2. CASE m.type \in BitTypes
    <2>1. Value(i, regs) = Decoded(regs)
        BY <1>2 DEF Value
    <2>2. ExpectedBytes(i) = regs
        <3> HIDE DEF n, bytes, regs
        <3>1. QED BY <1>2 DEF ExpectedBytes, regs
    <2>3. QED BY <2>1, <2>2
<1>3. CASE m.type \notin BitTypes
    <2>1. Value(i, regs) = Decode(regs, m.data_type, m.byte_order)
        BY <1>3 DEF Value
    <2>2. /\ regs = [k \in 1 .. n |-> regs[k]]
          /\ Len(regs) = n
        BY <1>1, <1>3 DEF Own, Registers
    <2>3. bytes = [k \in 1 .. 2 * n |-> <<regs[(k + 1) \div 2], IF k % 2 = 1 THEN "hi" ELSE "lo">>]
        BY DEF OwnBytes
    <2>4. n = RegistersNeeded(m.data_type)
        BY DEF Count
    <2> HIDE DEF regs, bytes, m, n
    <2>5. CASE n = 1
        <3>1. bytes[1] = Hi(regs[1]) /\ bytes[2] = Lo(regs[1])
            BY <2>3, <2>5 DEF Hi, Lo
        <3>2. bytes = <<bytes[1], bytes[2]>>
            BY <2>3, <2>5
        <3>3. bytes = Be(regs[1])
            BY <3>1, <3>2 DEF Be
        <3>4. m.data_type \in {"bool", "u8", "u16", "i16"}
            BY <1>1, <2>4, <2>5 DEF RegistersNeeded, DataTypes
        <3>5. Value(i, regs) = Decoded(IF m.data_type = "u8" THEN <<Lo(regs[1])>> ELSE Be(regs[1]))
            BY <2>1, <2>2, <2>4, <2>5, <3>4 DEF Decode
        <3>6. ExpectedBytes(i) = IF m.data_type = "u8" THEN <<bytes[2]>> ELSE bytes
            BY <1>3, <2>5 DEF ExpectedBytes, m, n, bytes
        <3>7. QED BY <3>1, <3>3, <3>5, <3>6 DEF regs
    <2>6. CASE n = 2
        <3>1. m.data_type \in {"u32", "i32", "f32"}
            BY <1>1, <2>4, <2>6 DEF RegistersNeeded, DataTypes
        <3>2. /\ bytes[1] = Hi(regs[1]) /\ bytes[2] = Lo(regs[1])
              /\ bytes[3] = Hi(regs[2]) /\ bytes[4] = Lo(regs[2])
            BY <2>3, <2>6 DEF Hi, Lo
        <3> DEFINE e == [k \in 1 .. 4 |-> bytes[WirePosition(m.byte_order, 4, k)]]
        <3>3. e = <<e[1], e[2], e[3], e[4]>>
            OBVIOUS
        <3>4. e = Reorder32(regs, m.byte_order)
            <4>1. CASE m.byte_order = "big_endian"
                BY <3>2, <3>3, <4>1, TwoPairs DEF Reorder32, Be, WirePosition
            <4>2. CASE m.byte_order = "little_endian"
                BY <3>2, <3>3, <4>2, TwoPairs DEF Reorder32, Le, WirePosition
            <4>3. CASE m.byte_order = "mid_big_endian"
                BY <3>2, <3>3, <4>3, TwoPairs DEF Reorder32, Be, WirePosition
            <4>4. CASE m.byte_order = "mid_little_endian"
                BY <3>2, <3>3, <4>4, TwoPairs DEF Reorder32, Le, WirePosition
            <4>5. QED BY <1>1, <4>1, <4>2, <4>3, <4>4 DEF ByteOrders
        <3> HIDE DEF e
        <3>5. Value(i, regs) = Decoded(e)
            BY <2>1, <2>2, <2>4, <2>6, <3>1, <3>4 DEF Decode
        <3>6. ExpectedBytes(i) = e
            BY <1>3, <2>6, <3>1 DEF ExpectedBytes, e, m, n, bytes
        <3>7. QED BY <3>5, <3>6 DEF regs
    <2>7. CASE n = 4
        <3>1. m.data_type \in {"u64", "i64", "f64"}
            BY <1>1, <2>4, <2>7 DEF RegistersNeeded, DataTypes
        <3>2. /\ bytes[1] = Hi(regs[1]) /\ bytes[2] = Lo(regs[1])
              /\ bytes[3] = Hi(regs[2]) /\ bytes[4] = Lo(regs[2])
              /\ bytes[5] = Hi(regs[3]) /\ bytes[6] = Lo(regs[3])
              /\ bytes[7] = Hi(regs[4]) /\ bytes[8] = Lo(regs[4])
            BY <2>3, <2>7 DEF Hi, Lo
        <3> DEFINE e == [k \in 1 .. 8 |-> bytes[WirePosition(m.byte_order, 8, k)]]
        <3>3. e = <<e[1], e[2], e[3], e[4], e[5], e[6], e[7], e[8]>>
            OBVIOUS
        <3>4. e = Reorder64(regs, m.byte_order)
            <4>1. CASE m.byte_order = "big_endian"
                BY <3>2, <3>3, <4>1, FourPairs DEF Reorder64, Be, WirePosition
            <4>2. CASE m.byte_order = "little_endian"
                <5>1. /\ e[1] = bytes[8] /\ e[2] = bytes[7] /\ e[3] = bytes[6] /\ e[4] = bytes[5]
                      /\ e[5] = bytes[4] /\ e[6] = bytes[3] /\ e[7] = bytes[2] /\ e[8] = bytes[1]
                    BY <4>2 DEF WirePosition
                <5> HIDE DEF e
                <5>2. QED BY <3>2, <3>3, <4>2, <5>1, FourPairs DEF Reorder64, Le
            <4>3. CASE m.byte_order = "mid_big_endian"
                <5>1. /\ e[1] = bytes[5] /\ e[2] = bytes[6] /\ e[3] = bytes[7] /\ e[4] = bytes[8]
                      /\ e[5] = bytes[1] /\ e[6] = bytes[2] /\ e[7] = bytes[3] /\ e[8] = bytes[4]
                    BY <4>3 DEF WirePosition
                <5> HIDE DEF e
                <5>2. Reorder64(regs, m.byte_order) = Be(regs[3]) \o Be(regs[4]) \o Be(regs[1]) \o Be(regs[2])
                    BY <4>3, SMTT(30) DEF Reorder64
                <5>3. Be(regs[3]) \o Be(regs[4]) \o Be(regs[1]) \o Be(regs[2])
                        = <<Hi(regs[3]), Lo(regs[3]), Hi(regs[4]), Lo(regs[4]),
                            Hi(regs[1]), Lo(regs[1]), Hi(regs[2]), Lo(regs[2])>>
                    BY FourRegisters, Zenon
                <5> HIDE DEF regs, bytes
                <5>4. e = <<Hi(regs[3]), Lo(regs[3]), Hi(regs[4]), Lo(regs[4]),
                            Hi(regs[1]), Lo(regs[1]), Hi(regs[2]), Lo(regs[2])>>
                    BY <3>2, <3>3, <5>1, Zenon
                <5>5. QED BY <5>2, <5>3, <5>4, Zenon
            <4>4. CASE m.byte_order = "mid_little_endian"
                <5>1. /\ e[1] = bytes[2] /\ e[2] = bytes[1] /\ e[3] = bytes[4] /\ e[4] = bytes[3]
                      /\ e[5] = bytes[6] /\ e[6] = bytes[5] /\ e[7] = bytes[8] /\ e[8] = bytes[7]
                    BY <4>4 DEF WirePosition
                <5> HIDE DEF e
                <5>2. Reorder64(regs, m.byte_order) = Le(regs[1]) \o Le(regs[2]) \o Le(regs[3]) \o Le(regs[4])
                    BY <4>4, SMTT(30) DEF Reorder64
                <5>3. Le(regs[1]) \o Le(regs[2]) \o Le(regs[3]) \o Le(regs[4])
                        = <<Lo(regs[1]), Hi(regs[1]), Lo(regs[2]), Hi(regs[2]),
                            Lo(regs[3]), Hi(regs[3]), Lo(regs[4]), Hi(regs[4])>>
                    BY FourRegisters, Zenon
                <5> HIDE DEF regs, bytes
                <5>4. e = <<Lo(regs[1]), Hi(regs[1]), Lo(regs[2]), Hi(regs[2]),
                            Lo(regs[3]), Hi(regs[3]), Lo(regs[4]), Hi(regs[4])>>
                    BY <3>2, <3>3, <5>1, Zenon
                <5>5. QED BY <5>2, <5>3, <5>4, Zenon
            <4>5. QED BY <1>1, <4>1, <4>2, <4>3, <4>4 DEF ByteOrders
        <3> HIDE DEF e
        <3>5. Value(i, regs) = Decoded(e)
            BY <2>1, <2>2, <2>4, <2>7, <3>1, <3>4 DEF Decode
        <3>6. ExpectedBytes(i) = e
            BY <1>3, <2>7, <3>1 DEF ExpectedBytes, e, m, n, bytes
        <3>7. QED BY <3>5, <3>6 DEF regs
    <2>8. QED BY <1>1, <2>5, <2>6, <2>7 DEF n
<1>4. QED BY <1>2, <1>3

-----------------------------------------------------------------------------
(* Bits *)

BitMetrics == OfType("coil") \cup OfType("discrete")

\* Every bit metric has an entry of its own.
LEMMA BitsFacts ==
    ASSUME ListOK
    PROVE  /\ Bits \in Seq({BitOf(i) : i \in BitMetrics})
           /\ \A i \in BitMetrics : \E r \in ToSet(Bits) : i \in ToSet(r.members)
           /\ Apart(Bits) /\ MembersOf(Bits) \subseteq BitMetrics
<1> DEFINE S == BitMetrics
           IsOrder(s) == s \in SetToSeqs(S) /\ \A j, k \in DOMAIN s : j < k => s[j] < s[k]
           R == {p \in S \X S : p[1] < p[2]}
<1>1. IsFiniteSet(S) /\ S \subseteq Nat
    BY OfTypeFacts, FS_Union DEF BitMetrics
<1>2. ASSUME NEW T \in SUBSET S, T # {} PROVE \E m \in T : \A x \in T \ {m} : <<m, x>> \in R
    <2>1. PICK m \in T : \A x \in T : m <= x
        BY <1>1, <1>2, LeastElement
    <2>2. \A x \in T \ {m} : m < x /\ m \in S /\ x \in S
        BY <1>1, <2>1
    <2>3. QED BY <2>2
<1>3. PICK t \in SetToSeqs(S) : \A j, k \in DOMAIN t : j < k => <<t[j], t[k]>> \in R
    <2> HIDE DEF R, S
    <2>1. QED BY <1>1, <1>2, OrderExists
<1>4. IsOrder(t)
    BY <1>3
<1> DEFINE bits == InOrder(S, <)
<1>5. bits = CHOOSE s : IsOrder(s)
    BY DEF InOrder
<1>6. bits \in SetToSeqs(S)
    BY <1>4, <1>5
<1>7. /\ bits \in Seq(S)
      /\ \A x \in S : \E k \in DOMAIN bits : bits[k] = x
      /\ Distinct(bits)
    <2> HIDE DEF S, bits
    <2>1. QED BY <1>1, <1>6, OrderIsComplete
<1>8. Bits = [k \in DOMAIN bits |-> BitOf(bits[k])]
    BY DEF Bits, BitMetrics
<1> HIDE DEF bits
<1> DEFINE E == {BitOf(i) : i \in S}
<1>9. /\ Len(bits) \in Nat /\ DOMAIN bits = 1 .. Len(bits)
      /\ \A k \in 1 .. Len(bits) : bits[k] \in S
    BY <1>7, LenProperties, ElementOfSeq
<1>10. \A k \in 1 .. Len(bits) : BitOf(bits[k]) \in E
    BY <1>9
<1>11. Bits \in Seq(E)
    BY <1>8, <1>9, <1>10
<1>12. ASSUME NEW i \in S PROVE \E r \in ToSet(Bits) : i \in ToSet(r.members)
    <2>1. PICK k \in DOMAIN bits : bits[k] = i
        BY <1>7
    <2>2. Bits[k] = BitOf(i) /\ k \in DOMAIN Bits
        BY <1>8, <2>1
    <2>3. i \in ToSet(BitOf(i).members)
        BY DEF BitOf, ToSet
    <2>4. QED BY <2>2, <2>3 DEF ToSet
<1>13. \A i : /\ BitOf(i).members = <<i>> /\ ToSet(<<i>>) = {i}
             /\ <<i>> # <<>> /\ Distinct(<<i>>)
    BY DEF BitOf, ToSet, Distinct
<1>14. /\ DOMAIN Bits = 1 .. Len(bits)
       /\ \A k \in 1 .. Len(bits) : /\ Bits[k].members = <<bits[k]>>
                                     /\ ToSet(Bits[k].members) = {bits[k]}
    <2>1. \A k \in 1 .. Len(bits) : Bits[k] = BitOf(bits[k])
        BY <1>8, <1>9
    <2>2. DOMAIN Bits = 1 .. Len(bits)
        BY <1>8, <1>9
    <2>3. QED BY <1>13, <2>1, <2>2
<1>15. Apart(Bits)
    <2>1. \A j, k \in 1 .. Len(bits) : bits[j] = bits[k] => j = k
        BY <1>7, <1>9 DEF Distinct
    <2>2. \A j, k \in 1 .. Len(bits) : j # k => {bits[j]} \cap {bits[k]} = {}
        BY <2>1
    <2>3. \A k \in 1 .. Len(bits) : Bits[k].members # <<>> /\ Distinct(Bits[k].members)
        BY <1>13, <1>14
    <2>4. \A j, k \in 1 .. Len(bits) :
             j # k => ToSet(Bits[j].members) \cap ToSet(Bits[k].members) = {}
        BY <1>14, <2>2
    <2>5. QED BY <1>14, <2>3, <2>4 DEF Apart
<1>16. MembersOf(Bits) \subseteq S
    <2>1. \A k \in DOMAIN Bits : ToSet(Bits[k].members) \subseteq S
        <3> HIDE DEF S
        <3>1. QED BY <1>9, <1>14
    <2> HIDE DEF S
    <2>2. QED BY <2>1 DEF MembersOf
<1>17. QED BY <1>11, <1>12, <1>15, <1>16

-----------------------------------------------------------------------------
(* The invariant *)

\* A metric ends below the top address.
BelowTop(i) == metrics[i].addr + Count(i) <= U16Max

Entries == RangesOf("holding") \cup RangesOf("input") \cup {BitOf(i) : i \in BitMetrics}

Addressed == {i \in Indices : metrics[i].addr # NoAddress}

Queued(i) == i \in ToSet(fallback) \/ \E r \in ToSet(ranges) : i \in ToSet(r.members)

Results ==
    \A i \in Indices :
        /\ results[i] \in {Pending, Failed, Decoded(ExpectedBytes(i))}
        /\ results[i] = Pending => Queued(i)
        /\ BelowTop(i) /\ results[i] = Failed => metrics[i].addr = NoAddress \/ i \in lost

BatchInv ==
    /\ ListOK
    /\ ranges \in Seq(Entries)
    /\ fallback \in Seq(Addressed)
    /\ DOMAIN results = Indices
    /\ Results

\* Cutting a metric out of its range gives what reading it alone gives, and it
\* is in there unless the end of the range was cut off at the top address.
LEMMA CutFromRange ==
    ASSUME ListOK, NEW type \in RegisterTypes, NEW r \in RangesOf(type), NEW i \in ToSet(r.members)
    PROVE  /\ i \in OfType(type)
           /\ DecodeMetric(i, r) \in {Failed, Value(i, Own(i))}
           /\ BelowTop(i) => DecodeMetric(i, r) = Value(i, Own(i))
<1>1. /\ r.type = type
      /\ r.start \in 0 .. U16Max /\ r.end \in 0 .. U16Max
      /\ r.members \in Seq(OfType(type))
      /\ r.start <= metrics[i].addr
      /\ SaturatingAdd(metrics[i].addr, Count(i)) <= r.end
    BY DEF RangesOf
<1>2. i \in OfType(type)
    BY <1>1, ElementOfSeq DEF ToSet
<1>3. /\ metrics[i].type = type /\ metrics[i].addr \in 0 .. U16Max
      /\ i \in Indices /\ Count(i) \in {1, 2, 4} /\ metrics[i] \in Listed
      /\ type \notin BitTypes
    BY <1>2, OfTypeFacts, MetricFacts DEF RegisterTypes, BitTypes, ListOK, Indices
<1>4. U16Max \in Nat
    BY BatchAssumption
<1> DEFINE a == metrics[i].addr
           c == Count(i)
           o == a - r.start
           len == r.end - r.start
           whole == Registers(type, r.start, len)
<1>5. CASE o + c > len
    <2>1. DecodeMetric(i, r) = Failed
        BY <1>5 DEF DecodeMetric
    <2>2. ~ BelowTop(i)
        <3>1. a + c > r.end
            BY <1>1, <1>3, <1>4, <1>5
        <3>2. a + c > U16Max
            BY <1>1, <1>3, <1>4, <3>1 DEF SaturatingAdd, Least
        <3>3. QED BY <1>3, <1>4, <3>2 DEF BelowTop
    <2>3. QED BY <1>2, <2>1, <2>2
<1>6. CASE ~ (o + c > len)
    <2>1. DecodeMetric(i, r) = Value(i, SubSeq(whole, o + 1, o + c))
        BY <1>1, <1>6 DEF DecodeMetric
    <2>2. o \in Nat /\ len \in Nat /\ o + c <= len /\ c \in Nat
        BY <1>1, <1>3, <1>4, <1>6
    <2>3. SubSeq(whole, o + 1, o + c) = Own(i)
        <3>1. SubSeq(whole, o + 1, o + c) = [k \in 1 .. c |-> whole[k + o]]
            <4> HIDE DEF o, c, whole
            <4>1. SubSeq(whole, o + 1, o + c) = [k \in 1 .. (1 + (o + c) - (o + 1)) |-> whole[k + (o + 1) - 1]]
                BY <2>2
            <4>2. 1 + (o + c) - (o + 1) = c /\ \A k \in 1 .. c : k + (o + 1) - 1 = k + o
                BY <2>2
            <4>3. QED BY <4>1, <4>2
        <3>2. \A k \in 1 .. c : whole[k + o] = <<type, a + k - 1>>
            <4>1. r.start \in Nat /\ a \in Nat /\ a = r.start + o
                BY <1>1, <1>3, <1>4
            <4> HIDE DEF a, c, o, len
            <4>2. \A k \in 1 .. c : k + o \in 1 .. len /\ r.start + (k + o) - 1 = a + k - 1
                BY <2>2, <4>1
            <4>3. QED BY <4>2 DEF Registers
        <3>3. Own(i) = [k \in 1 .. c |-> <<type, a + k - 1>>]
            BY <1>3 DEF Own, Registers
        <3>4. QED BY <3>1, <3>2, <3>3
    <2>4. QED BY <1>2, <2>1, <2>3
<1>7. QED BY <1>5, <1>6

-----------------------------------------------------------------------------
(* Init *)

\* Entries hold metrics with an address; one that is not of a bit is a range.
LEMMA EntryFacts ==
    ASSUME ListOK, NEW r \in Entries
    PROVE  /\ r.members \in Seq(Addressed)
           /\ r.type # "bit" => \E type \in RegisterTypes : r \in RangesOf(type)
           /\ r.type = "bit" => \E i \in BitMetrics : r = BitOf(i) /\ r.members = <<i>>
<1>1. \A type : OfType(type) \subseteq Addressed
    BY DEF OfType, Addressed
<1>2. ASSUME NEW type \in RegisterTypes, r \in RangesOf(type)
      PROVE  r.members \in Seq(Addressed) /\ r.type # "bit"
    <2>1. r.members \in Seq(OfType(type)) /\ r.type = type
        BY <1>2 DEF RangesOf
    <2>2. QED BY <1>1, <2>1 DEF RegisterTypes
<1>3. ASSUME NEW i \in BitMetrics, r = BitOf(i)
      PROVE  r.members \in Seq(Addressed) /\ r.type = "bit" /\ r.members = <<i>>
    <2>1. r.type = "bit" /\ r.members = <<i>>
        BY <1>3 DEF BitOf
    <2>2. QED BY <1>1, <2>1 DEF BitMetrics
<1>4. QED BY <1>2, <1>3 DEF Entries, RegisterTypes

\* After sorting and merging every metric with an address is in a queue.
LEMMA InitBatch ==
    Init => BatchInv
<1> SUFFICES ASSUME Init PROVE BatchInv
    OBVIOUS
<1>1. ListOK
    BY DEF Init, ListOK
<1> DEFINE a == Coalesced("holding")
           b == Coalesced("input")
<1>2. /\ a \in Seq(RangesOf("holding"))
      /\ \A i \in OfType("holding") : \E j \in DOMAIN a : i \in ToSet(a[j].members)
    BY <1>1, CoalescedFacts, Zenon
<1>3. /\ b \in Seq(RangesOf("input"))
      /\ \A i \in OfType("input") : \E j \in DOMAIN b : i \in ToSet(b[j].members)
    BY <1>1, CoalescedFacts, Zenon
<1>4. /\ Bits \in Seq({BitOf(i) : i \in BitMetrics})
      /\ \A i \in BitMetrics : \E r \in ToSet(Bits) : i \in ToSet(r.members)
    BY <1>1, BitsFacts
<1>5. ranges = (a \o b) \o Bits
    BY DEF Init
<1> HIDE DEF a, b
<1>6. a \in Seq(Entries) /\ b \in Seq(Entries) /\ Bits \in Seq(Entries)
    BY <1>2, <1>3, <1>4 DEF Entries
<1>7. a \o b \in Seq(Entries) /\ ranges \in Seq(Entries)
    <2>1. a \o b \in Seq(Entries)
        BY <1>6, ConcatProperties, Zenon
    <2>2. (a \o b) \o Bits \in Seq(Entries)
        BY <1>6, <2>1, ConcatProperties, Zenon
    <2>3. QED BY <1>5, <2>1, <2>2
<1>8. ToSet(ranges) = ToSet(a) \cup ToSet(b) \cup ToSet(Bits)
    <2>1. ToSet(a \o b) = ToSet(a) \cup ToSet(b)
        BY <1>6, SetOfConcat, Zenon
    <2>2. ToSet((a \o b) \o Bits) = ToSet(a \o b) \cup ToSet(Bits)
        BY <1>6, <1>7, SetOfConcat, Zenon
    <2>3. QED BY <1>5, <2>1, <2>2
<1>9. /\ DOMAIN results = Indices
      /\ \A i \in Indices : results[i] = IF metrics[i].addr = NoAddress THEN Failed ELSE Pending
      /\ fallback = <<>>
    BY DEF Init
<1>10. ASSUME NEW i \in Addressed PROVE Queued(i)
    <2>1. i \in Indices /\ metrics[i].type \in RegisterTypes \cup BitTypes
        BY <1>1, MetricFacts DEF Addressed
    <2>2. i \in OfType("holding") \cup OfType("input") \cup BitMetrics
        BY <2>1 DEF Addressed, OfType, BitMetrics, RegisterTypes, BitTypes
    <2>3. \E r \in ToSet(ranges) : i \in ToSet(r.members)
        <3>1. (\E j \in DOMAIN a : i \in ToSet(a[j].members)) => \E r \in ToSet(a) : i \in ToSet(r.members)
            BY DEF ToSet
        <3>2. (\E j \in DOMAIN b : i \in ToSet(b[j].members)) => \E r \in ToSet(b) : i \in ToSet(r.members)
            BY DEF ToSet
        <3>3. QED BY <1>2, <1>3, <1>4, <1>8, <2>2, <3>1, <3>2
    <2>4. QED BY <2>3 DEF Queued
<1>11. Pending # Failed
    BY DEF Pending, Failed
<1>12. Results
    BY <1>9, <1>10, <1>11 DEF Results, Addressed
<1>13. QED BY <1>1, <1>7, <1>9, <1>12 DEF BatchInv

-----------------------------------------------------------------------------
(* Next *)

\* Nobody is forgotten when the first of a queue is taken.
LEMMA TailKeeps ==
    ASSUME NEW S, NEW s \in Seq(S), s # <<>>
    PROVE  /\ Head(s) \in S
           /\ Tail(s) \in Seq(S)
           /\ ToSet(s) = {Head(s)} \cup ToSet(Tail(s))
<1>1. Head(s) \in S /\ Tail(s) \in Seq(S)
    BY HeadTailProperties
<1>2. /\ Len(s) \in Nat /\ Len(s) > 0 /\ DOMAIN s = 1 .. Len(s)
      /\ Len(Tail(s)) = Len(s) - 1 /\ DOMAIN Tail(s) = 1 .. Len(s) - 1
      /\ \A k \in 1 .. Len(s) - 1 : Tail(s)[k] = s[k + 1]
      /\ Head(s) = s[1]
    BY <1>1, HeadTailProperties, LenProperties, EmptySeq
<1>3. ASSUME NEW x \in ToSet(s) PROVE x = Head(s) \/ x \in ToSet(Tail(s))
    <2>1. PICK k \in 1 .. Len(s) : s[k] = x
        BY <1>2 DEF ToSet
    <2>2. CASE k = 1
        BY <1>2, <2>1, <2>2
    <2>3. CASE k # 1
        <3>1. k - 1 \in 1 .. Len(s) - 1 /\ (k - 1) + 1 = k
            BY <1>2, <2>3
        <3>2. Tail(s)[k - 1] = x
            BY <1>2, <2>1, <3>1
        <3>3. QED BY <1>2, <3>1, <3>2 DEF ToSet
    <2>4. QED BY <2>2, <2>3
<1>4. ToSet(Tail(s)) \subseteq ToSet(s)
    <2>1. \A k \in 1 .. Len(s) - 1 : k + 1 \in 1 .. Len(s)
        BY <1>2
    <2>2. QED BY <1>2, <2>1 DEF ToSet
<1>5. Head(s) \in ToSet(s)
    BY <1>2 DEF ToSet
<1>6. QED BY <1>1, <1>3, <1>4, <1>5

\* What depends on the list alone.
LEMMA ListKept ==
    ASSUME metrics' = metrics
    PROVE  /\ Indices' = Indices /\ Entries' = Entries /\ Addressed' = Addressed
           /\ ListOK' = ListOK
           /\ \A i \in Indices : /\ ExpectedBytes(i)' = ExpectedBytes(i)
                                 /\ BelowTop(i)' <=> BelowTop(i)
BY DEF Indices, Entries, Addressed, ListOK, RangesOf, BitMetrics, BitOf, OfType,
       SaturatingAdd, Count, ExpectedBytes, Own, OwnBytes, Registers, BelowTop

\* A range is read and split.
LEMMA ReadRangeKeeps ==
    ASSUME BatchInv, ReadRange PROVE BatchInv'
<1> DEFINE r == Head(ranges)
<1>1. /\ fallback = <<>> /\ ranges # <<>> /\ r.type # "bit"
      /\ results' = [i \in Indices |-> IF i \in ToSet(r.members) THEN DecodeMetric(i, r) ELSE results[i]]
      /\ ranges' = Tail(ranges)
      /\ metrics' = metrics /\ fallback' = fallback /\ lost' = lost
    BY DEF ReadRange
<1>2. /\ r \in Entries /\ ranges' \in Seq(Entries)
      /\ ToSet(ranges) = {r} \cup ToSet(ranges')
    BY <1>1, TailKeeps DEF BatchInv
<1>3. ListOK
    BY DEF BatchInv
<1>4. PICK type \in RegisterTypes : r \in RangesOf(type)
    BY <1>1, <1>2, <1>3, EntryFacts
<1> HIDE DEF r
<1>5. ASSUME NEW i \in Indices
      PROVE  /\ results'[i] \in {Pending, Failed, Decoded(ExpectedBytes(i))}
             /\ results'[i] = Pending => Queued(i)'
             /\ BelowTop(i) /\ results'[i] = Failed => metrics[i].addr = NoAddress \/ i \in lost
    <2>1. CASE i \in ToSet(r.members)
        <3>1. results'[i] = DecodeMetric(i, r)
            BY <1>1, <2>1
        <3>2. /\ DecodeMetric(i, r) \in {Failed, Decoded(ExpectedBytes(i))}
              /\ BelowTop(i) => DecodeMetric(i, r) = Decoded(ExpectedBytes(i))
            BY <1>3, <1>4, <2>1, CutFromRange, DecodedOwn
        <3>3. Pending # Failed /\ Pending # Decoded(ExpectedBytes(i)) /\ Failed # Decoded(ExpectedBytes(i))
            BY DEF Pending, Failed, Decoded
        <3>4. QED BY <3>1, <3>2, <3>3
    <2>2. CASE i \notin ToSet(r.members)
        <3>1. results'[i] = results[i]
            BY <1>1, <2>2
        <3>2. ToSet(fallback) = {}
            BY <1>1 DEF ToSet
        <3>3. Queued(i) => Queued(i)'
            BY <1>1, <1>2, <2>2, <3>2 DEF Queued
        <3>4. QED BY <3>1, <3>3 DEF BatchInv, Results
    <2>3. QED BY <2>1, <2>2
<1>6. DOMAIN results' = Indices
    BY <1>1
<1>7. QED BY <1>1, <1>2, <1>3, <1>5, <1>6, ListKept DEF BatchInv, Results

\* A range cannot be read: its members go from one queue to the other.
LEMMA RangeFailsKeeps ==
    ASSUME BatchInv, RangeFails PROVE BatchInv'
<1> DEFINE r == Head(ranges)
<1>1. /\ fallback = <<>> /\ ranges # <<>>
      /\ fallback' = r.members
      /\ ranges' = Tail(ranges)
      /\ metrics' = metrics /\ results' = results /\ lost' = lost
    BY DEF RangeFails, FallbackFor
<1>2. /\ r \in Entries /\ ranges' \in Seq(Entries)
      /\ ToSet(ranges) = {r} \cup ToSet(ranges')
    BY <1>1, TailKeeps DEF BatchInv
<1>3. ListOK
    BY DEF BatchInv
<1>4. fallback' \in Seq(Addressed)
    BY <1>1, <1>2, <1>3, EntryFacts
<1> HIDE DEF r
<1>5. ToSet(fallback) = {}
    BY <1>1 DEF ToSet
<1>6. \A i : Queued(i) => Queued(i)'
    BY <1>1, <1>2, <1>5 DEF Queued
<1>7. QED BY <1>1, <1>2, <1>3, <1>4, <1>6, ListKept DEF BatchInv, Results

\* Taking a metric to read it alone removes that one only.
LEMMA TakeSingleKeeps ==
    ASSUME BatchInv, NEW i \in Indices, TakeSingle(i)
    PROVE  /\ ranges' \in Seq(Entries)
           /\ fallback' \in Seq(Addressed)
           /\ metrics' = metrics => \A j \in Indices \ {i} : Queued(j) => Queued(j)'
<1>1. ListOK /\ ranges \in Seq(Entries) /\ fallback \in Seq(Addressed)
    BY DEF BatchInv
<1>2. CASE fallback # <<>> /\ i = Head(fallback) /\ fallback' = Tail(fallback) /\ ranges' = ranges
    <2>1. fallback' \in Seq(Addressed) /\ ToSet(fallback) = {i} \cup ToSet(fallback')
        BY <1>1, <1>2, TailKeeps
    <2>2. QED BY <1>1, <1>2, <2>1 DEF Queued
<1>3. CASE /\ fallback = <<>> /\ ranges # <<>>
           /\ Head(ranges).type = "bit" /\ i = Head(ranges).members[1]
           /\ ranges' = Tail(ranges) /\ fallback' = fallback
    <2>1. /\ Head(ranges) \in Entries /\ ranges' \in Seq(Entries)
          /\ ToSet(ranges) = {Head(ranges)} \cup ToSet(ranges')
        BY <1>1, <1>3, TailKeeps
    <2>2. PICK j \in BitMetrics : Head(ranges).members = <<j>>
        BY <1>1, <1>3, <2>1, EntryFacts
    <2>3. ToSet(Head(ranges).members) = {i}
        BY <1>3, <2>2 DEF ToSet
    <2>4. QED BY <1>1, <1>3, <2>1, <2>3 DEF Queued
<1>4. QED BY <1>2, <1>3 DEF TakeSingle

\* A metric is read alone.
LEMMA ReadSingleKeeps ==
    ASSUME BatchInv, NEW i \in Indices, ReadSingle(i) PROVE BatchInv'
<1>1. /\ TakeSingle(i) /\ metrics' = metrics /\ lost' = lost
      /\ results' = [results EXCEPT ![i] = Value(i, Own(i))]
    BY DEF ReadSingle
<1>2. ListOK /\ DOMAIN results = Indices
    BY DEF BatchInv
<1>3. /\ DOMAIN results' = Indices
      /\ results'[i] = Decoded(ExpectedBytes(i))
      /\ \A j \in Indices \ {i} : results'[j] = results[j]
    BY <1>1, <1>2, DecodedOwn
<1>4. Pending # Decoded(ExpectedBytes(i)) /\ Failed # Decoded(ExpectedBytes(i))
    BY DEF Pending, Failed, Decoded
<1>5. QED BY <1>1, <1>2, <1>3, <1>4, TakeSingleKeeps, ListKept DEF BatchInv, Results

\* The read of one metric alone fails.
LEMMA SingleFailsKeeps ==
    ASSUME BatchInv, NEW i \in Indices, SingleFails(i) PROVE BatchInv'
<1>1. /\ TakeSingle(i) /\ metrics' = metrics /\ lost' = lost \cup {i}
      /\ results' = [results EXCEPT ![i] = Failed]
    BY DEF SingleFails
<1>2. ListOK /\ DOMAIN results = Indices
    BY DEF BatchInv
<1>3. /\ DOMAIN results' = Indices
      /\ results'[i] = Failed
      /\ \A j \in Indices \ {i} : results'[j] = results[j]
    BY <1>1, <1>2
<1>4. Pending # Failed
    BY DEF Pending, Failed
<1>5. QED BY <1>1, <1>2, <1>3, <1>4, TakeSingleKeeps, ListKept DEF BatchInv, Results

\* Every step keeps the invariant.
LEMMA NextBatch ==
    BatchInv /\ [Next]_vars => BatchInv'
<1> SUFFICES ASSUME BatchInv, [Next]_vars PROVE BatchInv'
    OBVIOUS
<1>1. CASE ReadRange
    BY <1>1, ReadRangeKeeps
<1>2. CASE RangeFails
    BY <1>2, RangeFailsKeeps
<1>3. CASE \E i \in Indices : ReadSingle(i) \/ SingleFails(i)
    BY <1>3, ReadSingleKeeps, SingleFailsKeeps
<1>4. CASE UNCHANGED vars
    BY <1>4, ListKept DEF vars, BatchInv, Results, Queued
<1>5. QED BY <1>1, <1>2, <1>3, <1>4 DEF Next

-----------------------------------------------------------------------------
(* What a list costs *)

\* The members of two queues in a row.
LEMMA MembersOfConcat ==
    ASSUME NEW S, NEW s \in Seq(S), NEW t \in Seq(S)
    PROVE  /\ MembersOf(s \o t) = MembersOf(s) \cup MembersOf(t)
           /\ Apart(s) /\ Apart(t) /\ MembersOf(s) \cap MembersOf(t) = {} => Apart(s \o t)
<1> DEFINE u == s \o t
           M(x) == ToSet(x.members)
<1>1. /\ Len(s) \in Nat /\ DOMAIN s = 1 .. Len(s)
      /\ Len(t) \in Nat /\ DOMAIN t = 1 .. Len(t)
      /\ DOMAIN u = 1 .. Len(s) + Len(t)
      /\ \A k \in 1 .. Len(s) + Len(t) : u[k] = IF k <= Len(s) THEN s[k] ELSE t[k - Len(s)]
    BY ConcatProperties, LenProperties
<1> HIDE DEF u, M
<1>2. \A k \in DOMAIN u : \/ k \in DOMAIN s /\ u[k] = s[k]
                          \/ k - Len(s) \in DOMAIN t /\ u[k] = t[k - Len(s)] /\ ~ (k \in DOMAIN s)
    BY <1>1
<1>3. /\ \A k \in DOMAIN s : k \in DOMAIN u /\ u[k] = s[k]
      /\ \A k \in DOMAIN t : k + Len(s) \in DOMAIN u /\ u[k + Len(s)] = t[k]
    BY <1>1
<1>4. /\ MembersOf(u) = UNION {M(u[k]) : k \in DOMAIN u}
      /\ MembersOf(s) = UNION {M(s[k]) : k \in DOMAIN s}
      /\ MembersOf(t) = UNION {M(t[k]) : k \in DOMAIN t}
    BY DEF MembersOf, M
<1>5. MembersOf(u) = MembersOf(s) \cup MembersOf(t)
    <2>1. \A x : x \in MembersOf(u) => x \in MembersOf(s) \/ x \in MembersOf(t)
        BY <1>2, <1>4
    <2>2. \A x : x \in MembersOf(s) => x \in MembersOf(u)
        BY <1>3, <1>4
    <2>3. \A x : x \in MembersOf(t) => x \in MembersOf(u)
        BY <1>3, <1>4
    <2>4. QED BY <2>1, <2>2, <2>3
<1>6. ASSUME Apart(s), Apart(t), MembersOf(s) \cap MembersOf(t) = {}
      PROVE  Apart(u)
    <2>1. \A k \in DOMAIN u : u[k].members # <<>> /\ Distinct(u[k].members)
        BY <1>2, <1>6 DEF Apart
    <2>2. \A j, k \in DOMAIN s : j # k => M(s[j]) \cap M(s[k]) = {}
        BY <1>6 DEF Apart, M
    <2>3. \A j, k \in DOMAIN t : j # k => M(t[j]) \cap M(t[k]) = {}
        BY <1>6 DEF Apart, M
    <2>4. \A j \in DOMAIN s, k \in DOMAIN t : M(s[j]) \cap M(t[k]) = {}
        BY <1>4, <1>6
    <2>5. ASSUME NEW j \in DOMAIN u, NEW k \in DOMAIN u, j # k
          PROVE  M(u[j]) \cap M(u[k]) = {}
        <3>1. j - Len(s) # k - Len(s)
            BY <1>1, <2>5
        <3>2. CASE j \in DOMAIN s /\ u[j] = s[j]
            BY <1>2, <2>2, <2>4, <2>5, <3>2
        <3>3. CASE j - Len(s) \in DOMAIN t /\ u[j] = t[j - Len(s)]
            <4>1. CASE k \in DOMAIN s /\ u[k] = s[k]
                BY <2>4, <3>3, <4>1
            <4>2. CASE k - Len(s) \in DOMAIN t /\ u[k] = t[k - Len(s)]
                BY <2>3, <3>1, <3>3, <4>2
            <4>3. QED BY <1>2, <4>1, <4>2
        <3>4. QED BY <1>2, <3>2, <3>3
    <2>6. QED BY <2>1, <2>5 DEF Apart, M
<1>7. QED BY <1>5, <1>6 DEF u

\* The first entry of a queue has nothing in common with the others.
LEMMA ApartTail ==
    ASSUME NEW S, NEW s \in Seq(S), s # <<>>, Apart(s)
    PROVE  /\ Apart(Tail(s))
           /\ MembersOf(s) = ToSet(Head(s).members) \cup MembersOf(Tail(s))
           /\ ToSet(Head(s).members) \cap MembersOf(Tail(s)) = {}
           /\ Head(s).members # <<>> /\ Distinct(Head(s).members)
<1> DEFINE t == Tail(s)
           M(x) == ToSet(x.members)
<1>1. /\ Len(s) \in Nat /\ Len(s) > 0 /\ DOMAIN s = 1 .. Len(s)
      /\ Head(s) = s[1] /\ 1 \in DOMAIN s
      /\ DOMAIN t = 1 .. Len(s) - 1
      /\ \A k \in 1 .. Len(s) - 1 : t[k] = s[k + 1]
    BY HeadTailProperties, LenProperties, EmptySeq
<1> HIDE DEF t, M
<1>2. \A k \in DOMAIN t : k + 1 \in DOMAIN s /\ k + 1 # 1 /\ t[k] = s[k + 1] /\ k \in Nat
    BY <1>1
<1>3. \A k \in DOMAIN s : k = 1 \/ (k - 1 \in DOMAIN t /\ t[k - 1] = s[k])
    <2>1. \A k \in 1 .. Len(s) : k = 1 \/ (k - 1 \in 1 .. Len(s) - 1 /\ (k - 1) + 1 = k)
        BY <1>1
    <2>2. ASSUME NEW k \in 1 .. Len(s), k # 1
          PROVE  k - 1 \in DOMAIN t /\ t[k - 1] = s[k]
        <3>1. k - 1 \in 1 .. Len(s) - 1 /\ (k - 1) + 1 = k
            BY <2>1, <2>2
        <3>2. t[k - 1] = s[(k - 1) + 1]
            BY <1>1, <3>1
        <3>3. QED BY <1>1, <3>1, <3>2
    <2>3. DOMAIN s = 1 .. Len(s)
        BY <1>1
    <2>4. QED BY <2>2, <2>3
<1>4. /\ MembersOf(s) = UNION {M(s[k]) : k \in DOMAIN s}
      /\ MembersOf(t) = UNION {M(t[k]) : k \in DOMAIN t}
    BY DEF MembersOf, M
<1>5. \A j, k \in DOMAIN s : j # k => M(s[j]) \cap M(s[k]) = {}
    BY DEF Apart, M
<1>6. MembersOf(s) = M(s[1]) \cup MembersOf(t)
    <2>1. \A x : x \in MembersOf(s) => x \in M(s[1]) \/ x \in MembersOf(t)
        BY <1>3, <1>4
    <2>2. \A x : x \in MembersOf(t) => x \in MembersOf(s)
        BY <1>2, <1>4
    <2>3. \A x : x \in M(s[1]) => x \in MembersOf(s)
        BY <1>1, <1>4
    <2>4. QED BY <2>1, <2>2, <2>3
<1>7. M(s[1]) \cap MembersOf(t) = {}
    BY <1>1, <1>2, <1>4, <1>5
<1>8. Apart(t)
    <2>1. \A k \in DOMAIN t : t[k].members # <<>> /\ Distinct(t[k].members)
        BY <1>2 DEF Apart
    <2>2. ASSUME NEW j \in DOMAIN t, NEW k \in DOMAIN t, j # k PROVE M(t[j]) \cap M(t[k]) = {}
        <3>1. j + 1 # k + 1
            BY <1>2, <2>2
        <3>2. QED BY <1>2, <1>5, <3>1
    <2>3. QED BY <2>1, <2>2 DEF Apart, M
<1>9. QED BY <1>1, <1>6, <1>7, <1>8 DEF Apart, M, t

\* Neither has the first of distinct elements.
LEMMA DistinctTail ==
    ASSUME NEW S, NEW s \in Seq(S), s # <<>>, Distinct(s)
    PROVE  /\ Distinct(Tail(s))
           /\ ToSet(s) = {Head(s)} \cup ToSet(Tail(s))
           /\ Head(s) \notin ToSet(Tail(s))
<1> DEFINE t == Tail(s)
<1>1. /\ Len(s) \in Nat /\ Len(s) > 0 /\ DOMAIN s = 1 .. Len(s)
      /\ Head(s) = s[1] /\ 1 \in DOMAIN s
      /\ DOMAIN t = 1 .. Len(s) - 1
      /\ \A k \in 1 .. Len(s) - 1 : t[k] = s[k + 1]
    BY HeadTailProperties, LenProperties, EmptySeq
<1> HIDE DEF t
<1>2. \A k \in DOMAIN t : k + 1 \in DOMAIN s /\ k + 1 # 1 /\ t[k] = s[k + 1] /\ k \in Nat
    BY <1>1
<1>3. \A j, k \in DOMAIN s : s[j] = s[k] => j = k
    BY DEF Distinct
<1>4. ASSUME NEW j \in DOMAIN t, NEW k \in DOMAIN t, t[j] = t[k] PROVE j = k
    <2>1. j + 1 = k + 1
        BY <1>2, <1>3, <1>4
    <2>2. QED BY <1>2, <2>1
<1>5. s[1] \notin ToSet(t)
    BY <1>1, <1>2, <1>3 DEF ToSet
<1>6. QED BY <1>1, <1>4, <1>5, TailKeeps DEF Distinct, t

\* No metric waits twice, and each one that waits has its reads to come: its
\* range's and its own, or its own alone.
CostInv ==
    /\ Apart(ranges) /\ Distinct(fallback)
    /\ ToSet(fallback) \cap MembersOf(ranges) = {}
    /\ lost \subseteq Indices
    /\ calls \in Nat
    /\ calls + 2 * Cardinality(MembersOf(ranges)) + Cardinality(ToSet(fallback)) <= 2 * ListLength

\* Metrics that wait are of the list.
LEMMA WaitingFinite ==
    ASSUME BatchInv
    PROVE  /\ MembersOf(ranges) \subseteq Indices
           /\ ToSet(fallback) \subseteq Indices
           /\ \A T \in SUBSET Indices : /\ IsFiniteSet(T)
                                        /\ Cardinality(T) \in Nat
                                        /\ Cardinality(T) <= ListLength
<1>1. ListOK /\ ranges \in Seq(Entries) /\ fallback \in Seq(Addressed)
    BY DEF BatchInv
<1>2. Indices = 1 .. ListLength /\ ListLength \in Nat
    BY <1>1, BatchAssumption DEF ListOK, Indices
<1>3. ASSUME NEW k \in DOMAIN ranges PROVE ToSet(ranges[k].members) \subseteq Indices
    <2>1. ranges[k] \in Entries
        BY <1>1, ElementOfSeq
    <2>2. ranges[k].members \in Seq(Addressed)
        BY <1>1, <2>1, EntryFacts
    <2>3. QED BY <2>2, ElementOfSeq DEF ToSet, Addressed
<1>4. ToSet(fallback) \subseteq Indices
    BY <1>1, ElementOfSeq DEF ToSet, Addressed
<1>5. IsFiniteSet(1 .. ListLength) /\ Cardinality(1 .. ListLength) = ListLength
    BY <1>2, FS_Interval
<1>6. \A T \in SUBSET (1 .. ListLength) : /\ IsFiniteSet(T)
                                          /\ Cardinality(T) \in Nat
                                          /\ Cardinality(T) <= ListLength
    BY <1>5, FS_Subset, FS_CardinalityType
<1>7. MembersOf(ranges) \subseteq Indices
    BY <1>3 DEF MembersOf
<1>8. QED BY <1>2, <1>4, <1>6, <1>7

\* The sizes of two sets that have nothing in common add up.
LEMMA SizesAdd ==
    ASSUME NEW S, IsFiniteSet(S), NEW T, IsFiniteSet(T), S \cap T = {}
    PROVE  Cardinality(S \cup T) = Cardinality(S) + Cardinality(T)
<1>1. Cardinality(S \cup T) = Cardinality(S) + Cardinality(T) - Cardinality(S \cap T)
    BY FS_Union
<1>2. Cardinality(S \cap T) = 0
    BY FS_EmptySet
<1>3. Cardinality(S) \in Nat /\ Cardinality(T) \in Nat
    BY FS_CardinalityType
<1>4. QED BY <1>1, <1>2, <1>3

\* At first each metric with an address waits in one range or entry.
LEMMA InitCost ==
    ASSUME Init PROVE CostInv
<1>1. BatchInv /\ ListOK
    BY InitBatch DEF BatchInv
<1> DEFINE a == Coalesced("holding")
           b == Coalesced("input")
<1>2. /\ a \in Seq(RangesOf("holding")) /\ Apart(a)
      /\ MembersOf(a) \subseteq OfType("holding")
    BY <1>1, CoalescedFacts, Zenon
<1>3. /\ b \in Seq(RangesOf("input")) /\ Apart(b)
      /\ MembersOf(b) \subseteq OfType("input")
    BY <1>1, CoalescedFacts, Zenon
<1>4. /\ Bits \in Seq({BitOf(i) : i \in BitMetrics}) /\ Apart(Bits)
      /\ MembersOf(Bits) \subseteq BitMetrics
    BY <1>1, BitsFacts
<1>5. ranges = (a \o b) \o Bits
    BY DEF Init
<1> HIDE DEF a, b
<1>6. a \in Seq(Entries) /\ b \in Seq(Entries) /\ Bits \in Seq(Entries)
    BY <1>2, <1>3, <1>4 DEF Entries
<1>7. \A i : /\ i \in OfType("holding") => metrics[i].type = "holding"
             /\ i \in OfType("input") => metrics[i].type = "input"
             /\ i \in BitMetrics => metrics[i].type \in {"coil", "discrete"}
    BY DEF OfType, BitMetrics
<1>8. MembersOf(a) \cap MembersOf(b) = {} /\ (MembersOf(a) \cup MembersOf(b)) \cap MembersOf(Bits) = {}
    BY <1>2, <1>3, <1>4, <1>7
<1>9. /\ a \o b \in Seq(Entries) /\ Apart(a \o b)
      /\ MembersOf(a \o b) = MembersOf(a) \cup MembersOf(b)
    <2>1. a \o b \in Seq(Entries)
        BY <1>6, ConcatProperties, Zenon
    <2>2. /\ MembersOf(a \o b) = MembersOf(a) \cup MembersOf(b)
          /\ Apart(a) /\ Apart(b) /\ MembersOf(a) \cap MembersOf(b) = {} => Apart(a \o b)
        BY <1>6, MembersOfConcat, Zenon
    <2>3. QED BY <1>2, <1>3, <1>8, <2>1, <2>2
<1>10. Apart((a \o b) \o Bits)
    <2> DEFINE ab == a \o b
    <2> HIDE DEF ab
    <2>1. ab \in Seq(Entries) /\ Apart(ab) /\ MembersOf(ab) \cap MembersOf(Bits) = {}
        BY <1>8, <1>9 DEF ab
    <2>2. Apart(ab \o Bits)
        BY <1>4, <1>6, <2>1, MembersOfConcat
    <2>3. QED BY <2>2 DEF ab
<1>11. fallback = <<>> /\ lost = {} /\ calls = 0
    BY DEF Init
<1>12. ToSet(<<>>) = {} /\ Distinct(<<>>)
    BY DEF ToSet, Distinct
<1>13. Cardinality(MembersOf(ranges)) \in Nat /\ Cardinality(MembersOf(ranges)) <= ListLength
    BY <1>1, WaitingFinite
<1>14. Cardinality({}) = 0 /\ ListLength \in Nat
    <2>1. Cardinality({}) = 0
        BY FS_EmptySet
    <2>2. QED BY <2>1, BatchAssumption
<1>15. calls + 2 * Cardinality(MembersOf(ranges)) + Cardinality(ToSet(fallback)) <= 2 * ListLength
    <2>1. Cardinality(ToSet(fallback)) = 0
        BY <1>11, <1>12, <1>14
    <2> DEFINE m == Cardinality(MembersOf(ranges))
    <2> HIDE DEF m
    <2>2. m \in Nat /\ m <= ListLength
        BY <1>13 DEF m
    <2>3. 0 + 2 * m + 0 <= 2 * ListLength
        BY <1>14, <2>2
    <2>4. QED BY <1>11, <2>1, <2>3 DEF m
<1>16. QED BY <1>5, <1>10, <1>11, <1>12, <1>15 DEF CostInv

\* The first range waits with others that have none of its metrics.
LEMMA FirstRange ==
    ASSUME BatchInv, CostInv, ranges # <<>>
    PROVE  LET A == ToSet(Head(ranges).members)
           IN  /\ Apart(Tail(ranges)) /\ Distinct(Head(ranges).members)
               /\ MembersOf(ranges) = A \cup MembersOf(Tail(ranges))
               /\ A \cap MembersOf(Tail(ranges)) = {}
               /\ Cardinality(A) \in Nat /\ Cardinality(A) >= 1
               /\ Cardinality(MembersOf(Tail(ranges))) \in Nat
               /\ Cardinality(MembersOf(ranges)) = Cardinality(A) + Cardinality(MembersOf(Tail(ranges)))
<1> DEFINE h == Head(ranges)
           A == ToSet(h.members)
           B == MembersOf(Tail(ranges))
<1>1. ranges \in Seq(Entries) /\ ListOK
    BY DEF BatchInv
<1>2. /\ Apart(Tail(ranges)) /\ MembersOf(ranges) = A \cup B /\ A \cap B = {}
      /\ h.members # <<>> /\ Distinct(h.members)
    BY <1>1, ApartTail DEF CostInv
<1>3. h.members \in Seq(Addressed)
    BY <1>1, TailKeeps, EntryFacts
<1> HIDE DEF h
<1>4. A # {}
    <2>1. Head(h.members) \in A
        BY <1>2, <1>3, TailKeeps
    <2>2. QED BY <2>1
<1> HIDE DEF A, B
<1>5. A \in SUBSET Indices /\ B \in SUBSET Indices
    BY <1>2, WaitingFinite
<1>6. /\ IsFiniteSet(A) /\ Cardinality(A) \in Nat /\ IsFiniteSet(B) /\ Cardinality(B) \in Nat
    BY <1>5, WaitingFinite
<1>7. Cardinality(A) # 0
    BY <1>4, <1>6, FS_EmptySet
<1>8. Cardinality(MembersOf(ranges)) = Cardinality(A) + Cardinality(B)
    BY <1>2, <1>6, SizesAdd
<1>9. QED BY <1>2, <1>6, <1>7, <1>8 DEF A, B, h

\* Reading a range or failing to, calls are made for the metrics in it.
LEMMA RangeCosts ==
    ASSUME BatchInv, CostInv, ReadRange \/ RangeFails PROVE CostInv'
<1> DEFINE A == ToSet(Head(ranges).members)
           B == MembersOf(Tail(ranges))
<1>1. /\ fallback = <<>> /\ ranges # <<>> /\ ranges' = Tail(ranges)
      /\ fallback' \in {<<>>, Head(ranges).members}
      /\ metrics' = metrics /\ lost' = lost /\ calls' = calls + 1
    BY DEF ReadRange, RangeFails, FallbackFor
<1>2. /\ Apart(Tail(ranges)) /\ Distinct(Head(ranges).members)
      /\ A \cap B = {}
      /\ Cardinality(A) \in Nat /\ Cardinality(A) >= 1 /\ Cardinality(B) \in Nat
      /\ Cardinality(MembersOf(ranges)) = Cardinality(A) + Cardinality(B)
    BY <1>1, FirstRange
<1>3. ToSet(<<>>) = {} /\ Distinct(<<>>) /\ Cardinality({}) = 0
    BY FS_EmptySet DEF ToSet, Distinct
<1>4. ToSet(fallback') \in {{}, A} /\ Distinct(fallback')
    BY <1>1, <1>2, <1>3
<1>5. MembersOf(ranges)' = B /\ ToSet(fallback)' = ToSet(fallback')
    BY <1>1
<1>6. /\ calls \in Nat /\ lost \subseteq Indices
      /\ calls + 2 * Cardinality(MembersOf(ranges)) + Cardinality(ToSet(fallback)) <= 2 * ListLength
      /\ ListLength \in Nat
    BY BatchAssumption DEF CostInv
<1> HIDE DEF A, B
<1>7. Cardinality(ToSet(fallback')) \in Nat /\ Cardinality(ToSet(fallback')) <= Cardinality(A)
    <2>1. CASE ToSet(fallback') = {}
        <3>1. Cardinality(ToSet(fallback')) = 0
            BY <1>3, <2>1
        <3>2. QED BY <1>2, <3>1
    <2>2. CASE ToSet(fallback') = A
        <3>1. Cardinality(ToSet(fallback')) = Cardinality(A)
            BY <2>2
        <3>2. QED BY <1>2, <3>1
    <2>3. QED BY <1>4, <2>1, <2>2
<1>8. calls' + 2 * Cardinality(B) + Cardinality(ToSet(fallback')) <= 2 * ListLength
    <2>1. Cardinality(ToSet(fallback)) = 0
        BY <1>1, <1>3
    <2>2. QED BY <1>1, <1>2, <1>6, <1>7, <2>1
<1>9. ToSet(fallback') \cap B = {}
    BY <1>2, <1>4
<1>10. Apart(ranges') /\ calls' \in Nat /\ lost' \subseteq Indices'
    BY <1>1, <1>2, <1>6 DEF Indices
<1>11. QED BY <1>4, <1>5, <1>8, <1>9, <1>10 DEF CostInv

\* A metric read alone waits no more.
LEMMA SingleCosts ==
    ASSUME BatchInv, CostInv, NEW i \in Indices, ReadSingle(i) \/ SingleFails(i) PROVE CostInv'
<1>1. /\ TakeSingle(i) /\ metrics' = metrics /\ calls' = calls + 1
      /\ lost' \subseteq lost \cup {i}
    BY DEF ReadSingle, SingleFails
<1> DEFINE F == ToSet(fallback)
           M == MembersOf(ranges)
<1>2. /\ calls \in Nat /\ lost \subseteq Indices /\ F \cap M = {}
      /\ calls + 2 * Cardinality(M) + Cardinality(F) <= 2 * ListLength
      /\ ListLength \in Nat /\ Apart(ranges) /\ Distinct(fallback)
    BY BatchAssumption DEF CostInv
<1>3. Cardinality(M) \in Nat /\ Cardinality(F) \in Nat /\ IsFiniteSet(F)
    BY WaitingFinite
<1>4. lost' \subseteq Indices' /\ calls' \in Nat
    BY <1>1, <1>2 DEF Indices
<1>5. CASE fallback # <<>> /\ i = Head(fallback) /\ fallback' = Tail(fallback) /\ ranges' = ranges
    <2>1. fallback \in Seq(Addressed)
        BY DEF BatchInv
    <2>2. Distinct(fallback') /\ F = {i} \cup ToSet(fallback') /\ i \notin ToSet(fallback')
        BY <1>2, <1>5, <2>1, DistinctTail
    <2>3. ToSet(fallback') = F \ {i} /\ i \in F
        BY <2>2
    <2> HIDE DEF F, M
    <2>4. Cardinality(ToSet(fallback')) = Cardinality(F) - 1
        BY <1>3, <2>3, FS_RemoveElement
    <2>5. calls' + 2 * Cardinality(M) + Cardinality(ToSet(fallback')) <= 2 * ListLength
        BY <1>1, <1>2, <1>3, <2>4
    <2>6. MembersOf(ranges)' = M /\ ToSet(fallback)' = ToSet(fallback')
        BY <1>5 DEF M
    <2>7. ToSet(fallback') \cap M = {}
        BY <1>2, <2>3
    <2>8. QED BY <1>2, <1>4, <1>5, <2>2, <2>5, <2>6, <2>7 DEF CostInv
<1>6. CASE /\ fallback = <<>> /\ ranges # <<>>
           /\ Head(ranges).type = "bit" /\ i = Head(ranges).members[1]
           /\ ranges' = Tail(ranges) /\ fallback' = fallback
    <2> DEFINE B == MembersOf(Tail(ranges))
               a == Cardinality(ToSet(Head(ranges).members))
    <2>1. /\ Apart(Tail(ranges)) /\ a \in Nat /\ a >= 1 /\ Cardinality(B) \in Nat
          /\ Cardinality(M) = a + Cardinality(B)
          /\ B \subseteq M
        BY <1>6, FirstRange
    <2>2. MembersOf(ranges)' = B /\ ToSet(fallback)' = F
        BY <1>6
    <2> HIDE DEF F, M, B, a
    <2>3. calls' + 2 * Cardinality(B) + Cardinality(F) <= 2 * ListLength
        BY <1>1, <1>2, <1>3, <2>1
    <2>4. F \cap B = {}
        BY <1>2, <2>1
    <2>5. QED BY <1>2, <1>4, <1>6, <2>1, <2>2, <2>3, <2>4 DEF CostInv
<1>7. QED BY <1>1, <1>5, <1>6 DEF TakeSingle

\* Every step keeps it.
LEMMA NextCost ==
    ASSUME BatchInv, CostInv, [Next]_vars PROVE CostInv'
<1>1. CASE UNCHANGED vars
    <2>1. /\ ranges' = ranges /\ fallback' = fallback /\ lost' = lost /\ calls' = calls
          /\ metrics' = metrics
        BY <1>1 DEF vars
    <2>2. /\ MembersOf(ranges)' = MembersOf(ranges) /\ ToSet(fallback)' = ToSet(fallback)
          /\ Indices' = Indices
        BY <2>1 DEF Indices
    <2>3. QED BY <2>1, <2>2 DEF CostInv
<1>2. QED BY <1>1, RangeCosts, SingleCosts DEF Next

-----------------------------------------------------------------------------
(* Theorems *)

\* Ranges and fallbacks hold metrics of the list, and however ranges are merged,
\* fail and are read one by one, a list costs two reads for each of its metrics
\* at most (batch_read_coalesced, read_count).
THEOREM BatchTypeCorrect ==
    Spec => []TypeOK
<1>1. BatchInv /\ CostInv => TypeOK
    <2> SUFFICES ASSUME BatchInv, CostInv PROVE TypeOK
        OBVIOUS
    <2>1. ToSet(fallback) \subseteq Indices /\ MembersOf(ranges) \subseteq Indices
        BY WaitingFinite
    <2>2. UNION {ToSet(range.members) : range \in ToSet(ranges)} \subseteq Indices
        BY <2>1 DEF ToSet, MembersOf
    <2>3. \A i \in Indices : results[i].is \in {"pending", "failed", "decoded"}
        BY DEF BatchInv, Results, Pending, Failed, Decoded
    <2>4. Cardinality(MembersOf(ranges)) \in Nat /\ Cardinality(ToSet(fallback)) \in Nat
        BY <2>1, WaitingFinite
    <2>5. calls \in 0 .. 2 * ListLength
        BY <2>4, BatchAssumption DEF CostInv
    <2>6. lost \subseteq Indices
        BY DEF CostInv
    <2>7. QED BY <2>1, <2>2, <2>3, <2>5, <2>6 DEF TypeOK
<1>2. Init => BatchInv /\ CostInv
    BY InitBatch, InitCost
<1>3. BatchInv /\ CostInv /\ [Next]_vars => BatchInv' /\ CostInv'
    BY NextBatch, NextCost
<1>4. QED BY <1>1, <1>2, <1>3, PTL DEF Spec

\* A metric is decoded from all bytes of its own registers, in its own byte
\* order, and from no others, however the list was sorted, merged and split and
\* whatever failed (batch_read_coalesced, decode_metric, decode).
THEOREM DecodedFromOwnRegistersHolds ==
    Spec => []DecodedFromOwnRegisters
<1>1. BatchInv => DecodedFromOwnRegisters
    BY DEF BatchInv, Results, DecodedFromOwnRegisters, Pending, Failed, Decoded
<1>2. QED BY <1>1, InitBatch, NextBatch, PTL DEF Spec

\* With room for the widest metric in one read, no merged range is longer than
\* MAX_REGISTERS_PER_READ, and only one that begins at the top address is empty
\* (coalesce, validate_register_count).
THEOREM RangesLegalBelowTop ==
    ASSUME Roomy
    PROVE  Spec => [](\A range \in ToSet(ranges) : LegalBelowTop(range))
<1>1. BatchInv => \A range \in ToSet(ranges) : LegalBelowTop(range)
    <2> SUFFICES ASSUME BatchInv, NEW r \in ToSet(ranges)
                 PROVE  LegalBelowTop(r)
        OBVIOUS
    <2>1. r \in Entries
        BY ElementOfSeq DEF BatchInv, ToSet
    <2>2. CASE r \in RangesOf("holding") \cup RangesOf("input")
        BY <2>2, Roomy DEF RangesOf
    <2>3. CASE \E i \in BitMetrics : r = BitOf(i)
        <3>1. PICK i \in BitMetrics : r = BitOf(i)
            BY <2>3
        <3>2. metrics[i].addr \in Nat
            BY OfTypeFacts DEF BatchInv, BitMetrics
        <3>3. MaxRegistersPerRead \in Nat /\ 1 <= MaxRegistersPerRead
            BY Roomy, BatchAssumption DEF Roomy
        <3>4. QED BY <3>1, <3>2, <3>3 DEF BitOf, LegalBelowTop
    <2>4. QED BY <2>1, <2>2, <2>3 DEF Entries
<1>2. QED BY <1>1, InitBatch, NextBatch, PTL DEF Spec

\* Hence every range is legal if no metric is at the top address.
THEOREM RangesLegalHolds ==
    ASSUME Roomy, \A m \in Listed : m.addr < U16Max
    PROVE  Spec => []RangesLegal
<1>1. BatchInv => RangesLegal
    <2> SUFFICES ASSUME BatchInv, NEW r \in ToSet(ranges)
                 PROVE  r.end - r.start \in 1 .. MaxRegistersPerRead
        BY DEF RangesLegal
    <2>1. r \in Entries
        BY ElementOfSeq DEF BatchInv, ToSet
    <2>2. ASSUME NEW type \in RegisterTypes, r \in RangesOf(type)
          PROVE  r.end - r.start \in 1 .. MaxRegistersPerRead
        <3>1. PICK i \in OfType(type) : r.start = metrics[i].addr
            BY <2>2 DEF RangesOf
        <3>2. r.start \in 0 .. U16Max /\ r.end \in 0 .. U16Max /\ LegalBelowTop(r)
            BY <2>2, Roomy DEF RangesOf
        <3>3. r.start < U16Max
            BY <3>1, OfTypeFacts, MetricFacts DEF BatchInv, ListOK, Indices
        <3>4. U16Max \in Nat /\ MaxRegistersPerRead \in Nat
            BY BatchAssumption
        <3>5. QED BY <3>2, <3>3, <3>4 DEF LegalBelowTop
    <2>3. CASE \E i \in BitMetrics : r = BitOf(i)
        <3>1. PICK i \in BitMetrics : r = BitOf(i)
            BY <2>3
        <3>2. metrics[i].addr \in Nat
            BY OfTypeFacts DEF BatchInv, BitMetrics
        <3>3. MaxRegistersPerRead \in Nat /\ 1 <= MaxRegistersPerRead
            BY Roomy, BatchAssumption DEF Roomy
        <3>4. QED BY <3>1, <3>2, <3>3 DEF BitOf
    <2>4. QED BY <2>1, <2>2, <2>3 DEF Entries, RegisterTypes
<1>2. QED BY <1>1, InitBatch, NextBatch, PTL DEF Spec

\* What FailuresIsolated says of the metrics that end below the top address.
IsolatedBelowTop ==
    Done => \A i \in Indices :
        results[i].is # "decoded" /\ BelowTop(i) => metrics[i].addr = NoAddress \/ i \in lost

\* A metric that ends below the top address, has an address and is not decoded
\* in the end was lost by a read of it alone, never by its range or a neighbour,
\* whatever else is in the list (batch_read_coalesced: the fallback,
\* decode_metric).
THEOREM FailuresIsolatedBelowTop == Spec => []IsolatedBelowTop
<1>1. BatchInv => IsolatedBelowTop
    <2> SUFFICES ASSUME BatchInv, Done, NEW i \in Indices, results[i].is # "decoded", BelowTop(i)
                 PROVE  metrics[i].addr = NoAddress \/ i \in lost
        BY DEF IsolatedBelowTop
    <2>1. ToSet(fallback) = {} /\ ToSet(ranges) = {}
        BY DEF Done, ToSet
    <2>2. results[i] # Pending
        BY <2>1 DEF BatchInv, Results, Queued
    <2>3. results[i] = Failed
        BY <2>2 DEF BatchInv, Results, Decoded
    <2>4. QED BY <2>3 DEF BatchInv, Results
<1>2. QED BY <1>1, InitBatch, NextBatch, PTL DEF Spec

\* Hence failures are isolated if every metric ends below the top address.
THEOREM FailuresIsolatedHolds ==
    ASSUME \A m \in Listed : m.addr # NoAddress => m.addr + RegistersNeeded(m.data_type) <= U16Max
    PROVE  Spec => []FailuresIsolated
<1>1. BatchInv /\ IsolatedBelowTop => FailuresIsolated
    <2> SUFFICES ASSUME BatchInv, IsolatedBelowTop, Done, NEW i \in Indices,
                        results[i].is # "decoded", metrics[i].addr # NoAddress
                 PROVE  i \in lost
        BY DEF FailuresIsolated
    <2>1. metrics[i] \in Listed
        BY DEF BatchInv, ListOK, Indices
    <2>2. BelowTop(i)
        BY <2>1 DEF BelowTop, Count
    <2>3. QED BY <2>2 DEF IsolatedBelowTop
<1>2. Spec => []BatchInv
    BY InitBatch, NextBatch, PTL DEF Spec
<1>3. QED BY <1>1, <1>2, FailuresIsolatedBelowTop, PTL

-----------------------------------------------------------------------------
(* What is on the line *)

\* A request, and so its answer.
Message == [req : Requests, awaited : BOOLEAN]

\* Whatever on the line is awaited belongs to the read r.
Due(line, r) ==
    \A k \in 1 .. Len(line) : line[k].awaited => r # Nothing /\ line[k].req = r

AllAwaited(line) == \A k \in 1 .. Len(line) : line[k].awaited

\* The line without its first message.
LEMMA TailOfLine ==
    ASSUME NEW line \in Seq(Message), line # <<>>, NEW r, Due(line, r)
    PROVE  /\ Tail(line) \in Seq(Message)
           /\ Len(line) \in Nat \ {0}
           /\ Len(Tail(line)) = Len(line) - 1
           /\ Due(Tail(line), r)
           /\ AllAwaited(line) => AllAwaited(Tail(line))
<1>1. /\ Tail(line) \in Seq(Message)
      /\ Len(Tail(line)) = Len(line) - 1
      /\ \A k \in 1 .. Len(Tail(line)) : Tail(line)[k] = line[k + 1]
    BY HeadTailProperties, Zenon
<1>2. Len(line) \in Nat \ {0}
    BY EmptySeq, Zenon
<1>3. ASSUME NEW k \in 1 .. Len(Tail(line))
      PROVE  k + 1 \in 1 .. Len(line) /\ Tail(line)[k] = line[k + 1]
    BY <1>1, <1>2
<1>4. Due(Tail(line), r)
    BY <1>3, Zenon DEF Due
<1>5. AllAwaited(line) => AllAwaited(Tail(line))
    BY <1>3, Zenon DEF AllAwaited
<1>6. QED BY <1>1, <1>2, <1>4, <1>5

\* A message more, if it is one of the read's or not awaited.
LEMMA AppendToLine ==
    ASSUME NEW line \in Seq(Message), NEW msg \in Message, NEW r, Due(line, r),
           msg.awaited => r # Nothing /\ msg.req = r
    PROVE  /\ Append(line, msg) \in Seq(Message)
           /\ Len(line) \in Nat
           /\ Len(Append(line, msg)) = Len(line) + 1
           /\ Due(Append(line, msg), r)
           /\ AllAwaited(line) /\ msg.awaited => AllAwaited(Append(line, msg))
<1>1. /\ Append(line, msg) \in Seq(Message)
      /\ Len(Append(line, msg)) = Len(line) + 1
      /\ \A k \in 1 .. Len(line) : Append(line, msg)[k] = line[k]
      /\ Append(line, msg)[Len(line) + 1] = msg
    BY AppendProperties
<1>2. Len(line) \in Nat
    BY LenProperties, Zenon
<1>3. ASSUME NEW k \in 1 .. Len(Append(line, msg))
      PROVE  \/ k \in 1 .. Len(line) /\ Append(line, msg)[k] = line[k]
             \/ Append(line, msg)[k] = msg
    BY <1>1, <1>2
<1>4. Due(Append(line, msg), r)
    BY <1>3, Zenon DEF Due
<1>5. AllAwaited(line) /\ msg.awaited => AllAwaited(Append(line, msg))
    BY <1>3, Zenon DEF AllAwaited
<1>6. QED BY <1>1, <1>2, <1>4, <1>5

\* What the library leaves of the input is the end of it.
LEMMA LeftoversOfLine ==
    ASSUME input \in Seq(Message), NEW r, Due(input, r), NEW rest \in Leftovers
    PROVE  /\ rest \in Seq(Message)
           /\ Len(rest) \in 0 .. Len(input)
           /\ Due(rest, r)
           /\ AllAwaited(input) => AllAwaited(rest)
<1>0. Len(input) \in Nat /\ input \in [1 .. Len(input) -> Message]
    BY LenProperties, Zenon
<1>1. PICK k \in 1 .. Len(input) + 1 : rest = SubSeq(input, k, Len(input))
    BY DEF Leftovers
<1>2. \A i \in k .. Len(input) : input[i] \in Message
    BY <1>0
<1>3. k \in Int /\ Len(input) \in Int
    BY <1>0
<1>4. /\ rest \in Seq(Message)
      /\ Len(rest) = IF k <= Len(input) THEN Len(input) - k + 1 ELSE 0
      /\ \A i \in 1 .. Len(input) - k + 1 : rest[i] = input[k + i - 1]
    <2>1. /\ SubSeq(input, k, Len(input)) \in Seq(Message)
          /\ Len(SubSeq(input, k, Len(input))) = IF k <= Len(input) THEN Len(input) - k + 1 ELSE 0
          /\ \A i \in 1 .. Len(input) - k + 1 : SubSeq(input, k, Len(input))[i] = input[k + i - 1]
        BY <1>2, <1>3, SubSeqProperties
    <2>2. QED BY <1>1, <2>1, Zenon
<1>5. Len(rest) \in 0 .. Len(input)
    BY <1>0, <1>4
<1>6. ASSUME NEW i \in 1 .. Len(rest)
      PROVE  k + i - 1 \in 1 .. Len(input) /\ rest[i] = input[k + i - 1]
    BY <1>0, <1>4
<1>7. Due(rest, r)
    BY <1>6, Zenon DEF Due
<1>8. AllAwaited(input) => AllAwaited(rest)
    BY <1>6, Zenon DEF AllAwaited
<1>9. QED BY <1>4, <1>5, <1>7, <1>8

\* When nobody waits any more, nothing on the line is awaited.
LEMMA UnawaitedLine ==
    ASSUME NEW line \in Seq(Message)
    PROVE  /\ Unawaited(line) \in Seq(Message)
           /\ Len(Unawaited(line)) = Len(line)
           /\ Due(Unawaited(line), Nothing)
<1>1. Len(line) \in Nat /\ line \in [1 .. Len(line) -> Message] /\ DOMAIN line = 1 .. Len(line)
    BY LenProperties, Zenon
<1>2. ASSUME NEW k \in 1 .. Len(line)
      PROVE  [line[k] EXCEPT !.awaited = FALSE] \in Message /\ ~[line[k] EXCEPT !.awaited = FALSE].awaited
    BY <1>1, <1>2 DEF Message
<1>3. Unawaited(line) = [k \in 1 .. Len(line) |-> [line[k] EXCEPT !.awaited = FALSE]]
    BY <1>1 DEF Unawaited
<1>4. Unawaited(line) \in [1 .. Len(line) -> Message]
    BY <1>2, <1>3
<1>5. Unawaited(line) \in Seq(Message) /\ Len(Unawaited(line)) = Len(line)
    BY <1>1, <1>4
<1>6. Due(Unawaited(line), Nothing)
    BY <1>2, <1>3, <1>5 DEF Due
<1>7. QED BY <1>5, <1>6

\* An empty line.
LEMMA EmptyLine ==
    /\ <<>> \in Seq(Message) /\ Len(<<>>) = 0
    /\ \A r : Due(<<>>, r)
    /\ AllAwaited(<<>>)
    /\ \A line \in Seq(Message) :
          /\ Len(line) \in Nat
          /\ Len(line) = 0 => line = <<>> /\ AllAwaited(line)
<1>1. /\ <<>> \in Seq(Message) /\ Len(<<>>) = 0
      /\ \A line \in Seq(Message) : line # <<>> => Len(line) \in Nat \ {0}
    BY EmptySeq
<1>2. (\A r : Due(<<>>, r)) /\ AllAwaited(<<>>)
    BY <1>1 DEF Due, AllAwaited
<1>3. ASSUME NEW line \in Seq(Message)
      PROVE  Len(line) \in Nat /\ (Len(line) = 0 => line = <<>>)
    BY <1>1, LenProperties
<1>4. QED BY <1>1, <1>2, <1>3

-----------------------------------------------------------------------------
(* The invariant *)

\* Until a read is given up there is at most the request of the read under way,
\* and whatever is on the line is awaited.
QuietLine ==
    ~givenUp =>
        /\ AllAwaited(pending) /\ AllAwaited(input)
        /\ Len(pending) + Len(input) <= IF reading = Nothing THEN 0 ELSE 1

LineInv ==
    /\ transport \in {"tcp", "rtu"}
    /\ reading \in Requests \cup {Nothing}
    /\ pending \in Seq(Message) /\ input \in Seq(Message)
    /\ Due(pending, reading) /\ Due(input, reading)
    /\ QuietLine

\* Initially the line is empty.
LEMMA LineInit == SessionInit => LineInv
BY EmptyLine DEF SessionInit, LineInv, QuietLine

\* A line with nothing on it is as good for the next read as for the last.
LEMMA EmptyKeepsInv ==
    ASSUME pending' = <<>>, input' = <<>>, transport' \in {"tcp", "rtu"},
           reading' \in Requests \cup {Nothing}
    PROVE  LineInv'
BY EmptyLine DEF LineInv, QuietLine

\* A new request goes out behind what nobody waits for.
LEMMA BeginReadStep ==
    ASSUME LineInv, NEW r \in Requests, BeginRead(r)
    PROVE  LineInv'
<1> DEFINE msg == [req |-> r, awaited |-> TRUE]
<1>1. /\ reading = Nothing /\ reading' = r /\ transport' = transport
      /\ input' \in Leftovers /\ pending' = Append(pending, msg)
      /\ givenUp' = (givenUp /\ pending \o input' # <<>>)
    BY DEF BeginRead, Free, Idle
<1>2. msg \in Message /\ msg.req = r /\ msg.awaited
    BY DEF Message
<1>3. r # Nothing
    BY NothingAssumption
<1>4. Due(pending, r) /\ Due(input, r)
    BY <1>1, Zenon DEF LineInv, Due
<1>5. /\ pending' \in Seq(Message) /\ Due(pending', r)
      /\ Len(pending') = Len(pending) + 1
      /\ AllAwaited(pending) => AllAwaited(pending')
    BY <1>1, <1>2, <1>3, <1>4, AppendToLine DEF LineInv
<1>6. /\ input' \in Seq(Message) /\ Due(input', r)
      /\ Len(input') \in 0 .. Len(input)
    BY <1>1, <1>4, LeftoversOfLine DEF LineInv
<1>7. ASSUME ~givenUp' PROVE Len(pending) = 0 /\ Len(input') = 0
    <2>1. CASE ~givenUp
        BY <1>1, <1>6, <2>1, EmptyLine DEF LineInv, QuietLine
    <2>2. CASE givenUp
        <3>1. pending \o input' = <<>>
            BY <1>1, <1>7, <2>2
        <3>2. pending = <<>> /\ input' = <<>>
            BY <3>1, <1>6, ConcatEqualIffEmpty DEF LineInv
        <3>3. QED BY <3>2, EmptyLine
    <2>3. QED BY <2>1, <2>2
<1>8. QuietLine'
    <2>1. SUFFICES ASSUME ~givenUp'
                   PROVE  AllAwaited(pending') /\ AllAwaited(input') /\ Len(pending') + Len(input') <= 1
        BY <1>1, <1>3 DEF QuietLine
    <2>2. QED BY <2>1, <1>5, <1>6, <1>7, EmptyLine DEF LineInv
<1>9. QED BY <1>1, <1>5, <1>6, <1>8 DEF LineInv

\* However a read ends, nothing on the line is awaited any more.
LEMMA EndReadStep ==
    ASSUME LineInv, NEW rest \in Seq(Message), NEW got, EndRead(rest, got)
    PROVE  LineInv'
<1>1. /\ reading' = Nothing /\ transport' = transport
      /\ pending' = Unawaited(pending) /\ input' = Unawaited(rest)
      /\ givenUp' = (pending \o rest # <<>>)
    BY DEF EndRead
<1>2. /\ pending' \in Seq(Message) /\ Due(pending', Nothing) /\ Len(pending') = Len(pending)
      /\ input' \in Seq(Message) /\ Due(input', Nothing) /\ Len(input') = Len(rest)
    BY <1>1, UnawaitedLine DEF LineInv
<1>3. ASSUME ~givenUp' PROVE Len(pending') = 0 /\ Len(input') = 0
    <2>1. pending \o rest = <<>>
        BY <1>1, <1>3
    <2>2. pending = <<>> /\ rest = <<>>
        BY <2>1, ConcatEqualIffEmpty DEF LineInv
    <2>3. QED BY <2>2, <1>2, EmptyLine
<1>4. QuietLine'
    <2>1. SUFFICES ASSUME ~givenUp'
                   PROVE  AllAwaited(pending') /\ AllAwaited(input') /\ Len(pending') + Len(input') <= 0
        BY <1>1 DEF QuietLine
    <2>2. QED BY <2>1, <1>2, <1>3, EmptyLine
<1>5. QED BY <1>1, <1>2, <1>4 DEF LineInv

\* The device moves a message from one line to the other, or drops it.
LEMMA DeviceStep ==
    ASSUME LineInv, DeviceAnswers
    PROVE  LineInv'
<1>1. /\ pending # <<>> /\ pending' = Tail(pending)
      /\ input' = input \/ input' = Append(input, Head(pending))
      /\ UNCHANGED <<transport, reading, givenUp>>
    BY DEF DeviceAnswers
<1>2. /\ pending' \in Seq(Message) /\ Due(pending', reading)
      /\ Len(pending) \in Nat \ {0} /\ Len(pending') = Len(pending) - 1
      /\ AllAwaited(pending) => AllAwaited(pending')
    BY <1>1, TailOfLine DEF LineInv
<1>3. /\ Head(pending) \in Message
      /\ Head(pending).awaited => reading # Nothing /\ Head(pending).req = reading
      /\ AllAwaited(pending) => Head(pending).awaited
    <2>1. Head(pending) = pending[1] /\ Head(pending) \in Message
        BY <1>1, HeadTailProperties DEF LineInv
    <2>2. 1 \in 1 .. Len(pending)
        BY <1>2
    <2>3. QED BY <2>1, <2>2, Zenon DEF LineInv, Due, AllAwaited
<1>4. /\ input' \in Seq(Message) /\ Due(input', reading)
      /\ Len(input) \in Nat /\ Len(input') \in Len(input) .. Len(input) + 1
      /\ AllAwaited(pending) /\ AllAwaited(input) => AllAwaited(input')
    <2>1. CASE input' = input
        BY <2>1, EmptyLine DEF LineInv
    <2>2. CASE input' = Append(input, Head(pending))
        BY <2>2, <1>3, AppendToLine DEF LineInv
    <2>3. QED BY <1>1, <2>1, <2>2
<1>5. QuietLine'
    BY <1>1, <1>2, <1>4 DEF LineInv, QuietLine
<1>6. QED BY <1>1, <1>2, <1>4, <1>5 DEF LineInv

\* Every step keeps the invariant.
LEMMA LineStep == LineInv /\ [SessionNext]_sessionVars => LineInv'
<1> SUFFICES ASSUME LineInv, [SessionNext]_sessionVars PROVE LineInv'
    OBVIOUS
<1>1. CASE TcpConnects
    BY <1>1, EmptyKeepsInv DEF LineInv, TcpConnects
<1>2. CASE RtuOpens
    <2>1. /\ input' = <<>> /\ pending' = pending /\ reading' = reading /\ transport' = transport
          /\ reading = Nothing /\ givenUp' = (pending # <<>>)
        BY <1>2 DEF RtuOpens, Idle
    <2>2. CASE pending = <<>>
        BY <2>1, <2>2, EmptyKeepsInv DEF LineInv
    <2>3. CASE pending # <<>>
        <3>1. givenUp'
            BY <2>1, <2>3
        <3>2. QED BY <2>1, <3>1, EmptyLine DEF LineInv, QuietLine
    <2>4. QED BY <2>2, <2>3
<1>3. CASE Disconnects
    <2>1. /\ input' = <<>> /\ (pending' = pending \/ pending' = <<>>)
          /\ reading' = reading /\ transport' = transport /\ givenUp' = givenUp
        BY <1>3 DEF Disconnects
    <2>2. CASE pending' = <<>>
        BY <2>1, <2>2, EmptyKeepsInv DEF LineInv
    <2>3. CASE pending' = pending
        <3>1. QuietLine'
            <4>1. Len(pending) \in Nat /\ Len(input) \in Nat /\ Len(input') = 0 /\ AllAwaited(input')
                BY <2>1, EmptyLine DEF LineInv
            <4>2. QED BY <2>1, <2>3, <4>1 DEF LineInv, QuietLine
        <3>2. QED BY <2>1, <2>3, <3>1, EmptyLine DEF LineInv
    <2>4. QED BY <2>1, <2>2, <2>3
<1>4. ASSUME NEW r \in Requests, BeginRead(r) PROVE LineInv'
    BY <1>4, BeginReadStep
<1>5. ASSUME NEW r \in Requests, ReadRefused(r) PROVE LineInv'
    BY <1>5 DEF ReadRefused, lineVars, Idle, LineInv, QuietLine
<1>6. CASE ReceiveAnswer
    <2>1. Tail(input) \in Seq(Message)
        BY <1>6, TailOfLine DEF LineInv, ReceiveAnswer
    <2>2. QED BY <1>6, <2>1, EndReadStep DEF ReceiveAnswer
<1>7. CASE TimeOut
    BY <1>7, EndReadStep DEF TimeOut, LineInv
<1>8. CASE TransportDies
    BY <1>8, EmptyKeepsInv DEF TransportDies, LineInv
<1>9. CASE DeviceAnswers
    BY <1>9, DeviceStep
<1>10. CASE UNCHANGED sessionVars
    BY <1>10 DEF sessionVars, LineInv, QuietLine
<1>11. QED BY <1>1, <1>2, <1>3, <1>4, <1>5, <1>6, <1>7, <1>8, <1>9, <1>10 DEF SessionNext

\* The invariant holds throughout.
THEOREM LineCorrect == SessionSpec => []LineInv
BY LineInit, LineStep, PTL DEF SessionSpec

-----------------------------------------------------------------------------
(* Theorems *)

\* Until a read is given up, one request at most is on the line, and none when
\* no read is under way: what the half-duplex line of RTU relies on.
THEOREM OneOutstandingHolds == SessionSpec => []OneOutstanding
<1>1. LineInv => OneOutstanding
    <2> SUFFICES ASSUME LineInv, ~givenUp
                 PROVE  Len(Lines) <= IF reading = Nothing THEN 0 ELSE 1
        BY DEF OneOutstanding
    <2>1. Len(Lines) = Len(pending) + Len(input)
        BY ConcatProperties DEF Lines, LineInv
    <2>2. QED BY <2>1 DEF LineInv, QuietLine
<1>2. QED BY <1>1, LineCorrect, PTL

\* A read returns its own answer, except over RTU after a read was given up.
THEOREM AnswersOwnHolds == SessionSpec => AnswersOwn
<1> DEFINE Stray == last' # last /\ last'.got # Nothing /\ last'.got # last'.asked
           Excused == transport = "rtu" /\ givenUp
<1>1. LineInv /\ [SessionNext]_sessionVars => [Stray => Excused]_sessionVars
    <2> SUFFICES ASSUME LineInv, [SessionNext]_sessionVars, Stray PROVE Excused
        OBVIOUS
    <2>1. CASE ReceiveAnswer
        <3>1. input # <<>> /\ last'.asked = reading
              /\ last'.got = IF Matches(Head(input)) THEN Head(input).req ELSE Nothing
            BY <2>1 DEF ReceiveAnswer, EndRead
        <3>2. Matches(Head(input)) /\ Head(input).req # reading
            BY <3>1
        <3>3. Head(input) = input[1] /\ 1 \in 1 .. Len(input)
            BY <3>1, TailOfLine DEF LineInv
        <3>4. ~Head(input).awaited
            BY <3>2, <3>3, Zenon DEF LineInv, Due
        <3>5. transport = "rtu"
            BY <3>2, <3>4 DEF Matches
        <3>6. givenUp
            BY <3>3, <3>4, Zenon DEF LineInv, QuietLine, AllAwaited
        <3>7. QED BY <3>5, <3>6
    <2>2. CASE TimeOut
        BY <2>2 DEF TimeOut, EndRead
    <2>3. ASSUME NEW r \in Requests, ReadRefused(r) PROVE Excused
        BY <2>3 DEF ReadRefused
    <2>4. CASE TransportDies
        BY <2>4 DEF TransportDies
    <2>5. CASE TcpConnects \/ RtuOpens \/ Disconnects \/ DeviceAnswers
        BY <2>5 DEF TcpConnects, RtuOpens, Disconnects, DeviceAnswers
    <2>6. ASSUME NEW r \in Requests, BeginRead(r) PROVE Excused
        BY <2>6 DEF BeginRead
    <2>7. CASE UNCHANGED sessionVars
        BY <2>7 DEF sessionVars
    <2>8. QED BY <2>1, <2>2, <2>3, <2>4, <2>5, <2>6, <2>7 DEF SessionNext
<1>2. QED BY <1>1, LineCorrect, PTL DEF SessionSpec, AnswersOwn
=============================================================================
