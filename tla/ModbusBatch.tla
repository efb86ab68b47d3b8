----------------------------- MODULE ModbusBatch -----------------------------
(***************************************************************************)
(* Reading a list of metrics from a Modbus device                          *)
(* (src/reader/modbus/batch.rs, batch_read_coalesced): register metrics    *)
(* are sorted by address and merged into ranges, one read per range; when  *)
(* a range cannot be read its metrics are read one by one; coils and       *)
(* discrete inputs are always read one by one.  A step is one bus read.    *)
(*                                                                         *)
(* The content of a register is abstracted to its identity <<type, addr>>, *)
(* so a decoded metric is the sequence of the bytes of such registers it   *)
(* was decoded from (Decoder); a bit is a sequence of one.  Addresses and  *)
(* counts are u16: U16Max is 65535 in the code and stands for it here.     *)
(***************************************************************************)
EXTENDS Decoder, FiniteSets

CONSTANTS
    U16Max,            \* the largest address
    MaxCoalesceGap,    \* MAX_COALESCE_GAP
    MaxRegistersPerRead,
    MetricConfigs,     \* the metrics a configuration file may contain
    Checked,           \* Config::load, not load_for_pull, has read the file
    ListLength         \* bound of the model: metrics in the list

RegisterTypes == {"holding", "input"}
BitTypes == {"coil", "discrete"}

\* The address of a metric that has none configured.
NoAddress == -1

ASSUME BatchAssumption ==
    /\ {U16Max, MaxCoalesceGap, MaxRegistersPerRead} \subseteq Nat
    /\ MetricConfigs \subseteq [type : RegisterTypes \cup BitTypes, addr : -1 .. U16Max,
                                data_type : DataTypes, byte_order : ByteOrders]
    /\ Checked \in BOOLEAN
    /\ ListLength \in Nat

(* What Config::validate accepts.  pull and watch do not call it. *)

KindsAgree(m) ==
    /\ m.type \in BitTypes <=> m.data_type = "bool"
    /\ m.data_type # "u8"

FitsAddressSpace(m) ==
    /\ m.addr # NoAddress
    /\ m.addr + RegistersNeeded(m.data_type) <= U16Max + 1

Listed == {m \in MetricConfigs : Checked => KindsAgree(m) /\ FitsAddressSpace(m)}

VARIABLES
    metrics,   \* the list, as set by set_metrics
    ranges,    \* ranges and bit metrics still to be read
    fallback,  \* indices of a failed range's metrics still to be read
    results,   \* index -> result
    lost,      \* history: indices the read of which alone failed
    calls      \* read_count

vars == <<metrics, ranges, fallback, results, lost, calls>>

Indices == DOMAIN metrics
Least(a, b) == IF a <= b THEN a ELSE b
Greatest(a, b) == IF a >= b THEN a ELSE b

SaturatingAdd(a, b) == Least(a + b, U16Max)
SaturatingSub(a, b) == Greatest(a - b, 0)

-----------------------------------------------------------------------------
(* Coalescing *)

\* metric.data_type.register_count()
Count(i) == RegistersNeeded(metrics[i].data_type)

\* The range of one metric alone; end is exclusive.
RangeOf(i) ==
    [type |-> metrics[i].type, start |-> metrics[i].addr,
     end |-> SaturatingAdd(metrics[i].addr, Count(i)), members |-> <<i>>]

\* Mutant of FitsIn: only the gap decides.
FitsInGapOnly(item, range) == SaturatingSub(item.start, range.end) <= MaxCoalesceGap

FitsIn(item, range) ==
    /\ SaturatingSub(item.start, range.end) <= MaxCoalesceGap
    /\ SaturatingSub(item.end, range.start) <= MaxRegistersPerRead

\* Mutant of Merge: the range ends where its last member does.
MergeLastEnd(range, item) ==
    [range EXCEPT !.end = item.end, !.members = @ \o item.members]

Merge(range, item) ==
    [range EXCEPT !.end = Greatest(@, item.end), !.members = @ \o item.members]

Extend(done, item) ==
    IF done # <<>> /\ FitsIn(item, Last(done))
    THEN Front(done) \o <<Merge(Last(done), item)>>
    ELSE Append(done, item)

\* The members of a finite set in the order that puts j before k if Before(j, k).
InOrder(set, Before(_, _)) ==
    CHOOSE order \in SetToSeqs(set) :
        \A j, k \in DOMAIN order : j < k => Before(order[j], order[k])

\* A stable order by address.
ByAddr(i, j) ==
    \/ metrics[i].addr < metrics[j].addr
    \/ metrics[i].addr = metrics[j].addr /\ i < j

\* Metrics of one register type.
OfType(type) == {i \in Indices : metrics[i].type = type /\ metrics[i].addr # NoAddress}

SortedByAddr(type) == InOrder(OfType(type), ByAddr)

Coalesced(type) ==
    LET sorted == SortedByAddr(type)
        merged[k \in 0 .. Len(sorted)] ==
            IF k = 0 THEN <<>> ELSE Extend(merged[k - 1], RangeOf(sorted[k]))
    IN  merged[Len(sorted)]

\* The entry of one bit metric.
BitOf(i) ==
    [type |-> "bit", start |-> metrics[i].addr, end |-> metrics[i].addr + 1, members |-> <<i>>]

\* One for each of them, in the order of the list.
Bits ==
    LET bits == InOrder(OfType("coil") \cup OfType("discrete"), <)
    IN  [k \in DOMAIN bits |-> BitOf(bits[k])]

-----------------------------------------------------------------------------
(* Reading *)

Pending == [is |-> "pending"]

\* The registers from addr on, as the device sends them.
Registers(type, addr, count) == [k \in 1 .. count |-> <<type, addr + k - 1>>]

\* The bits and registers a metric is made of.
Own(i) ==
    Registers(metrics[i].type, metrics[i].addr,
              IF metrics[i].type \in BitTypes THEN 1 ELSE Count(i))

\* The value of a metric: a bit as it is, registers as decode() orders them.
Value(i, regs) ==
    IF metrics[i].type \in BitTypes THEN Decoded(regs)
    ELSE Decode(regs, metrics[i].data_type, metrics[i].byte_order)

\* validate_register_count lets the read through, and the device has them all.
Readable(addr, count) ==
    /\ count \in 1 .. MaxRegistersPerRead
    /\ addr + count - 1 <= U16Max

\* Mutant of DecodeMetric: every metric is cut from the start of the buffer.
DecodeMetricAtStart(i, range) ==
    IF metrics[i].addr - range.start + Count(i) > range.end - range.start
    THEN Failed
    ELSE Value(i, Registers(range.type, range.start, Count(i)))

\* decode_metric: the metric's part of the buffer, if it is in there.
DecodeMetric(i, range) ==
    IF metrics[i].addr - range.start + Count(i) > range.end - range.start
    THEN Failed
    ELSE Value(i, SubSeq(Registers(range.type, range.start, range.end - range.start),
                         metrics[i].addr - range.start + 1,
                         metrics[i].addr - range.start + Count(i)))

Init ==
    /\ metrics \in [1 .. ListLength -> Listed]
    /\ ranges = Coalesced("holding") \o Coalesced("input") \o Bits
    /\ fallback = <<>>
    /\ results = [i \in Indices |-> IF metrics[i].addr = NoAddress THEN Failed ELSE Pending]
    /\ lost = {}
    /\ calls = 0

\* A range is read and split.
ReadRange ==
    /\ fallback = <<>> /\ ranges # <<>>
    /\ LET range == Head(ranges) IN
          /\ range.type # "bit"
          /\ Readable(range.start, range.end - range.start)
          /\ results' = [i \in Indices |-> IF i \in ToSet(range.members)
                                           THEN DecodeMetric(i, range) ELSE results[i]]
    /\ ranges' = Tail(ranges)
    /\ calls' = calls + 1
    /\ UNCHANGED <<metrics, fallback, lost>>

FallbackFor(range) == range.members

\* A range read is rejected, times out or gets an exception: the metrics in it
\* are read one by one.
RangeFails ==
    /\ fallback = <<>> /\ ranges # <<>>
    /\ Head(ranges).type # "bit"
    /\ fallback' = FallbackFor(Head(ranges))
    /\ ranges' = Tail(ranges)
    /\ calls' = calls + 1
    /\ UNCHANGED <<metrics, results, lost>>

\* The next metric to be read on its own, if any: fallbacks go first.
TakeSingle(i) ==
    \/ /\ fallback # <<>> /\ i = Head(fallback)
       /\ fallback' = Tail(fallback) /\ UNCHANGED ranges
    \/ /\ fallback = <<>> /\ ranges # <<>>
       /\ Head(ranges).type = "bit" /\ i = Head(ranges).members[1]
       /\ ranges' = Tail(ranges) /\ UNCHANGED fallback

ReadSingle(i) ==
    /\ TakeSingle(i)
    /\ Readable(metrics[i].addr, Len(Own(i)))
    /\ results' = [results EXCEPT ![i] = Value(i, Own(i))]
    /\ calls' = calls + 1
    /\ UNCHANGED <<metrics, lost>>

SingleFails(i) ==
    /\ TakeSingle(i)
    /\ results' = [results EXCEPT ![i] = Failed]
    /\ lost' = lost \cup {i}
    /\ calls' = calls + 1
    /\ UNCHANGED metrics

Next ==
    \/ ReadRange
    \/ RangeFails
    \/ \E i \in Indices : ReadSingle(i) \/ SingleFails(i)

Spec == Init /\ [][Next]_vars

-----------------------------------------------------------------------------
(* Properties *)

Done == ranges = <<>> /\ fallback = <<>>

\* Ranges and fallbacks hold metrics of the list, and no metric costs more than
\* two calls: one for its range, one of its own.
TypeOK ==
    /\ ToSet(fallback) \subseteq Indices
    /\ UNION {ToSet(range.members) : range \in ToSet(ranges)} \subseteq Indices
    /\ \A i \in Indices : results[i].is \in {"pending", "failed", "decoded"}
    /\ lost \subseteq Indices
    /\ calls \in 0 .. 2 * ListLength

\* The bytes of a metric's own registers as they come over the wire.
OwnBytes(i) == [k \in 1 .. 2 * Count(i) |-> <<Own(i)[(k + 1) \div 2], IF k % 2 = 1 THEN "hi" ELSE "lo">>]

\* Reference for the byte orders: where the k-th most significant of n bytes is
\* on the wire.  mid_big swaps the halves, mid_little the bytes of each register.
WirePosition(order, n, k) ==
    CASE order = "big_endian" -> k
      [] order = "little_endian" -> n + 1 - k
      [] order = "mid_big_endian" -> ((k - 1 + n \div 2) % n) + 1
      [] order = "mid_little_endian" -> IF k % 2 = 1 THEN k + 1 ELSE k - 1

ExpectedBytes(i) ==
    LET n == 2 * Count(i)
    IN  IF metrics[i].type \in BitTypes THEN Own(i)
        ELSE IF metrics[i].data_type = "u8" THEN <<OwnBytes(i)[2]>>
        ELSE IF n = 2 THEN OwnBytes(i)
        ELSE [k \in 1 .. n |-> OwnBytes(i)[WirePosition(metrics[i].byte_order, n, k)]]

\* However the list is sorted, merged, split and retried, a metric is decoded
\* from all bytes of its own registers, in its own byte order, and from no others.
DecodedFromOwnRegisters ==
    \A i \in Indices : results[i].is = "decoded" => results[i].bytes = ExpectedBytes(i)

\* Every range read is one the protocol allows, so that merging never costs a
\* rejected read: at least one register and at most MAX_REGISTERS_PER_READ.
RangesLegal ==
    \A range \in ToSet(ranges) : range.end - range.start \in 1 .. MaxRegistersPerRead

\* A failure stays where it belongs: when the list is done, a metric that has
\* an address has failed only if the read of it alone failed, whatever became
\* of its range and of its neighbours in it.
FailuresIsolated ==
    Done => \A i \in Indices :
        results[i].is # "decoded" => metrics[i].addr = NoAddress \/ i \in lost
=============================================================================
