--------------------------- MODULE MCModbusBatch ---------------------------
(* Instances of ModbusBatch for TLC: 16 addresses, ranges of at most 5       *)
(* registers, gaps of at most 2.                                             *)
EXTENDS ModbusBatch

\* Every width meets every byte order; the types of a width differ only in how
\* the bytes are interpreted, but for u8 and bool.
MCMetric(type, addr, width) ==
    [type |-> type, addr |-> addr,
     data_type |-> CASE width = 1 -> <<"u16", "u8", "i16", "bool">>[(addr % 4) + 1]
                     [] width = 2 -> "f32"
                     [] width = 4 -> "u64",
     byte_order |-> <<"big_endian", "little_endian", "mid_big_endian", "mid_little_endian">>[(addr % 4) + 1]]

Unaddressed ==
    [type |-> "holding", addr |-> NoAddress, data_type |-> "u16", byte_order |-> "big_endian"]

\* Overlapping, nested, adjacent, near and far metrics below the top address.
MCBelowTop ==
    {MCMetric("holding", addr, width) : addr \in 3 .. 9, width \in {1, 2, 4}}
      \cup {MCMetric("input", 4, 1), MCMetric("coil", 7, 1), Unaddressed}

\* Metrics that reach the top address, some of which no configuration may have.
MCAtTop == {MCMetric("holding", addr, width) : addr \in 11 .. 15, width \in {1, 2, 4}}
=============================================================================
