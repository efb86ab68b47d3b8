------------------------------- MODULE Decoder -------------------------------
(***************************************************************************)
(* decode and decode_bytes (src/reader/decoder.rs): which bytes of what    *)
(* was read make up a metric's value, and in which order.  A register is   *)
(* abstract and has a high and a low byte; a decoded number is the         *)
(* sequence of bytes that from_be_bytes turns into a number of the type,   *)
(* the most significant first.  Scale, offset and the conversion to f64    *)
(* are left out.                                                           *)
(***************************************************************************)
EXTENDS Integers, SequencesExt

DataTypes == {"bool", "u8", "u16", "i16", "u32", "i32", "f32", "u64", "i64", "f64"}

ByteOrders == {"big_endian", "little_endian", "mid_big_endian", "mid_little_endian"}

RegistersNeeded(type) ==
    CASE type \in {"bool", "u8", "u16", "i16"} -> 1
      [] type \in {"u32", "i32", "f32"} -> 2
      [] type \in {"u64", "i64", "f64"} -> 4

Hi(reg) == <<reg, "hi">>
Lo(reg) == <<reg, "lo">>

\* to_be_bytes, and the same with the two bytes swapped.
Be(reg) == <<Hi(reg), Lo(reg)>>
Le(reg) == <<Lo(reg), Hi(reg)>>

Reorder32(regs, order) ==
    CASE order = "big_endian" -> Be(regs[1]) \o Be(regs[2])
      [] order = "little_endian" -> Le(regs[2]) \o Le(regs[1])
      [] order = "mid_big_endian" -> Be(regs[2]) \o Be(regs[1])
      [] order = "mid_little_endian" -> Le(regs[1]) \o Le(regs[2])

Reorder64(regs, order) ==
    CASE order = "big_endian" -> Be(regs[1]) \o Be(regs[2]) \o Be(regs[3]) \o Be(regs[4])
      [] order = "little_endian" -> Le(regs[4]) \o Le(regs[3]) \o Le(regs[2]) \o Le(regs[1])
      [] order = "mid_big_endian" -> Be(regs[3]) \o Be(regs[4]) \o Be(regs[1]) \o Be(regs[2])
      [] order = "mid_little_endian" -> Le(regs[1]) \o Le(regs[2]) \o Le(regs[3]) \o Le(regs[4])

Failed == [is |-> "failed"]
Decoded(bytes) == [is |-> "decoded", bytes |-> bytes]

\* Types of one register do not look at the byte order, a wider list of
\* registers than the type needs is cut, a shorter one is an error.
Decode(regs, type, order) ==
    IF Len(regs) < RegistersNeeded(type) THEN Failed
    ELSE CASE type = "u8" -> Decoded(<<Lo(regs[1])>>)
           [] type \in {"bool", "u16", "i16"} -> Decoded(Be(regs[1]))
           [] type \in {"u32", "i32", "f32"} -> Decoded(Reorder32(regs, order))
           [] type \in {"u64", "i64", "f64"} -> Decoded(Reorder64(regs, order))

-----------------------------------------------------------------------------
(* Buses that deliver bytes: I2C, SPI, I3C *)

ByteCount(type) ==
    CASE type \in {"bool", "u8"} -> 1
      [] type \in {"u16", "i16"} -> 2
      [] type \in {"u32", "i32", "f32"} -> 4
      [] type \in {"u64", "i64", "f64"} -> 8

LittleEndian == {"little_endian", "mid_little_endian"}

\* decode_bytes: from_le_bytes or from_be_bytes of the first bytes; there are
\* no words to swap.
DecodeBytes(bytes, type, order) ==
    LET value == SubSeq(bytes, 1, ByteCount(type))
    IN  IF Len(bytes) < ByteCount(type) THEN Failed
        ELSE Decoded(IF order \in LittleEndian THEN Reverse(value) ELSE value)
=============================================================================
