------------------------------- MODULE IntBytes -------------------------------
(***************************************************************************)
(* Integers as bytes: to_be_bytes, from_le_bytes and their kin of Rust's   *)
(* integer types (external), and sign_extend of the bytes crate            *)
(* (patches/bytes/src/buf/buf_impl.rs).  A byte has Radix values, so that  *)
(* a 16-byte integer stays within TLC's; a negative integer is stored as   *)
(* its two's complement, which floored division gives by itself.  A float  *)
(* is its bit pattern (to_bits, from_bits).                                *)
(***************************************************************************)
EXTENDS Integers, Sequences, SequencesExt

CONSTANTS
    Radix,              \* values of a byte (256)
    target_endian       \* "le" on every target of the repository

ASSUME RadixAssumption == Radix \in Nat \ {0} /\ Radix % 2 = 0
ASSUME EndianAssumption == target_endian \in {"be", "le"}

Byte == 0 .. Radix - 1

AsSigned(u, size) == IF 2 * u >= Radix ^ size THEN u - Radix ^ size ELSE u

from_be_bytes(s) == FoldLeft(LAMBDA acc, byte : acc * Radix + byte, 0, s)
to_be_bytes(v, size) == [i \in 1..size |-> (v \div Radix ^ (size - i)) % Radix]

(* The order "ne" is the target's own.                                     *)
InOrder(order, s) ==
    LET o == IF order = "ne" THEN target_endian ELSE order
    IN  IF o = "le" THEN Reverse(s) ELSE s
from_bytes(s, signed, order) ==
    LET u == from_be_bytes(InOrder(order, s))
    IN  IF signed THEN AsSigned(u, Len(s)) ELSE u
to_bytes(v, size, order) == InOrder(order, to_be_bytes(v, size))

(* A u64 shifted up until the sign bit of its lowest nbytes is on top, and *)
(* back as an i64.  The faulty variant shifts back without the sign.       *)
sign_extend_Logical(val, nbytes) == val
sign_extend(val, nbytes) ==
    LET shift == Radix ^ (8 - nbytes)
    IN  AsSigned((val * shift) % Radix ^ 8, 8) \div shift
==============================================================================
