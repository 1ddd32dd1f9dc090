------------------------------- MODULE Witness -------------------------------
(***************************************************************************)
(* The byte layout of WitnessArgs.lock, which the SDK writes and both the  *)
(* SDK and the on-chain lock read:                                         *)
(*                                                                         *)
(*     [u32 public key length][public key][u32 sig length][signature]      *)
(*                                                                         *)
(* buildWitnessLock and parseWitnessLock are sdk/src/witness.ts,           *)
(* parse_witness is contracts/dillithium-lock/src/main.rs.  Byte strings   *)
(* are sequences over 0..Radix-1.  A u32 is four little-endian digits; the *)
(* radix is a parameter (256 in the code) so that every byte string of a   *)
(* small instance can be enumerated.  No sum of the code can overflow:     *)
(* usize has 64 bits on CKB-VM and a JavaScript number is exact to 2^53.   *)
(***************************************************************************)
EXTENDS Integers, Sequences

CONSTANTS
    Radix,              \* number of byte values
    PUBLIC_KEY_LEN,     \* length of an ML-DSA-65 public key (1952)
    SIGNATURE_LEN       \* length of an ML-DSA-65 signature (3309)

Byte == 0 .. Radix - 1
Bytes == Seq(Byte)

(* Numbers that four digits can hold.                                      *)
U32 == {n \in Nat : ((n \div Radix) \div Radix) \div Radix < Radix}

ASSUME RadixAssumption == Radix \in Nat /\ Radix > 1
ASSUME LengthAssumption == PUBLIC_KEY_LEN \in U32 /\ SIGNATURE_LEN \in U32

(* DataView.setUint32 / getUint32 with littleEndian = true, and            *)
(* u32::from_le_bytes.                                                     *)
writeU32LE(n) ==
    LET q1 == n \div Radix
        q2 == q1 \div Radix
        q3 == q2 \div Radix
    IN  <<n % Radix, q1 % Radix, q2 % Radix, q3 % Radix>>

(* The u32 stored at byte offset `off` (counted from 0).                   *)
readU32LE(data, off) ==
    data[off + 1] + Radix * (data[off + 2] + Radix * (data[off + 3] + Radix * data[off + 4]))

(* data[from..to] of Rust, slice(from, to) of JavaScript.                  *)
Slice(data, from, to) == SubSeq(data, from + 1, to)

None == [tag |-> "none"]
Panic == [tag |-> "panic"]
Pair(pubkey, sig) == [tag |-> "some", pubkey |-> pubkey, sig |-> sig]

-----------------------------------------------------------------------------
(* The SDK.  A thrown Error is None.                                       *)

Layout(publicKey, signature) ==
    writeU32LE(Len(publicKey)) \o publicKey
        \o writeU32LE(Len(signature)) \o signature

buildWitnessLock(publicKey, signature) ==
    IF Len(publicKey) # PUBLIC_KEY_LEN \/ Len(signature) # SIGNATURE_LEN
    THEN None
    ELSE [tag |-> "some", lock |-> Layout(publicKey, signature)]

parseWitnessLock(input) ==
    IF Len(input) < 8 THEN None
    ELSE LET publicKeyEnd == 4 + readU32LE(input, 0)
         IN  IF Len(input) < publicKeyEnd + 4 THEN None
             ELSE LET signatureStart == publicKeyEnd + 4
                      signatureEnd == signatureStart + readU32LE(input, publicKeyEnd)
                      publicKey == Slice(input, 4, publicKeyEnd)
                      signature == Slice(input, signatureStart, signatureEnd)
                  IN  IF /\ Len(input) = signatureEnd
                         /\ Len(publicKey) = PUBLIC_KEY_LEN
                         /\ Len(signature) = SIGNATURE_LEN
                      THEN Pair(publicKey, signature)
                      ELSE None

-----------------------------------------------------------------------------
(* The contract.  An index beyond the end of a slice panics.               *)

Indexed(data, end, value) == IF end > Len(data) THEN Panic ELSE value

(* Faulty variant: the signature slice starts at its length field.         *)
parse_witness_Misaligned(data) ==
    IF Len(data) < 8 THEN None
    ELSE LET pubkey_end == 4 + readU32LE(data, 0)
             sig_end == pubkey_end + readU32LE(data, pubkey_end)
         IN  IF Len(data) < pubkey_end + 4 THEN None
             ELSE IF Len(data) < sig_end THEN None
             ELSE Pair(Slice(data, 4, pubkey_end), Slice(data, pubkey_end, sig_end))

parse_witness(data) ==
    IF Len(data) < 8 THEN None
    ELSE LET pubkey_end == 4 + readU32LE(data, 0)
             sig_end == pubkey_end + 4 + readU32LE(data, pubkey_end)
         IN  IF Len(data) < pubkey_end + 4 THEN None
             ELSE Indexed(data, pubkey_end + 4,
                    IF Len(data) < sig_end THEN None
                    ELSE Indexed(data, sig_end,
                           Pair(Slice(data, 4, pubkey_end),
                                Slice(data, pubkey_end + 4, sig_end))))
==============================================================================
