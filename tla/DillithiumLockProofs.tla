-------------------------- MODULE DillithiumLockProofs --------------------------
(***************************************************************************)
(* The witness format is read as it was built, the lock script implements  *)
(* the policy, and what the SDK seals the script unlocks: for every key    *)
(* and signature length, every hash and signature scheme, key pair, seed   *)
(* and radix, and every transaction.                                       *)
(***************************************************************************)
EXTENDS SealedTransfer, TLAPS

USE ZenonT(30)

-----------------------------------------------------------------------------
(* The witness format.                                                     *)

(* The last digit and the rest of a number can be read off its expansion.  *)
LEMMA DigitLemma ==
    ASSUME NEW a \in Byte, NEW q \in Nat
    PROVE  /\ a + Radix * q \in Nat
           /\ (a + Radix * q) % Radix = a
           /\ (a + Radix * q) \div Radix = q
<1> DEFINE n == a + Radix * q
           k == n \div Radix
           m == n % Radix
<1>1. Radix \in Nat /\ Radix > 1 /\ a \in Nat /\ a < Radix
  BY RadixAssumption, SMTT(30) DEF Byte
<1>2. Radix * q \in Nat
  BY <1>1, SMTT(30)
<1>3. n \in Nat
  BY <1>1, <1>2, SMTT(30)
<1>4. k \in Nat /\ m \in 0 .. Radix - 1 /\ n = Radix * k + m
  BY <1>1, <1>3, SMTT(30)
<1>5. Radix * (q - k) = m - a
  BY <1>1, <1>4, SMTT(30)
<1>6. ~ (q - k >= 1)
  <2>1. SUFFICES ASSUME q - k >= 1 PROVE FALSE
    OBVIOUS
  <2>2. Radix * (q - k) >= Radix
    BY <1>1, <1>4, <2>1, SMTT(30)
  <2> QED
    BY <1>1, <1>4, <1>5, <2>2, SMTT(30)
<1>7. ~ (k - q >= 1)
  <2>1. SUFFICES ASSUME k - q >= 1 PROVE FALSE
    OBVIOUS
  <2>2. Radix * (k - q) >= Radix
    BY <1>1, <1>4, <2>1, SMTT(30)
  <2>3. Radix * (k - q) = a - m
    BY <1>1, <1>4, SMTT(30)
  <2> QED
    BY <1>1, <1>4, <2>2, <2>3, SMTT(30)
<1>8. q = k
  BY <1>4, <1>6, <1>7, SMTT(30)
<1> QED
  BY <1>1, <1>3, <1>4, <1>5, <1>8, SMTT(30)

(* The quotient and remainder of a number rebuild it.                      *)
LEMMA DivModLemma ==
    ASSUME NEW n \in Nat
    PROVE  /\ n \div Radix \in Nat
           /\ n % Radix \in Byte
           /\ n = (n % Radix) + Radix * (n \div Radix)
BY RadixAssumption, SMTT(30) DEF Byte

(* Four digits are the encoding of the number they spell.                  *)
LEMMA DigitsOfRead ==
    ASSUME NEW a \in Byte, NEW b \in Byte, NEW c \in Byte, NEW d \in Byte
    PROVE  LET n == a + Radix * (b + Radix * (c + Radix * d))
           IN  /\ n \in U32
               /\ writeU32LE(n) = <<a, b, c, d>>
<1> DEFINE n2 == c + Radix * d
           n1 == b + Radix * n2
           n0 == a + Radix * n1
<1>0. d \in Nat /\ d < Radix /\ Radix \in Nat /\ Radix > 1
  BY RadixAssumption, SMTT(30) DEF Byte
<1>1. n2 \in Nat /\ n2 % Radix = c /\ n2 \div Radix = d
  BY <1>0, DigitLemma
<1> HIDE DEF n2
<1>2. n1 \in Nat /\ n1 % Radix = b /\ n1 \div Radix = n2
  BY <1>1, DigitLemma
<1> HIDE DEF n1
<1>3. n0 \in Nat /\ n0 % Radix = a /\ n0 \div Radix = n1
  BY <1>2, DigitLemma
<1> HIDE DEF n0
<1>4. d % Radix = d
  BY <1>0, SMTT(30)
<1>5. n0 \in U32 /\ writeU32LE(n0) = <<a, b, c, d>>
  BY <1>0, <1>1, <1>2, <1>3, <1>4 DEF U32, writeU32LE
<1> QED
  BY <1>5 DEF n0, n1, n2

(* Reading back what writeU32LE wrote gives the number.                    *)
LEMMA ReadOfWrite ==
    ASSUME NEW n \in U32
    PROVE  LET w == writeU32LE(n)
           IN  /\ w[1] \in Byte /\ w[2] \in Byte /\ w[3] \in Byte /\ w[4] \in Byte
               /\ w[1] + Radix * (w[2] + Radix * (w[3] + Radix * w[4])) = n
<1> DEFINE q1 == n \div Radix
           q2 == q1 \div Radix
           q3 == q2 \div Radix
<1>1. n \in Nat /\ q3 < Radix
  BY DEF U32
<1>2. q1 \in Nat /\ n % Radix \in Byte /\ n = (n % Radix) + Radix * q1
  BY <1>1, DivModLemma
<1>3. q2 \in Nat /\ q1 % Radix \in Byte /\ q1 = (q1 % Radix) + Radix * q2
  BY <1>2, DivModLemma
<1>4. q3 \in Nat /\ q2 % Radix \in Byte /\ q2 = (q2 % Radix) + Radix * q3
  BY <1>3, DivModLemma
<1>5. q3 % Radix = q3 /\ q3 \in Byte
  BY <1>1, <1>4, RadixAssumption, SMTT(30) DEF Byte
<1>6. writeU32LE(n) = <<n % Radix, q1 % Radix, q2 % Radix, q3 % Radix>>
  BY DEF writeU32LE
<1> HIDE DEF q1, q2, q3
<1> QED
  BY <1>2, <1>3, <1>4, <1>5, <1>6, SMTT(30)

(* A u32 field of a byte string reads as n exactly when it is the encoding *)
(* of n.                                                                   *)
LEMMA FieldReadsAs ==
    ASSUME NEW data \in Bytes, NEW off \in Nat, off + 4 <= Len(data), NEW n \in U32
    PROVE  /\ readU32LE(data, off) \in U32
           /\ readU32LE(data, off) = n <=> Slice(data, off, off + 4) = writeU32LE(n)
<1> DEFINE a == data[off + 1]
           b == data[off + 2]
           c == data[off + 3]
           d == data[off + 4]
           s == Slice(data, off, off + 4)
<1>1. a \in Byte /\ b \in Byte /\ c \in Byte /\ d \in Byte
  BY SMTT(30) DEF Bytes
<1>2. s = <<a, b, c, d>>
  <2>1. off + 1 \in 1 .. Len(data) + 1 /\ off + 4 \in off .. Len(data)
    BY SMTT(30) DEF Bytes
  <2>2. s \in Seq(Byte) /\ Len(s) = 4
    BY <2>1, SMTT(30) DEF Slice, Bytes
  <2>3. s[1] = a /\ s[2] = b /\ s[3] = c /\ s[4] = d
    BY <2>1, SMTT(30) DEF Slice, Bytes
  <2> HIDE DEF s, a, b, c, d
  <2> QED
    BY <1>1, <2>2, <2>3, SMTT(30)
<1>3. readU32LE(data, off) = a + Radix * (b + Radix * (c + Radix * d))
  BY DEF readU32LE
<1> HIDE DEF a, b, c, d, s
<1>4. readU32LE(data, off) \in U32 /\ writeU32LE(readU32LE(data, off)) = s
  BY <1>1, <1>2, <1>3, DigitsOfRead, SMTT(30)
<1>5. ASSUME s = writeU32LE(n) PROVE readU32LE(data, off) = n
  BY <1>2, <1>3, <1>5, ReadOfWrite, SMTT(30)
<1> QED
  BY <1>4, <1>5 DEF s

(* A slice of a byte string.                                               *)
LEMMA SliceProperties ==
    ASSUME NEW data \in Bytes, NEW from \in Nat, NEW to \in Nat,
           from <= to, to <= Len(data)
    PROVE  /\ Slice(data, from, to) \in Bytes
           /\ Len(Slice(data, from, to)) = to - from
           /\ \A i \in 1 .. to - from : Slice(data, from, to)[i] = data[from + i]
<1>1. \A i \in from + 1 .. to : data[i] \in Byte
  BY SMTT(30) DEF Bytes
<1> QED
  BY <1>1, SMTT(30) DEF Slice, Bytes

(* What parse_witness does on a byte string that holds a u32 in front.     *)
LEMMA ParseCases ==
    ASSUME NEW data \in Bytes, Len(data) >= 8
    PROVE  LET pubkey_end == 4 + readU32LE(data, 0)
               sig_end == pubkey_end + 4 + readU32LE(data, pubkey_end)
           IN  /\ pubkey_end \in Nat /\ pubkey_end >= 4
               /\ Len(data) < pubkey_end + 4 => parse_witness(data) = None
               /\ Len(data) >= pubkey_end + 4 =>
                     /\ sig_end \in Nat /\ sig_end >= pubkey_end + 4
                     /\ Len(data) < sig_end => parse_witness(data) = None
                     /\ Len(data) >= sig_end =>
                           parse_witness(data) = Pair(Slice(data, 4, pubkey_end),
                                                      Slice(data, pubkey_end + 4, sig_end))
<1> DEFINE pe == 4 + readU32LE(data, 0)
           se == pe + 4 + readU32LE(data, pe)
<1>1. readU32LE(data, 0) \in Nat
  BY FieldReadsAs, LengthAssumption, SMTT(30) DEF U32, Bytes
<1>2. pe \in Nat /\ pe >= 4
  BY <1>1, SMTT(30)
<1>3. ASSUME Len(data) >= pe + 4 PROVE se \in Nat /\ se >= pe + 4
  <2>1. readU32LE(data, pe) \in U32
    BY <1>2, <1>3, FieldReadsAs, LengthAssumption
  <2>2. readU32LE(data, pe) \in Nat
    BY <2>1 DEF U32
  <2> HIDE DEF pe
  <2> QED
    BY <1>2, <2>2, SMTT(30)
<1>4. parse_witness(data) =
        IF Len(data) < pe + 4 THEN None
        ELSE Indexed(data, pe + 4,
               IF Len(data) < se THEN None
               ELSE Indexed(data, se,
                      Pair(Slice(data, 4, pe), Slice(data, pe + 4, se))))
  BY SMTT(30) DEF parse_witness
<1>5. Len(data) \in Nat
  BY SMTT(30) DEF Bytes
<1> HIDE DEF pe, se
<1>6. Len(data) < pe + 4 => parse_witness(data) = None
  BY <1>4
<1>7. ASSUME Len(data) >= pe + 4
      PROVE  /\ Len(data) < se => parse_witness(data) = None
             /\ Len(data) >= se =>
                   parse_witness(data) = Pair(Slice(data, 4, pe), Slice(data, pe + 4, se))
  BY <1>2, <1>3, <1>4, <1>5, <1>7, SMTT(30) DEF Indexed
<1> QED
  BY <1>2, <1>3, <1>6, <1>7 DEF pe, se

(* parse_witness never indexes outside the buffer, and what it returns is  *)
(* a pair of byte strings or nothing.                                      *)
THEOREM ParseIsTotal ==
    ASSUME NEW data \in Bytes
    PROVE  \/ parse_witness(data) = None
           \/ \E pubkey, sig \in Bytes : parse_witness(data) = Pair(pubkey, sig)
<1>1. CASE Len(data) < 8
  BY <1>1 DEF parse_witness
<1>2. CASE Len(data) >= 8
  <2> DEFINE pe == 4 + readU32LE(data, 0)
             se == pe + 4 + readU32LE(data, pe)
  <2>1. pe \in Nat /\ pe >= 4
    BY <1>2, ParseCases
  <2>2. CASE Len(data) < pe + 4
    BY <1>2, <2>2, ParseCases
  <2>3. CASE Len(data) >= pe + 4
    <3>1. se \in Nat /\ se >= pe + 4
      BY <1>2, <2>3, ParseCases
    <3>2. CASE Len(data) < se
      BY <1>2, <2>3, <3>2, ParseCases
    <3>3. CASE Len(data) >= se
      <4>1. parse_witness(data) = Pair(Slice(data, 4, pe), Slice(data, pe + 4, se))
        BY <1>2, <2>3, <3>3, ParseCases
      <4> HIDE DEF pe, se
      <4>2. Slice(data, 4, pe) \in Bytes
        BY <2>1, <2>3, SliceProperties, SMTT(30) DEF Bytes
      <4>3. Slice(data, pe + 4, se) \in Bytes
        BY <2>1, <3>1, <3>3, SliceProperties, SMTT(30)
      <4> QED
        BY <4>1, <4>2, <4>3
    <3> QED
      BY <3>1, <3>2, <3>3, SMTT(30) DEF Bytes
  <2> QED
    BY <2>1, <2>2, <2>3, SMTT(30) DEF Bytes
<1> QED
  BY <1>1, <1>2, SMTT(30) DEF Bytes

(* Whatever lock field the SDK's parseWitnessLock accepts, the contract's  *)
(* parse_witness reads as the same key and the same signature.             *)
THEOREM ContractReadsLikeSdk ==
    ASSUME NEW data \in Bytes, parseWitnessLock(data).tag = "some"
    PROVE  parse_witness(data) = parseWitnessLock(data)
<1> DEFINE pe == 4 + readU32LE(data, 0)
           se == pe + 4 + readU32LE(data, pe)
<1>0. Len(data) \in Nat
  BY SMTT(30) DEF Bytes
<1>1. Len(data) >= 8
  BY <1>0, SMTT(30) DEF parseWitnessLock, None
<1>2. pe \in Nat /\ pe >= 4
  BY <1>1, ParseCases
<1>3. Len(data) >= pe + 4
  BY <1>0, <1>1, <1>2, SMTT(30) DEF parseWitnessLock, None
<1>4. Len(data) = se /\ parseWitnessLock(data) = Pair(Slice(data, 4, pe), Slice(data, pe + 4, se))
  BY <1>0, <1>1, <1>2, <1>3 DEF parseWitnessLock, None
<1>5. parse_witness(data) = Pair(Slice(data, 4, pe), Slice(data, pe + 4, se))
  BY <1>0, <1>1, <1>3, <1>4, ParseCases, SMTT(30)
<1> QED
  BY <1>4, <1>5

(* The encoding of a u32 is four bytes.                                    *)
LEMMA WriteIsFourBytes ==
    ASSUME NEW n \in U32
    PROVE  writeU32LE(n) \in Bytes /\ Len(writeU32LE(n)) = 4
BY ReadOfWrite, SMTT(30) DEF writeU32LE, Bytes

(* A concatenation of byte strings, index by index.                        *)
LEMMA ConcatBytes ==
    ASSUME NEW p \in Bytes, NEW q \in Bytes
    PROVE  /\ p \o q \in Bytes
           /\ Len(p \o q) = Len(p) + Len(q)
           /\ Len(p) \in Nat /\ Len(q) \in Nat
           /\ \A i \in 1 .. Len(p) : (p \o q)[i] = p[i]
           /\ \A i \in 1 .. Len(q) : (p \o q)[Len(p) + i] = q[i]
BY SMTT(30) DEF Bytes

(* Where a byte string stands in another one, the slice is that string.    *)
LEMMA FieldAt ==
    ASSUME NEW data \in Bytes, NEW m \in Bytes, NEW off \in Nat,
           NEW end \in Nat, end = off + Len(m), end <= Len(data),
           \A i \in 1 .. Len(m) : data[off + i] = m[i]
    PROVE  Slice(data, off, end) = m
<1> DEFINE s == Slice(data, off, end)
<1>1. Len(m) \in Nat /\ off <= end /\ end - off = Len(m)
  BY SMTT(30) DEF Bytes
<1>2. s \in Bytes /\ Len(s) = end - off
  BY <1>1, SliceProperties
<1>3. \A i \in 1 .. end - off : s[i] = data[off + i]
  BY <1>1, SliceProperties
<1> HIDE DEF s
<1>4. \A i \in 1 .. Len(s) : s[i] = m[i]
  BY <1>1, <1>2, <1>3
<1>5. s = m
  <2>1. Len(s) = Len(m) /\ s \in Seq(Byte) /\ m \in Seq(Byte)
    BY <1>1, <1>2 DEF Bytes
  <2>2. \A i \in 1 .. Len(m) : s[i] = m[i]
    BY <1>4, <2>1
  <2> HIDE <1>1, <1>2, <1>4
  <2> QED
    BY <2>1, <2>2, SMTT(30)
<1> QED
  BY <1>5 DEF s

(* What buildWitnessLock writes, both readers read back: the SDK exactly,  *)
(* the contract also when other bytes follow.                              *)
THEOREM RoundTrip ==
    ASSUME NEW pubkey \in Bytes, NEW sig \in Bytes, NEW rest \in Bytes,
           Len(pubkey) = PUBLIC_KEY_LEN, Len(sig) = SIGNATURE_LEN
    PROVE  /\ parse_witness(Layout(pubkey, sig) \o rest) = Pair(pubkey, sig)
           /\ rest = <<>> => parseWitnessLock(Layout(pubkey, sig)) = Pair(pubkey, sig)
<1> DEFINE w1 == writeU32LE(PUBLIC_KEY_LEN)
           w2 == writeU32LE(SIGNATURE_LEN)
           a == w1 \o pubkey
           b == a \o w2
           c == b \o sig
           data == c \o rest
           pe == 4 + PUBLIC_KEY_LEN
           se == pe + 4 + SIGNATURE_LEN
<1>1. w1 \in Bytes /\ Len(w1) = 4 /\ w2 \in Bytes /\ Len(w2) = 4
  BY WriteIsFourBytes, LengthAssumption
<1>2. PUBLIC_KEY_LEN \in Nat /\ SIGNATURE_LEN \in Nat /\ Len(rest) \in Nat
  BY LengthAssumption, SMTT(30) DEF U32, Bytes
<1>3. c = Layout(pubkey, sig)
  BY DEF Layout
<1> HIDE DEF w1, w2
<1>4. /\ a \in Bytes /\ Len(a) = pe
      /\ \A i \in 1 .. 4 : a[i] = w1[i]
      /\ \A i \in 1 .. PUBLIC_KEY_LEN : a[4 + i] = pubkey[i]
  <2>1. /\ a \in Bytes /\ Len(a) = Len(w1) + Len(pubkey)
        /\ \A i \in 1 .. Len(w1) : a[i] = w1[i]
        /\ \A i \in 1 .. Len(pubkey) : a[Len(w1) + i] = pubkey[i]
    BY <1>1, ConcatBytes
  <2> HIDE DEF a
  <2> QED
    BY <1>1, <2>1
<1> HIDE DEF a
<1>5. /\ b \in Bytes /\ Len(b) = pe + 4
      /\ \A i \in 1 .. pe : b[i] = a[i]
      /\ \A i \in 1 .. 4 : b[pe + i] = w2[i]
  <2>1. /\ b \in Bytes /\ Len(b) = Len(a) + Len(w2)
        /\ \A i \in 1 .. Len(a) : b[i] = a[i]
        /\ \A i \in 1 .. Len(w2) : b[Len(a) + i] = w2[i]
    BY <1>1, <1>4, ConcatBytes
  <2> HIDE DEF b, pe
  <2> QED
    BY <1>1, <1>4, <2>1
<1> HIDE DEF b
<1>6. /\ c \in Bytes /\ Len(c) = se
      /\ \A i \in 1 .. pe + 4 : c[i] = b[i]
      /\ \A i \in 1 .. SIGNATURE_LEN : c[(pe + 4) + i] = sig[i]
  <2>1. /\ c \in Bytes /\ Len(c) = Len(b) + Len(sig)
        /\ \A i \in 1 .. Len(b) : c[i] = b[i]
        /\ \A i \in 1 .. Len(sig) : c[Len(b) + i] = sig[i]
    BY <1>5, ConcatBytes
  <2> HIDE DEF c, pe
  <2> QED
    BY <1>5, <2>1
<1> HIDE DEF c
<1>7. /\ data \in Bytes /\ Len(data) = se + Len(rest)
      /\ \A i \in 1 .. se : data[i] = c[i]
  <2> HIDE DEF se
  <2> QED
    BY <1>6, ConcatBytes
<1> HIDE DEF data
<1>8. Slice(data, 0, 4) = w1
  <2>1. \A i \in 1 .. Len(w1) : data[0 + i] = w1[i]
    BY <1>1, <1>2, <1>4, <1>5, <1>6, <1>7, SMTT(30)
  <2>2. 0 \in Nat /\ 4 \in Nat /\ 4 = 0 + Len(w1) /\ 4 <= Len(data)
    BY <1>1, <1>2, <1>7, SMTT(30)
  <2> HIDE DEF pe, se
  <2> QED
    BY <1>1, <1>7, <2>1, <2>2, FieldAt
<1>9. Slice(data, 4, pe) = pubkey
  <2>1. \A i \in 1 .. Len(pubkey) : data[4 + i] = pubkey[i]
    BY <1>2, <1>4, <1>5, <1>6, <1>7, SMTT(30)
  <2>2. 4 \in Nat /\ pe \in Nat /\ pe = 4 + Len(pubkey) /\ pe <= Len(data)
    BY <1>1, <1>2, <1>7, SMTT(30)
  <2> HIDE DEF pe, se
  <2> QED
    BY <1>1, <1>7, <2>1, <2>2, FieldAt
<1>10. Slice(data, pe, pe + 4) = w2
  <2>1. \A i \in 1 .. Len(w2) : data[pe + i] = w2[i]
    <3>1. SUFFICES ASSUME NEW i \in 1 .. 4 PROVE data[pe + i] = w2[i]
      BY <1>1
    <3>2. pe + i \in 1 .. pe + 4 /\ pe + i \in 1 .. se
      BY <1>2, SMTT(30)
    <3> QED
      BY <1>5, <1>6, <1>7, <3>2
  <2>2. pe \in Nat /\ pe + 4 \in Nat /\ pe + 4 = pe + Len(w2) /\ pe + 4 <= Len(data)
    BY <1>1, <1>2, <1>7, SMTT(30)
  <2> HIDE DEF pe, se
  <2> QED
    BY <1>1, <1>7, <2>1, <2>2, FieldAt
<1>11. Slice(data, pe + 4, se) = sig
  <2>1. \A i \in 1 .. Len(sig) : data[(pe + 4) + i] = sig[i]
    <3>1. SUFFICES ASSUME NEW i \in 1 .. SIGNATURE_LEN PROVE data[(pe + 4) + i] = sig[i]
      OBVIOUS
    <3>2. (pe + 4) + i \in 1 .. se
      BY <1>2, SMTT(30)
    <3> QED
      BY <1>6, <1>7, <3>2
  <2>2. pe + 4 \in Nat /\ se \in Nat /\ se = pe + 4 + Len(sig) /\ se <= Len(data)
    BY <1>1, <1>2, <1>7, SMTT(30)
  <2> HIDE DEF pe, se
  <2> QED
    BY <1>1, <1>7, <2>1, <2>2, FieldAt
<1>12. readU32LE(data, 0) = PUBLIC_KEY_LEN
  BY <1>2, <1>7, <1>8, FieldReadsAs, LengthAssumption, SMTT(30) DEF w1
<1>13. readU32LE(data, pe) = SIGNATURE_LEN
  BY <1>2, <1>7, <1>10, FieldReadsAs, LengthAssumption, SMTT(30) DEF w2
<1>14. parse_witness(data) = Pair(pubkey, sig)
  <2>1. Len(data) >= 8 /\ Len(data) >= pe + 4 /\ Len(data) >= se
    BY <1>2, <1>7, SMTT(30)
  <2> QED
    BY <1>7, <1>9, <1>11, <1>12, <1>13, <2>1, ParseCases, SMTT(30)
<1>15. ASSUME rest = <<>> PROVE parseWitnessLock(Layout(pubkey, sig)) = Pair(pubkey, sig)
  <2>1. data = c /\ Len(data) = se
    BY <1>6, <1>15, SMTT(30) DEF Bytes, data
  <2>2. ~(Len(data) < 8) /\ ~(Len(data) < pe + 4)
    BY <1>2, <2>1, SMTT(30)
  <2>3. parseWitnessLock(data) = Pair(pubkey, sig)
    BY <1>9, <1>11, <1>12, <1>13, <2>1, <2>2 DEF parseWitnessLock
  <2> QED
    BY <1>3, <2>1, <2>3
<1> QED
  BY <1>3, <1>14, <1>15 DEF data

(* Two slices that meet make up the slice of their ends.                   *)
LEMMA SlicesJoin ==
    ASSUME NEW data \in Bytes, NEW a \in Nat, NEW b \in Nat, NEW c \in Nat,
           a <= b, b <= c, c <= Len(data)
    PROVE  Slice(data, a, b) \o Slice(data, b, c) = Slice(data, a, c)
<1> DEFINE p == Slice(data, a, b)
           q == Slice(data, b, c)
           s == p \o q
<1>0. Len(data) \in Nat /\ a <= c /\ b <= Len(data)
  BY SMTT(30) DEF Bytes
<1>1. p \in Bytes /\ Len(p) = b - a /\ \A i \in 1 .. b - a : p[i] = data[a + i]
  BY <1>0, SliceProperties
<1>2. q \in Bytes /\ Len(q) = c - b /\ \A i \in 1 .. c - b : q[i] = data[b + i]
  BY <1>0, SliceProperties
<1> HIDE DEF p, q
<1>3. /\ s \in Bytes /\ Len(s) = (b - a) + (c - b)
      /\ \A i \in 1 .. b - a : s[i] = p[i]
      /\ \A i \in 1 .. c - b : s[(b - a) + i] = q[i]
  <2>1. /\ s \in Bytes /\ Len(s) = Len(p) + Len(q)
        /\ \A i \in 1 .. Len(p) : s[i] = p[i]
        /\ \A i \in 1 .. Len(q) : s[Len(p) + i] = q[i]
    BY <1>1, <1>2, ConcatBytes
  <2> HIDE DEF s
  <2> QED
    BY <1>1, <1>2, <2>1
<1> HIDE DEF s
<1>4. \A i \in 1 .. Len(s) : data[a + i] = s[i]
  <2> SUFFICES ASSUME NEW i \in 1 .. Len(s) PROVE data[a + i] = s[i]
    OBVIOUS
  <2>1. CASE i \in 1 .. b - a
    BY <1>1, <1>3, <2>1
  <2>2. CASE i \notin 1 .. b - a
    <3> DEFINE j == i - (b - a)
    <3>1. j \in 1 .. c - b /\ i = (b - a) + j /\ a + i = b + j
      BY <1>3, <2>2, SMTT(30)
    <3> HIDE DEF j
    <3> QED
      BY <1>2, <1>3, <3>1
  <2> QED
    BY <2>1, <2>2
<1>5. c = a + Len(s)
  BY <1>3, SMTT(30)
<1>6. Slice(data, a, c) = s
  BY <1>3, <1>4, <1>5, FieldAt
<1> QED
  BY <1>6 DEF s, p, q

(* A lock field that parseWitnessLock accepts is the one buildWitnessLock  *)
(* makes of the key and the signature found in it: nothing else encodes    *)
(* the pair.                                                               *)
THEOREM ParsedIsRebuilt ==
    ASSUME NEW data \in Bytes, NEW pubkey \in Bytes, NEW sig \in Bytes,
           parseWitnessLock(data) = Pair(pubkey, sig)
    PROVE  buildWitnessLock(pubkey, sig) = [tag |-> "some", lock |-> data]
<1> DEFINE pe == 4 + readU32LE(data, 0)
           sl == readU32LE(data, pe)
           se == pe + 4 + sl
<1>0. Len(data) \in Nat /\ PUBLIC_KEY_LEN \in U32 /\ parseWitnessLock(data) # None
  BY LengthAssumption, SMTT(30) DEF Bytes, Pair, None
<1>1. Len(data) >= 8
  BY <1>0, SMTT(30) DEF parseWitnessLock
<1>2. pe \in Nat /\ pe >= 4
  BY <1>1, ParseCases
<1>3. Len(data) >= pe + 4
  BY <1>0, <1>1, <1>2, SMTT(30) DEF parseWitnessLock
<1>4. /\ Len(data) = se /\ Len(Slice(data, 4, pe)) = PUBLIC_KEY_LEN
      /\ Len(Slice(data, pe + 4, se)) = SIGNATURE_LEN
      /\ parseWitnessLock(data) = Pair(Slice(data, 4, pe), Slice(data, pe + 4, se))
  BY <1>0, <1>1, <1>2, <1>3 DEF parseWitnessLock
<1>5. se \in Nat /\ se >= pe + 4
  BY <1>1, <1>3, ParseCases
<1>6. readU32LE(data, 0) \in U32 /\ sl \in U32
  BY <1>0, <1>1, <1>2, <1>3, FieldReadsAs, SMTT(30)
<1>7. /\ Slice(data, 0, 4) = writeU32LE(readU32LE(data, 0))
      /\ Slice(data, pe, pe + 4) = writeU32LE(sl)
  <2>1. Slice(data, 0, 0 + 4) = writeU32LE(readU32LE(data, 0))
    BY <1>0, <1>1, <1>6, FieldReadsAs, SMTT(30)
  <2> HIDE DEF pe
  <2> QED
    BY <1>0, <1>2, <1>3, <1>6, <2>1, FieldReadsAs, SMTT(30)
<1>8. pubkey = Slice(data, 4, pe) /\ sig = Slice(data, pe + 4, se)
  <2> HIDE DEF pe, se
  <2> QED
    BY <1>4, SMTT(30) DEF Pair
<1>9. Len(pubkey) = readU32LE(data, 0) /\ Len(sig) = sl
  <2>1. Len(Slice(data, 4, pe)) = pe - 4 /\ Len(Slice(data, pe + 4, se)) = se - (pe + 4)
    <3> HIDE DEF pe, se
    <3> QED
      BY <1>0, <1>2, <1>3, <1>4, <1>5, SliceProperties, SMTT(30)
  <2>2. pe - 4 = readU32LE(data, 0) /\ se - (pe + 4) = sl
    BY <1>2, <1>5, <1>6, SMTT(30) DEF U32
  <2> HIDE DEF pe, se, sl
  <2> QED
    BY <1>8, <2>1, <2>2
<1> HIDE DEF pe, se, sl
<1>10. Layout(pubkey, sig) =
         ((Slice(data, 0, 4) \o Slice(data, 4, pe)) \o Slice(data, pe, pe + 4))
            \o Slice(data, pe + 4, se)
  BY <1>7, <1>8, <1>9 DEF Layout
<1>11. /\ 0 <= 4 /\ 4 <= pe /\ 0 <= pe /\ pe <= Len(data) /\ pe + 4 \in Nat
       /\ pe <= pe + 4 /\ 0 <= pe + 4 /\ pe + 4 <= Len(data)
       /\ pe + 4 <= se /\ se <= Len(data)
  BY <1>0, <1>2, <1>3, <1>4, <1>5, SMTT(30)
<1>12. Slice(data, 0, 4) \o Slice(data, 4, pe) = Slice(data, 0, pe)
  BY <1>2, <1>11, SlicesJoin, SMTT(30)
<1>13. /\ Slice(data, 0, pe) \o Slice(data, pe, pe + 4) = Slice(data, 0, pe + 4)
       /\ Slice(data, 0, pe + 4) \o Slice(data, pe + 4, se) = Slice(data, 0, se)
  BY <1>2, <1>5, <1>11, SlicesJoin
<1>14. Slice(data, 0, se) = data
  <2>1. se = 0 + Len(data) /\ se <= Len(data) /\ \A i \in 1 .. Len(data) : data[0 + i] = data[i]
    BY <1>0, <1>4, <1>5, SMTT(30)
  <2> QED
    BY <1>5, <2>1, FieldAt
<1>15. Layout(pubkey, sig) = data
  BY <1>10, <1>11, <1>12, <1>13, <1>14
<1>16. Len(pubkey) = PUBLIC_KEY_LEN /\ Len(sig) = SIGNATURE_LEN
  BY <1>4, <1>8
<1> QED
  BY <1>15, <1>16 DEF buildWitnessLock

-----------------------------------------------------------------------------
(* The lock script, and transactions sealed for it.                        *)

(* A lock field spells out a key and a signature of the right lengths      *)
(* exactly when parse_witness finds a pair of those lengths; then the pair *)
(* is what stands at the fixed places.                                     *)
LEMMA ParseFindsKeyAndSig ==
    ASSUME NEW lock \in Bytes
    PROVE  /\ CarriesKeyAndSig(lock) => parse_witness(lock) = Pair(KeyOf(lock), SigOf(lock))
           /\ CarriesKeyAndSig(lock) =>
                Len(KeyOf(lock)) = PUBLIC_KEY_LEN /\ Len(SigOf(lock)) = SIGNATURE_LEN
           /\ \A pubkey, sig \in Bytes :
                /\ parse_witness(lock) = Pair(pubkey, sig)
                /\ Len(pubkey) = PUBLIC_KEY_LEN
                /\ Len(sig) = SIGNATURE_LEN
                => CarriesKeyAndSig(lock) /\ pubkey = KeyOf(lock) /\ sig = SigOf(lock)
<1> DEFINE pe == 4 + readU32LE(lock, 0)
           se == pe + 4 + readU32LE(lock, pe)
           pk == PUBLIC_KEY_LEN
           sg == SIGNATURE_LEN
<1>0. pk \in Nat /\ sg \in Nat /\ pk \in U32 /\ sg \in U32 /\ Len(lock) \in Nat
  BY LengthAssumption, SMTT(30) DEF U32, Bytes
<1>1. ASSUME CarriesKeyAndSig(lock)
      PROVE  /\ parse_witness(lock) = Pair(KeyOf(lock), SigOf(lock))
             /\ Len(KeyOf(lock)) = pk /\ Len(SigOf(lock)) = sg
  <2>1. Len(lock) >= 8 + pk + sg
    BY <1>1 DEF CarriesKeyAndSig, WITNESS_LOCK_BYTES
  <2>2. Slice(lock, 0, 0 + 4) = writeU32LE(pk)
    BY <1>1, SMTT(30) DEF CarriesKeyAndSig, Slice
  <2>3. readU32LE(lock, 0) = pk
    BY <1>0, <2>1, <2>2, FieldReadsAs, SMTT(30)
  <2>4. Slice(lock, 4 + pk, (4 + pk) + 4) = writeU32LE(sg)
    <3>1. (4 + pk) + 4 = 8 + pk
      BY <1>0, SMTT(30)
    <3> QED
      BY <1>1, <3>1 DEF CarriesKeyAndSig
  <2>5. readU32LE(lock, 4 + pk) = sg
    <3>1. 4 + pk \in Nat /\ (4 + pk) + 4 <= Len(lock)
      BY <1>0, <2>1, SMTT(30)
    <3> QED
      BY <1>0, <2>4, <3>1, FieldReadsAs
  <2>6. pe = 4 + pk /\ se = (4 + pk) + 4 + sg
    BY <2>3, <2>5
  <2>7. Len(lock) >= 8 /\ Len(lock) >= pe + 4 /\ Len(lock) >= se
    BY <1>0, <2>1, <2>6, SMTT(30)
  <2>8. parse_witness(lock) = Pair(Slice(lock, 4, pe), Slice(lock, pe + 4, se))
    BY <2>7, ParseCases
  <2>9. Slice(lock, 4, pe) = KeyOf(lock) /\ Slice(lock, pe + 4, se) = SigOf(lock)
    <3>1. pe = 4 + pk /\ pe + 4 = 8 + pk /\ se = 8 + pk + sg
      BY <1>0, <2>6, SMTT(30)
    <3> HIDE DEF pe, se
    <3> QED
      BY <3>1 DEF KeyOf, SigOf
  <2>10. Len(KeyOf(lock)) = pk
    <3>1. 4 + pk \in Nat /\ 4 <= 4 + pk /\ 4 + pk <= Len(lock) /\ (4 + pk) - 4 = pk
      BY <1>0, <2>1, SMTT(30)
    <3> QED
      BY <3>1, SliceProperties DEF KeyOf
  <2>11. Len(SigOf(lock)) = sg
    <3>1. /\ 8 + pk \in Nat /\ 8 + pk + sg \in Nat /\ 8 + pk <= 8 + pk + sg
          /\ 8 + pk + sg <= Len(lock) /\ (8 + pk + sg) - (8 + pk) = sg
      BY <1>0, <2>1, SMTT(30)
    <3> QED
      BY <3>1, SliceProperties DEF SigOf
  <2> QED
    BY <2>8, <2>9, <2>10, <2>11
<1>2. ASSUME NEW pubkey \in Bytes, NEW sig \in Bytes,
             parse_witness(lock) = Pair(pubkey, sig), Len(pubkey) = pk, Len(sig) = sg
      PROVE  CarriesKeyAndSig(lock) /\ pubkey = KeyOf(lock) /\ sig = SigOf(lock)
  <2>1. parse_witness(lock) # None
    BY <1>2, SMTT(30) DEF Pair, None
  <2>2. Len(lock) >= 8
    BY <1>0, <2>1, SMTT(30) DEF parse_witness
  <2>3. pe \in Nat /\ pe >= 4 /\ Len(lock) >= pe + 4
    BY <1>0, <2>1, <2>2, ParseCases, SMTT(30)
  <2>4. se \in Nat /\ se >= pe + 4 /\ Len(lock) >= se
    BY <1>0, <2>1, <2>2, <2>3, ParseCases, SMTT(30)
  <2>5. parse_witness(lock) = Pair(Slice(lock, 4, pe), Slice(lock, pe + 4, se))
    BY <2>2, <2>3, <2>4, ParseCases
  <2>6. pubkey = Slice(lock, 4, pe) /\ sig = Slice(lock, pe + 4, se)
    <3> HIDE DEF pe, se
    <3> QED
      BY <1>2, <2>5, SMTT(30) DEF Pair
  <2>7. pe = 4 + pk
    <3>1. Len(Slice(lock, 4, pe)) = pe - 4
      <4> HIDE DEF pe
      <4> QED
        BY <1>0, <2>3, SliceProperties, SMTT(30)
    <3> HIDE DEF pe
    <3> QED
      BY <1>0, <1>2, <2>3, <2>6, <3>1, SMTT(30)
  <2>8. se = (pe + 4) + sg
    <3>1. Len(Slice(lock, pe + 4, se)) = se - (pe + 4)
      <4> HIDE DEF pe, se
      <4> QED
        BY <2>3, <2>4, SliceProperties, SMTT(30)
    <3> HIDE DEF pe, se
    <3> QED
      BY <1>0, <1>2, <2>3, <2>4, <2>6, <3>1, SMTT(30)
  <2>9. readU32LE(lock, 0) = pk
    BY <1>0, <2>2, <2>7, FieldReadsAs, SMTT(30) DEF U32
  <2>10. readU32LE(lock, pe) = sg
    <3>1. readU32LE(lock, pe) \in Nat
      BY <1>0, <2>3, FieldReadsAs DEF U32
    <3> QED
      BY <1>0, <2>3, <2>8, <3>1, SMTT(30)
  <2>11. Slice(lock, 0, 0 + 4) = writeU32LE(pk)
    BY <1>0, <2>2, <2>9, FieldReadsAs, SMTT(30)
  <2>12. Slice(lock, pe, pe + 4) = writeU32LE(sg)
    <3> HIDE DEF pe
    <3> QED
      BY <1>0, <2>3, <2>10, FieldReadsAs
  <2>13. CarriesKeyAndSig(lock)
    <3>1. pe = 4 + pk /\ pe + 4 = 8 + pk /\ Len(lock) >= 8 + pk + sg
      BY <1>0, <2>4, <2>7, <2>8, SMTT(30)
    <3>2. SubSeq(lock, 1, 4) = writeU32LE(pk)
      BY <2>11, SMTT(30) DEF Slice
    <3> HIDE DEF pe
    <3> QED
      BY <2>12, <3>1, <3>2 DEF CarriesKeyAndSig, WITNESS_LOCK_BYTES
  <2>14. pubkey = KeyOf(lock) /\ sig = SigOf(lock)
    <3>1. pe = 4 + pk /\ pe + 4 = 8 + pk /\ se = 8 + pk + sg
      BY <1>0, <2>7, <2>8, SMTT(30)
    <3> HIDE DEF pe, se
    <3> QED
      BY <2>6, <3>1 DEF KeyOf, SigOf
  <2> QED
    BY <2>13, <2>14
<1> QED
  BY <1>1, <1>2

-----------------------------------------------------------------------------
(* What the checks already passed have established when the script stands  *)
(* at `pc`, and what its return code says of the transaction.              *)
AfterDecode == {"decode_sig", "verify"}
AfterHash == {"decode_pubkey"} \cup AfterDecode
AfterParse == {"check_hash"} \cup AfterHash
AfterLoad == {"parse_witness"} \cup AfterParse
AfterScript == {"load_tx_hash", "load_witness"} \cup AfterLoad

PassedChecks ==
    /\ pc \in AfterScript => HasArgs
    /\ pc \in {"load_witness"} \cup AfterLoad => tx_hash.tag = "ok"
    /\ pc \in AfterLoad => witness_args.tag = "ok" /\ witness_args.val.tag = "some"
    /\ pc \in AfterParse => parse_witness(Lock) = Pair(raw_pubkey, raw_sig)
    /\ pc \in AfterHash => blake2b_256(raw_pubkey) = script.val
    /\ pc \in AfterDecode => Len(raw_pubkey) = PUBLIC_KEY_LEN /\ try_from_bytes(raw_pubkey)
    /\ pc = "verify" => Len(raw_sig) = SIGNATURE_LEN
    /\ pc # "returned" => exit = Running
    /\ pc = "returned" => exit \in {0} \cup ErrorCodes
    /\ pc = "returned" => (exit = 0 <=> Authorized(env))

IndInv == TypeOK /\ PassedChecks

(* Before the first check the script has passed none.                      *)
LEMMA InitIndInv == Init => IndInv
<1> SUFFICES ASSUME Init PROVE IndInv
  OBVIOUS
<1>1. <<>> \in Bytes
  BY SMTT(30) DEF Bytes
<1> QED
  BY <1>1 DEF Init, IndInv, TypeOK, PassedChecks, Running, ErrorCodes, AfterScript, AfterLoad,
     AfterParse, AfterHash, AfterDecode

(* The transaction stays as it is while the script looks at it.            *)
LEMMA EnvFixed == ASSUME [Next]_vars PROVE env' = env
<1>1. CASE ParseWitness
  BY <1>1 DEF ParseWitness, Return, env
<1>2. CASE LoadScript \/ LoadTxHash \/ LoadWitness \/ CheckHash
  BY <1>2 DEF LoadScript, LoadTxHash, LoadWitness, CheckHash, Check, Return, env
<1>3. CASE DecodePubkey \/ DecodeSig \/ VerifySig
  BY <1>3 DEF DecodePubkey, DecodeSig, VerifySig, Check, Return, env
<1>4. CASE UNCHANGED vars
  BY <1>4 DEF vars, env
<1> QED
  BY <1>1, <1>2, <1>3, <1>4 DEF Next

(* The conjuncts of PassedChecks say nothing about a run that returned     *)
(* with the code of a failed check, but that the transaction was refused.  *)
LEMMA ReturnRefuses ==
    ASSUME IndInv, NEW code \in ErrorCodes, Return(code), ~Authorized(env)
    PROVE  IndInv'
<1>1. TypeOK'
  BY DEF IndInv, TypeOK, Return, env
<1>2. env' = env /\ pc' = "returned" /\ exit' = code
  BY DEF Return
<1>3. Authorized(env)' <=> Authorized(env)
  BY <1>2 DEF Authorized
<1>4. code # 0
  BY SMTT(30) DEF ErrorCodes, ERR_INVALID_ARGS_LENGTH, ERR_SIGNATURE_VERIFICATION
<1> QED
  BY <1>1, <1>2, <1>3, <1>4 DEF IndInv, PassedChecks, AfterScript, AfterLoad, AfterParse,
     AfterHash, AfterDecode

(* The lock field the script parses is a byte string.                      *)
LEMMA LockIsBytes ==
    ASSUME TypeOK, witness_args.tag = "ok", witness_args.val.tag = "some"
    PROVE  Lock \in Bytes
<1>1. witness_args \in {Ok(v) : v \in WitnessArgs}
  BY SMTT(30) DEF TypeOK, WitnessResults, Results, Err
<1>2. witness_args.val \in WitnessArgs
  BY <1>1, SMTT(30) DEF Ok
<1>3. witness_args.val \in {Some(l) : l \in LockFields}
  BY <1>2, SMTT(30) DEF WitnessArgs, None
<1>4. witness_args.val.val \in LockFields
  BY <1>3, SMTT(30) DEF Some
<1> QED
  BY <1>4, FieldsAssumption DEF Lock

(* Once the witness is parsed, the transaction is authorised exactly when  *)
(* the checks still to come accept the parsed key and signature.           *)
LEMMA AuthorizedByParts ==
    ASSUME IndInv, pc \in AfterParse
    PROVE  Authorized(env) <=>
             /\ blake2b_256(raw_pubkey) = script.val
             /\ Len(raw_pubkey) = PUBLIC_KEY_LEN /\ try_from_bytes(raw_pubkey)
             /\ Len(raw_sig) = SIGNATURE_LEN
             /\ verify(raw_pubkey, tx_hash.val, raw_sig)
<1>1. /\ HasArgs /\ HasLock
      /\ parse_witness(Lock) = Pair(raw_pubkey, raw_sig)
  BY DEF IndInv, PassedChecks, AfterScript, AfterLoad, HasLock
<1>2. Lock \in Bytes /\ raw_pubkey \in Bytes /\ raw_sig \in Bytes
  BY <1>1, LockIsBytes DEF IndInv, TypeOK, HasLock
<1>3. Authorized(env) <=>
        /\ CarriesKeyAndSig(Lock)
        /\ blake2b_256(KeyOf(Lock)) = script.val
        /\ try_from_bytes(KeyOf(Lock))
        /\ verify(KeyOf(Lock), tx_hash.val, SigOf(Lock))
  BY <1>1 DEF Authorized, env, HasArgs, HasLock, Lock
<1>4. CarriesKeyAndSig(Lock) =>
        /\ raw_pubkey = KeyOf(Lock) /\ raw_sig = SigOf(Lock)
        /\ Len(raw_pubkey) = PUBLIC_KEY_LEN /\ Len(raw_sig) = SIGNATURE_LEN
  BY <1>1, <1>2, ParseFindsKeyAndSig, SMTT(30) DEF Pair
<1>5. Len(raw_pubkey) = PUBLIC_KEY_LEN /\ Len(raw_sig) = SIGNATURE_LEN =>
        CarriesKeyAndSig(Lock) /\ raw_pubkey = KeyOf(Lock) /\ raw_sig = SigOf(Lock)
  BY <1>1, <1>2, ParseFindsKeyAndSig
<1> QED
  BY <1>3, <1>4, <1>5

(* A lock field that does not parse authorises nothing.                    *)
LEMMA UnparsedIsRefused ==
    ASSUME IndInv, HasLock, parse_witness(Lock).tag # "some"
    PROVE  ~Authorized(env)
<1>1. Lock \in Bytes
  BY LockIsBytes DEF IndInv, HasLock
<1>2. ~CarriesKeyAndSig(Lock)
  BY <1>1, ParseFindsKeyAndSig, SMTT(30) DEF Pair
<1> QED
  BY <1>2 DEF Authorized, env, Lock

USE DEF AfterScript, AfterLoad, AfterParse, AfterHash, AfterDecode

(* Each check, passed or failed, keeps the invariant.                      *)
LEMMA StepIndInv == IndInv /\ [Next]_vars => IndInv'
<1> SUFFICES ASSUME IndInv, [Next]_vars PROVE IndInv'
  OBVIOUS
<1>0. 1 \in ErrorCodes /\ 2 \in ErrorCodes /\ 3 \in ErrorCodes
      /\ 4 \in ErrorCodes /\ 5 \in ErrorCodes /\ 6 \in ErrorCodes
  BY SMTT(30) DEF ErrorCodes, ERR_INVALID_ARGS_LENGTH, ERR_SIGNATURE_VERIFICATION
<1>1. CASE LoadScript
  <2>1. CASE HasArgs
    BY <1>1, <2>1 DEF LoadScript, Check, Return, HasArgs, IndInv, TypeOK, PassedChecks, env
  <2>2. CASE ~HasArgs
    <3>1. Return(1) /\ ~Authorized(env)
      BY <1>1, <2>2 DEF LoadScript, Check, HasArgs, Authorized, env, ERR_INVALID_ARGS_LENGTH
    <3> QED
      BY <1>0, <3>1, ReturnRefuses
  <2> QED
    BY <2>1, <2>2
<1>2. CASE LoadTxHash
  <2>1. CASE tx_hash.tag = "ok"
    BY <1>2, <2>1 DEF LoadTxHash, Check, Return, HasArgs, IndInv, TypeOK, PassedChecks, env
  <2>2. CASE ~(tx_hash.tag = "ok")
    <3>1. Return(2) /\ ~Authorized(env)
      BY <1>2, <2>2 DEF LoadTxHash, Check, Authorized, env, ERR_INVALID_WITNESS
    <3> QED
      BY <1>0, <3>1, ReturnRefuses
  <2> QED
    BY <2>1, <2>2
<1>3. CASE LoadWitness
  <2>1. CASE witness_args.tag = "ok" /\ witness_args.val.tag = "some"
    BY <1>3, <2>1 DEF LoadWitness, Check, Return, HasArgs, IndInv, TypeOK, PassedChecks, env
  <2>2. CASE ~(witness_args.tag = "ok" /\ witness_args.val.tag = "some")
    <3>1. Return(2) /\ ~Authorized(env)
      BY <1>3, <2>2 DEF LoadWitness, Check, Authorized, env, ERR_INVALID_WITNESS
    <3> QED
      BY <1>0, <3>1, ReturnRefuses
  <2> QED
    BY <2>1, <2>2
<1>4. CASE ParseWitness
  <2> DEFINE parsed == parse_witness(Lock)
  <2>1. HasArgs /\ HasLock /\ Lock \in Bytes
    BY <1>4, LockIsBytes DEF ParseWitness, IndInv, PassedChecks, HasLock
  <2>2. CASE parsed = None
    <3>1. Return(2)
      BY <1>4, <2>2, SMTT(30) DEF ParseWitness, Lock, None, ERR_INVALID_WITNESS
    <3>2. ~Authorized(env)
      BY <2>1, <2>2, UnparsedIsRefused, SMTT(30) DEF None
    <3> QED
      BY <1>0, <3>1, <3>2, ReturnRefuses
  <2>3. ASSUME NEW pubkey \in Bytes, NEW sig \in Bytes, parsed = Pair(pubkey, sig)
        PROVE  IndInv'
    <3>1. parsed.tag = "some" /\ parsed.pubkey = pubkey /\ parsed.sig = sig
      BY <2>3, SMTT(30) DEF Pair
    <3>2. /\ raw_pubkey' = pubkey /\ raw_sig' = sig /\ pc' = "check_hash"
          /\ UNCHANGED <<script, tx_hash, witness_args, exit>>
      BY <1>4, <3>1 DEF ParseWitness, Lock, env
    <3>3. TypeOK'
      BY <2>3, <3>2 DEF IndInv, TypeOK
    <3>4. Lock' = Lock /\ HasArgs'
      BY <2>1, <3>2 DEF Lock, HasArgs
    <3>5. parse_witness(Lock)' = Pair(raw_pubkey, raw_sig)'
      BY <2>3, <3>2, <3>4
    <3> QED
      BY <1>4, <2>1, <3>2, <3>3, <3>4, <3>5
      DEF IndInv, PassedChecks, HasLock, ParseWitness
  <2> QED
    BY <2>1, <2>2, <2>3, ParseIsTotal
<1>5. CASE CheckHash
  <2>1. CASE blake2b_256(raw_pubkey) = script.val
    <3>1. pc' = "decode_pubkey" /\ UNCHANGED <<env, raw_pubkey, raw_sig, exit>>
      BY <1>5, <2>1 DEF CheckHash, Check
    <3> QED
      BY <1>5, <2>1, <3>1 DEF CheckHash, HasArgs, IndInv, TypeOK, PassedChecks, env, Lock
  <2>2. CASE ~(blake2b_256(raw_pubkey) = script.val)
    <3>1. Return(3) /\ ~Authorized(env)
      BY <1>5, <2>2, AuthorizedByParts DEF CheckHash, Check, ERR_PUBKEY_HASH_MISMATCH
    <3> QED
      BY <1>0, <3>1, ReturnRefuses
  <2> QED
    BY <2>1, <2>2
<1>6. CASE DecodePubkey
  <2> DEFINE decodes == Len(raw_pubkey) = PUBLIC_KEY_LEN /\ try_from_bytes(raw_pubkey)
  <2>1. CASE decodes
    BY <1>6, <2>1 DEF DecodePubkey, Check, Return, HasArgs, IndInv, TypeOK, PassedChecks, env, Lock
  <2>2. CASE ~decodes
    <3>1. Return(4) /\ ~Authorized(env)
      BY <1>6, <2>2, AuthorizedByParts DEF DecodePubkey, Check, ERR_INVALID_PUBKEY
    <3> QED
      BY <1>0, <3>1, ReturnRefuses
  <2> QED
    BY <2>1, <2>2
<1>7. CASE DecodeSig
  <2>1. CASE Len(raw_sig) = SIGNATURE_LEN
    BY <1>7, <2>1 DEF DecodeSig, Check, Return, HasArgs, IndInv, TypeOK, PassedChecks, env, Lock
  <2>2. CASE ~(Len(raw_sig) = SIGNATURE_LEN)
    <3>1. Return(5) /\ ~Authorized(env)
      BY <1>7, <2>2, AuthorizedByParts DEF DecodeSig, Check, ERR_INVALID_SIGNATURE
    <3> QED
      BY <1>0, <3>1, ReturnRefuses
  <2> QED
    BY <2>1, <2>2
<1>8. CASE VerifySig
  <2>1. CASE verify(raw_pubkey, tx_hash.val, raw_sig)
    <3>1. Return(0)
      BY <1>8, <2>1 DEF VerifySig
    <3>2. Authorized(env)
      <4>1. pc = "verify"
        BY <1>8 DEF VerifySig
      <4> QED
        BY <2>1, <4>1, AuthorizedByParts DEF IndInv, PassedChecks
    <3>3. env' = env /\ pc' = "returned" /\ exit' = 0
      BY <3>1 DEF Return
    <3>4. Authorized(env)'
      BY <3>2, <3>3 DEF Authorized
    <3>5. TypeOK'
      BY <3>1 DEF Return, IndInv, TypeOK, env
    <3> QED
      BY <3>3, <3>4, <3>5 DEF IndInv, PassedChecks
  <2>2. CASE ~verify(raw_pubkey, tx_hash.val, raw_sig)
    <3>1. Return(6) /\ ~Authorized(env)
      BY <1>8, <2>2, AuthorizedByParts DEF VerifySig, ERR_SIGNATURE_VERIFICATION
    <3> QED
      BY <1>0, <3>1, ReturnRefuses
  <2> QED
    BY <2>1, <2>2
<1>9. CASE UNCHANGED vars
  <2>1. env' = env
    BY <1>9 DEF vars, env
  <2>2. Authorized(env)' <=> Authorized(env)
    BY <2>1 DEF Authorized
  <2> QED
    BY <1>9, <2>2 DEF vars, IndInv, TypeOK, PassedChecks, HasArgs, Lock
<1> QED
  BY <1>1, <1>2, <1>3, <1>4, <1>5, <1>6, <1>7, <1>8, <1>9 DEF Next

-----------------------------------------------------------------------------
(* At each pc of program_entry all earlier checks have succeeded.          *)
LEMMA Invariance == Spec => []IndInv
BY InitIndInv, StepIndInv, PTL DEF Spec

(* The type invariant of the script's execution.                           *)
THEOREM TypeCorrect == Spec => []TypeOK
<1>1. IndInv => TypeOK
  BY DEF IndInv
<1> QED
  BY <1>1, Invariance, PTL

(* No lock field, however long and whatever its length fields say, makes   *)
(* parse_witness index outside the buffer and the script panic.            *)
THEOREM PanicFreedom == Spec => []NeverPanics
<1>1. IndInv => NeverPanics
  BY SMTT(30) DEF IndInv, PassedChecks, NeverPanics, PANICKED, Running, ErrorCodes,
     ERR_INVALID_ARGS_LENGTH, ERR_SIGNATURE_VERIFICATION
<1> QED
  BY <1>1, Invariance, PTL

(* Where the SDK can show a lock field, the contract judges the same key   *)
(* and signature, and the lock field is the only one that holds them.      *)
THEOREM ContractAgreesWithSdk == Spec => []ReadsLikeTheSdk
<1>1. IndInv => ReadsLikeTheSdk
  <2> SUFFICES ASSUME IndInv, pc = "check_hash", parseWitnessLock(Lock).tag = "some"
               PROVE  /\ parseWitnessLock(Lock) = Pair(raw_pubkey, raw_sig)
                      /\ buildWitnessLock(raw_pubkey, raw_sig) = [tag |-> "some", lock |-> Lock]
    BY DEF ReadsLikeTheSdk
  <2>1. Lock \in Bytes /\ raw_pubkey \in Bytes /\ raw_sig \in Bytes
    BY LockIsBytes DEF IndInv, TypeOK, PassedChecks
  <2>2. parse_witness(Lock) = Pair(raw_pubkey, raw_sig)
    BY DEF IndInv, PassedChecks
  <2>3. parseWitnessLock(Lock) = Pair(raw_pubkey, raw_sig)
    BY <2>1, <2>2, ContractReadsLikeSdk
  <2> QED
    BY <2>1, <2>3, ParsedIsRebuilt
<1> QED
  BY <1>1, Invariance, PTL

(* Where the script stands says which of its steps is next.                *)
LEMMA StepAt ==
    ASSUME [Next]_vars
    PROVE  /\ pc = "check_hash" => CheckHash \/ UNCHANGED vars
           /\ pc = "decode_pubkey" => DecodePubkey \/ UNCHANGED vars
           /\ pc = "decode_sig" => DecodeSig \/ UNCHANGED vars
           /\ pc = "verify" => VerifySig \/ UNCHANGED vars
           /\ pc = "returned" => UNCHANGED vars
<1>1. LoadScript => pc = "load_script"
  BY DEF LoadScript
<1>2. LoadTxHash => pc = "load_tx_hash"
  BY DEF LoadTxHash
<1>3. LoadWitness => pc = "load_witness"
  BY DEF LoadWitness
<1>4. ParseWitness => pc = "parse_witness"
  BY DEF ParseWitness
<1>5. (CheckHash => pc = "check_hash") /\ (DecodePubkey => pc = "decode_pubkey")
  BY DEF CheckHash, DecodePubkey
<1>6. (DecodeSig => pc = "decode_sig") /\ (VerifySig => pc = "verify")
  BY DEF DecodeSig, VerifySig
<1> QED
  BY <1>1, <1>2, <1>3, <1>4, <1>5, <1>6 DEF Next

(* A check that fails returns its own code, and the checks before it have  *)
(* passed; so ExitCodeMeaning holds of every step that returns.            *)
LEMMA StepExitCode == IndInv /\ ExitCodeMeaning /\ [Next]_vars => ExitCodeMeaning'
<1> SUFFICES ASSUME IndInv, ExitCodeMeaning, [Next]_vars, pc' = "returned"
             PROVE  ExitCodeMeaning'
  BY DEF ExitCodeMeaning
<1> USE DEF ERR_INVALID_ARGS_LENGTH, ERR_INVALID_WITNESS, ERR_PUBKEY_HASH_MISMATCH,
        ERR_INVALID_PUBKEY, ERR_INVALID_SIGNATURE, ERR_SIGNATURE_VERIFICATION
<1>0. env' = env
  BY EnvFixed
<1>1. /\ script' = script /\ tx_hash' = tx_hash /\ witness_args' = witness_args
      /\ Lock' = Lock /\ HasArgs' = HasArgs /\ HasLock' = HasLock
  BY <1>0 DEF env, Lock, HasArgs, HasLock
<1>2. CASE pc = "returned"
  <2>1. exit' = exit
    BY <1>2, StepAt DEF vars
  <2> QED
    BY <1>1, <1>2, <2>1 DEF ExitCodeMeaning
<1>3. CASE LoadScript
  <2>1. exit' = 1 /\ ~HasArgs
    BY <1>3 DEF LoadScript, Check, Return, HasArgs
  <2> QED
    BY <1>1, <2>1, SMTT(30) DEF ExitCodeMeaning
<1>4. CASE LoadTxHash \/ LoadWitness
  <2>1. exit' = 2 /\ HasArgs /\ ~HasLock
    <3>1. HasArgs
      BY <1>4 DEF LoadTxHash, LoadWitness, IndInv, PassedChecks
    <3> QED
      BY <1>4, <3>1 DEF LoadTxHash, LoadWitness, Check, Return, HasLock
  <2> QED
    BY <1>1, <2>1, SMTT(30) DEF ExitCodeMeaning
<1>5. CASE ParseWitness
  <2>1. HasArgs /\ HasLock /\ Lock \in Bytes
    BY <1>5, LockIsBytes DEF ParseWitness, IndInv, PassedChecks, HasLock
  <2>2. parse_witness(Lock) = None
    BY <1>5, <2>1, ParseIsTotal, SMTT(30) DEF ParseWitness, Lock, Pair
  <2>3. exit' = 2
    BY <1>5, <2>2, SMTT(30) DEF ParseWitness, Return, Lock, None
  <2> QED
    BY <1>1, <2>1, <2>2, <2>3, SMTT(30) DEF ExitCodeMeaning, None
<1>6. ASSUME pc \in AfterParse
      PROVE  ExitCodeMeaning'
  <2> DEFINE hashMatches == blake2b_256(raw_pubkey) = script.val
             keyDecodes == Len(raw_pubkey) = PUBLIC_KEY_LEN /\ try_from_bytes(raw_pubkey)
             sigSized == Len(raw_sig) = SIGNATURE_LEN
             verifies == verify(raw_pubkey, tx_hash.val, raw_sig)
  <2>1. HasArgs /\ HasLock /\ parse_witness(Lock) = Pair(raw_pubkey, raw_sig)
    BY <1>6 DEF IndInv, PassedChecks, HasLock
  <2>2. /\ parse_witness(Lock).tag = "some"
        /\ parse_witness(Lock).pubkey = raw_pubkey /\ parse_witness(Lock).sig = raw_sig
    BY <2>1, SMTT(30) DEF Pair
  <2>3. \/ exit' = 3 /\ ~hashMatches
        \/ exit' = 4 /\ hashMatches /\ ~keyDecodes
        \/ exit' = 5 /\ hashMatches /\ keyDecodes /\ ~sigSized
        \/ exit' = 6 /\ hashMatches /\ keyDecodes /\ sigSized /\ ~verifies
        \/ exit' = 0
    <3>1. CASE pc = "check_hash"
      <4>1. CheckHash
        BY <3>1, StepAt DEF vars
      <4> QED
        BY <4>1 DEF CheckHash, Check, Return
    <3>2. CASE pc = "decode_pubkey"
      <4>1. DecodePubkey
        BY <3>2, StepAt DEF vars
      <4>2. hashMatches
        BY <3>2 DEF IndInv, PassedChecks
      <4> QED
        BY <4>1, <4>2 DEF DecodePubkey, Check, Return
    <3>3. CASE pc = "decode_sig"
      <4>1. DecodeSig
        BY <3>3, StepAt DEF vars
      <4>2. hashMatches /\ keyDecodes
        BY <3>3 DEF IndInv, PassedChecks
      <4> QED
        BY <4>1, <4>2 DEF DecodeSig, Check, Return
    <3>4. CASE pc = "verify"
      <4>1. VerifySig
        BY <3>4, StepAt DEF vars
      <4>2. hashMatches /\ keyDecodes /\ sigSized
        BY <3>4 DEF IndInv, PassedChecks
      <4> QED
        BY <4>1, <4>2 DEF VerifySig, Return
    <3> QED
      BY <1>6, <3>1, <3>2, <3>3, <3>4
  <2> QED
    BY <1>1, <2>1, <2>2, <2>3, SMTT(30) DEF ExitCodeMeaning
<1>7. CASE UNCHANGED vars
  BY <1>2, <1>7 DEF vars
<1> QED
  BY <1>2, <1>3, <1>4, <1>5, <1>6, <1>7
  DEF Next, CheckHash, DecodePubkey, DecodeSig, VerifySig

(* Every return code names the first check that failed, and a panic is no  *)
(* return code: the table of error codes in the README is exact.           *)
THEOREM ExitCodesAreExact == Spec => []ExitCodeMeaning
<1>1. Init => ExitCodeMeaning
  BY DEF Init, ExitCodeMeaning
<1> QED
  BY <1>1, StepExitCode, Invariance, PTL DEF Spec

(* program_entry decides as the policy demands: it returns 0 for exactly   *)
(* the transactions whose witness holds the committed key and that key's   *)
(* signature of the transaction hash.                                      *)
THEOREM ImplementsPolicy == Spec => RefinesPolicy
<1>1. Init => Policy!Init
  BY DEF Init, Policy!Init, Verdict, env, Transactions
<1>2. IndInv /\ IndInv' /\ [Next]_vars => [Policy!Decide]_<<env, Verdict>>
  <2> SUFFICES ASSUME IndInv, IndInv', [Next]_vars
               PROVE  [Policy!Decide]_<<env, Verdict>>
    OBVIOUS
  <2>1. env' = env
    BY EnvFixed
  <2>2. Authorized(env)' <=> Authorized(env)
    BY <2>1 DEF Authorized
  <2>3. CASE pc = "returned"
    <3>1. UNCHANGED vars
      BY <2>3, StepAt
    <3> QED
      BY <2>1, <3>1 DEF vars, Verdict
  <2>4. CASE pc # "returned" /\ pc' # "returned"
    BY <2>1, <2>4 DEF Verdict
  <2>5. CASE pc # "returned" /\ pc' = "returned"
    <3>1. exit' = 0 <=> Authorized(env)
      BY <2>2, <2>5 DEF IndInv, PassedChecks
    <3>2. Verdict = "undecided" /\ Verdict' = IF Authorized(env) THEN "unlock" ELSE "refuse"
      BY <2>5, <3>1 DEF Verdict
    <3> QED
      BY <2>1, <3>2 DEF Policy!Decide
  <2> QED
    BY <2>3, <2>4, <2>5
<1> QED
  BY <1>1, <1>2, Invariance, PTL DEF Spec, RefinesPolicy, Policy!Spec

-----------------------------------------------------------------------------
SealInv == IndInv /\ (KeysMatch /\ inputs[1] => Authorized(env))

(* The contract finds in the lock field buildWitnessLock makes the key and *)
(* the signature it was made of, at their places.                          *)
LEMMA LayoutParses ==
    ASSUME NEW pk \in Bytes, NEW sig \in Bytes,
           Len(pk) = PUBLIC_KEY_LEN, Len(sig) = SIGNATURE_LEN,
           Layout(pk, sig) \in Bytes
    PROVE  parse_witness(Layout(pk, sig)) = Pair(pk, sig)
<1>1. parseWitnessLock(Layout(pk, sig)) = Pair(pk, sig)
  <2>1. <<>> \in Bytes
    BY SMTT(30) DEF Bytes
  <2> QED
    BY <2>1, RoundTrip
<1>2. parseWitnessLock(Layout(pk, sig)).tag = "some"
  BY <1>1, SMTT(30) DEF Pair
<1> QED
  BY <1>1, <1>2, ContractReadsLikeSdk

(* Such a lock field carries a key and a signature, and they are those.    *)
LEMMA LayoutCarries ==
    ASSUME NEW pk \in Bytes, NEW sig \in Bytes,
           Len(pk) = PUBLIC_KEY_LEN, Len(sig) = SIGNATURE_LEN,
           Layout(pk, sig) \in Bytes
    PROVE  /\ CarriesKeyAndSig(Layout(pk, sig))
           /\ KeyOf(Layout(pk, sig)) = pk /\ SigOf(Layout(pk, sig)) = sig
<1> DEFINE lock == Layout(pk, sig)
<1>1. parse_witness(lock) = Pair(pk, sig)
  BY LayoutParses
<1> HIDE DEF lock
<1>2. lock \in Bytes
  BY DEF lock
<1>3. CarriesKeyAndSig(lock) /\ pk = KeyOf(lock) /\ sig = SigOf(lock)
  BY <1>1, <1>2, ParseFindsKeyAndSig
<1> QED
  BY <1>3 DEF lock

(* With a matching pair and an own input first, what sealTransaction makes *)
(* is authorised.                                                          *)
LEMMA SealInit == SealedBySdk => SealInv
<1> SUFFICES ASSUME SealedBySdk PROVE SealInv
  OBVIOUS
<1>1. keypair.secretKey \in SecretKeys /\ inputs \in InputLists
  BY DEF SealedBySdk, Keypairs
<1>2. keypair.publicKey \in PublicKeys
  BY DEF SealedBySdk, Keypairs
<1>3. PICK h \in TxHashes, seed \in Seeds, first \in DOMAIN inputs :
         /\ GroupStart(inputs, first)
         /\ script = Ok(buildLockScript(keypair.publicKey))
         /\ tx_hash = Ok(h)
         /\ witness_args = Ok(sealTransaction(Len(inputs), keypair, h, seed)[first])
  BY DEF SealedBySdk
<1> DEFINE pk == keypair.publicKey
           sig == sign(keypair.secretKey, h, seed)
           lock == Layout(pk, sig)
           witnesses == sealTransaction(Len(inputs), keypair, h, seed)
<1>4. /\ pk \in Bytes /\ Len(pk) = PUBLIC_KEY_LEN
      /\ Len(blake2b_256(pk)) = LOCK_ARGS_LEN /\ blake2b_256(pk) \in ScriptArgs
      /\ sig \in Bytes /\ Len(sig) = SIGNATURE_LEN
      /\ lock \in LockFields
  BY <1>1, <1>2, KeyFileAssumption, SignatureAssumption
<1>5. lock \in Bytes
  BY <1>4, FieldsAssumption
<1>6. PICK n \in Nat : inputs \in [1..n -> BOOLEAN] /\ Len(inputs) = n /\ n >= 1
  BY <1>1, InputsAssumption, SMTT(30) DEF InputLists
<1>7. /\ witnesses = [i \in 1..n |-> IF i = 1 THEN Some(lock) ELSE None]
      /\ \A i \in 1..n : witnesses[i] \in WitnessArgs
  <2>1. buildWitnessLock(pk, sig).lock = lock
    BY <1>4 DEF buildWitnessLock
  <2>2. witnesses = [i \in 1..n |-> IF i = 1 THEN Some(lock) ELSE None]
    BY <1>6, <2>1 DEF sealTransaction
  <2>3. \A i \in 1..n : witnesses[i] \in {Some(lock), None}
    BY <2>2
  <2> HIDE DEF lock, witnesses
  <2> QED
    BY <1>4, <2>2, <2>3 DEF WitnessArgs
<1>8. Init
  <2>1. witnesses[first] \in WitnessArgs
    BY <1>6, <1>7
  <2> QED
    BY <1>3, <1>4, <2>1 DEF SealedBySdk, Init, ScriptResults, TxHashResults, WitnessResults,
       Results, buildLockScript
<1>9. ASSUME KeysMatch, inputs[1] PROVE Authorized(env)
  <2>1. witness_args = Ok(Some(lock))
    <3>1. first = 1
      BY <1>3, <1>6, <1>9, SMTT(30) DEF GroupStart
    <3>2. witnesses[1] = Some(lock)
      BY <1>6, <1>7, SMTT(30)
    <3> QED
      BY <1>3, <3>1, <3>2
  <2>2. verify(pk, h, sig) /\ try_from_bytes(pk)
    BY <1>1, <1>9, SignatureAssumption DEF KeysMatch
  <2>3. CarriesKeyAndSig(lock) /\ KeyOf(lock) = pk /\ SigOf(lock) = sig
    BY <1>4, <1>5, LayoutCarries
  <2> HIDE DEF lock, sig, pk
  <2>4. script = Ok(blake2b_256(pk)) /\ tx_hash = Ok(h)
    BY <1>3 DEF buildLockScript, pk
  <2> QED
    BY <1>4, <2>1, <2>2, <2>3, <2>4 DEF Authorized, env, Ok, Some
<1> QED
  BY <1>8, <1>9, InitIndInv DEF SealInv

(* A transaction made by others comes with no matching key file, so that   *)
(* SealInv asks only that no check was passed yet.                         *)
LEMMA OthersInit == MadeByOthers => SealInv
  BY InitIndInv DEF MadeByOthers, SealInv, KeysMatch

(* The script reads the transaction and does not change it.                *)
LEMMA SealStep == SealInv /\ [SealedNext]_sealedVars => SealInv'
<1> SUFFICES ASSUME SealInv, [SealedNext]_sealedVars PROVE SealInv'
  OBVIOUS
<1>1. IndInv /\ [Next]_vars /\ UNCHANGED <<keypair, inputs>>
  BY DEF SealInv, SealedNext, sealedVars
<1>2. env' = env
  BY <1>1, EnvFixed
<1>3. Authorized(env)' <=> Authorized(env)
  BY <1>2 DEF Authorized
<1> QED
  BY <1>1, <1>3, StepIndInv DEF SealInv, KeysMatch

(* Every transaction sealed with a generated key pair unlocks the wallet's *)
(* inputs when they come first, as in every transfer the wallet builds.    *)
THEOREM SealedTransactionsUnlock == SealedSpec => []SealedUnlocks
<1>1. SealInv => SealedUnlocks
  BY DEF SealInv, IndInv, PassedChecks, SealedUnlocks
<1> QED
  BY <1>1, SealInit, OthersInit, SealStep, PTL DEF SealedSpec, SealedInit

(* What is fixed when the SDK has sealed: the group of the wallet finds an *)
(* empty witness, or the key of its args with a signature that verifies    *)
(* only if the two keys of the key file belong together.                   *)
SealFacts ==
    keypair # NoKeypair =>
        /\ HasArgs
        /\ tx_hash.tag = "ok" /\ witness_args.tag = "ok"
        /\ ~inputs[1] => witness_args.val.tag # "some"
        /\ inputs[1] =>
              /\ HasLock
              /\ parse_witness(Lock).tag = "some"
              /\ LET pk == parse_witness(Lock).pubkey
                     sig == parse_witness(Lock).sig
                 IN  /\ pk = keypair.publicKey
                     /\ blake2b_256(pk) = script.val
                     /\ Len(pk) = PUBLIC_KEY_LEN
                     /\ Len(sig) = SIGNATURE_LEN
                     /\ verify(pk, tx_hash.val, sig) => KeysMatch

(* sealTransaction leaves a transaction of which SealFacts holds.          *)
LEMMA SealFactsInit == SealedBySdk => SealFacts
<1> SUFFICES ASSUME SealedBySdk PROVE SealFacts
  OBVIOUS
<1>1. keypair.secretKey \in SecretKeys /\ inputs \in InputLists
  BY DEF SealedBySdk, Keypairs
<1>2. keypair.publicKey \in PublicKeys
  BY DEF SealedBySdk, Keypairs
<1>3. PICK h \in TxHashes, seed \in Seeds, first \in DOMAIN inputs :
         /\ GroupStart(inputs, first)
         /\ script = Ok(buildLockScript(keypair.publicKey))
         /\ tx_hash = Ok(h)
         /\ witness_args = Ok(sealTransaction(Len(inputs), keypair, h, seed)[first])
  BY DEF SealedBySdk
<1> DEFINE pk == keypair.publicKey
           sig == sign(keypair.secretKey, h, seed)
           lock == Layout(pk, sig)
           witnesses == sealTransaction(Len(inputs), keypair, h, seed)
<1>4. /\ pk \in Bytes /\ Len(pk) = PUBLIC_KEY_LEN
      /\ Len(blake2b_256(pk)) = LOCK_ARGS_LEN
      /\ sig \in Bytes /\ Len(sig) = SIGNATURE_LEN
      /\ lock \in LockFields
  BY <1>1, <1>2, KeyFileAssumption, SignatureAssumption
<1>5. lock \in Bytes
  BY <1>4, FieldsAssumption
<1>6. PICK n \in Nat : inputs \in [1..n -> BOOLEAN] /\ Len(inputs) = n /\ n >= 1
  BY <1>1, InputsAssumption, SMTT(30) DEF InputLists
<1>7. witnesses = [i \in 1..n |-> IF i = 1 THEN Some(lock) ELSE None]
  <2>1. buildWitnessLock(pk, sig).lock = lock
    BY <1>4 DEF buildWitnessLock
  <2> QED
    BY <1>6, <2>1 DEF sealTransaction
<1>8. HasArgs /\ tx_hash.tag = "ok" /\ witness_args.tag = "ok" /\ tx_hash.val = h
  <2>1. script.tag = "ok" /\ script.val = blake2b_256(pk)
    BY <1>3 DEF Ok, buildLockScript
  <2>2. tx_hash.tag = "ok" /\ witness_args.tag = "ok" /\ tx_hash.val = h
    BY <1>3 DEF Ok
  <2> HIDE DEF pk, sig, lock, witnesses
  <2> QED
    BY <1>4, <2>1, <2>2 DEF HasArgs
<1>9. keypair # NoKeypair
  BY SMTT(30) DEF SealedBySdk, Keypairs, NoKeypair
<1>10. CASE ~inputs[1]
  <2>1. first # 1 /\ first \in 1..n
    BY <1>3, <1>6, <1>10 DEF GroupStart
  <2>2. witness_args.val = None
    BY <1>3, <1>7, <2>1 DEF Ok
  <2> QED
    BY <1>8, <1>10, <2>2, SMTT(30) DEF SealFacts, None
<1>11. CASE inputs[1]
  <2>1. first = 1
    BY <1>3, <1>6, <1>11, SMTT(30) DEF GroupStart
  <2>2. witnesses[1] = Some(lock)
    BY <1>6, <1>7, SMTT(30)
  <2>3. HasLock /\ Lock = lock
    BY <1>3, <1>8, <2>1, <2>2, SMTT(30) DEF HasLock, Lock, Ok, Some
  <2>4. parse_witness(lock) = Pair(pk, sig)
    BY <1>4, <1>5, LayoutParses
  <2>5. verify(pk, h, sig) => KeysMatch
    BY <1>1, <1>2, <1>9, OtherKeysAssumption, SMTT(30) DEF KeysMatch
  <2>6. blake2b_256(pk) = script.val
    BY <1>3 DEF Ok, buildLockScript
  <2>8. pk = keypair.publicKey
    OBVIOUS
  <2> HIDE DEF lock, sig, pk
  <2>7. /\ parse_witness(Lock).tag = "some"
        /\ parse_witness(Lock).pubkey = pk /\ parse_witness(Lock).sig = sig
    BY <2>3, <2>4, SMTT(30) DEF Pair
  <2> QED
    BY <1>4, <1>8, <1>11, <2>3, <2>5, <2>6, <2>7, <2>8 DEF SealFacts
<1> QED
  BY <1>6, <1>10, <1>11

(* A key file whose public key is not the secret key's, or is no key, and  *)
(* inputs of others before the wallet's, each fail with the code of their  *)
(* own check and no other.                                                 *)
THEOREM BadSealsAreRefused == SealedSpec => []BadSealIsRefused
<1> DEFINE Inv == SealInv /\ ExitCodeMeaning /\ SealFacts
<1>1. SealedInit => Inv
  <2>1. MadeByOthers => SealFacts
    BY DEF MadeByOthers, SealFacts
  <2>2. SealedInit => ExitCodeMeaning
    BY DEF SealedInit, SealedBySdk, MadeByOthers, Init, ExitCodeMeaning
  <2> QED
    BY <2>1, <2>2, SealInit, OthersInit, SealFactsInit DEF SealedInit
<1>2. Inv /\ [SealedNext]_sealedVars => Inv'
  <2> SUFFICES ASSUME Inv, [SealedNext]_sealedVars PROVE Inv'
    OBVIOUS
  <2>1. [Next]_vars /\ UNCHANGED <<keypair, inputs>>
    BY DEF SealedNext, sealedVars
  <2>2. script' = script /\ tx_hash' = tx_hash /\ witness_args' = witness_args
    BY <2>1, EnvFixed DEF env
  <2>3. SealFacts'
    <3>1. SealFacts /\ keypair' = keypair /\ inputs' = inputs
      BY <2>1
    <3> HIDE DEF Inv
    <3>2. (HasArgs' <=> HasArgs) /\ (HasLock' <=> HasLock) /\ Lock' = Lock
      BY <2>2 DEF HasArgs, HasLock, Lock
    <3>3. KeysMatch' <=> KeysMatch
      BY <3>1 DEF KeysMatch
    <3> QED
      BY <2>2, <3>1, <3>2, <3>3 DEF SealFacts
  <2>4. ExitCodeMeaning'
    BY <2>1, StepExitCode DEF SealInv
  <2> QED
    BY <2>3, <2>4, SealStep
<1>3. Inv => BadSealIsRefused
  <2> SUFFICES ASSUME Inv, pc = "returned", keypair # NoKeypair
               PROVE  /\ ~inputs[1] => exit = ERR_INVALID_WITNESS
                      /\ inputs[1] /\ ~KeysMatch =>
                            exit = IF try_from_bytes(keypair.publicKey)
                                     THEN ERR_SIGNATURE_VERIFICATION ELSE ERR_INVALID_PUBKEY
    BY DEF BadSealIsRefused
  <2>0. SealInv /\ ExitCodeMeaning /\ SealFacts
    OBVIOUS
  <2> HIDE DEF Inv
  <2>1. ASSUME ~inputs[1] PROVE exit = ERR_INVALID_WITNESS
    <3>1. HasArgs /\ ~HasLock
      BY <2>0, <2>1 DEF SealFacts, HasLock
    <3> QED
      BY <2>0, <3>1 DEF ExitCodeMeaning
  <2>2. ASSUME inputs[1], ~KeysMatch
        PROVE  exit = IF try_from_bytes(keypair.publicKey)
                        THEN ERR_SIGNATURE_VERIFICATION ELSE ERR_INVALID_PUBKEY
    <3>1. exit # 1 /\ exit # 2
      <4>1. HasArgs /\ HasLock /\ parse_witness(Lock).tag = "some"
        BY <2>0, <2>2 DEF SealFacts
      <4> QED
        BY <2>0, <4>1 DEF ExitCodeMeaning, ERR_INVALID_ARGS_LENGTH, ERR_INVALID_WITNESS
    <3>2. ASSUME exit = 0 PROVE FALSE
      <4>1. /\ CarriesKeyAndSig(Lock)
            /\ verify(KeyOf(Lock), tx_hash.val, SigOf(Lock))
        <5>1. Authorized(env)
          BY <2>0, <3>2 DEF SealInv, IndInv, PassedChecks
        <5> QED
          BY <5>1 DEF Authorized, env, Lock
      <4>2. Lock \in Bytes
        BY <2>0, <2>2, LockIsBytes DEF SealInv, IndInv, SealFacts, HasLock
      <4>3. parse_witness(Lock) = Pair(KeyOf(Lock), SigOf(Lock))
        BY <4>1, <4>2, ParseFindsKeyAndSig
      <4>4. parse_witness(Lock).pubkey = KeyOf(Lock) /\ parse_witness(Lock).sig = SigOf(Lock)
        BY <4>3, SMTT(30) DEF Pair
      <4> QED
        BY <2>0, <2>2, <4>1, <4>4 DEF SealFacts
    <3>3. exit \in 3..6
      <4>1. exit \in {0} \cup ErrorCodes
        BY <2>0 DEF SealInv, IndInv, PassedChecks
      <4> QED
        BY <3>1, <3>2, <4>1, SMTT(30) DEF ErrorCodes, ERR_INVALID_ARGS_LENGTH, ERR_INVALID_WITNESS,
           ERR_PUBKEY_HASH_MISMATCH, ERR_INVALID_PUBKEY, ERR_INVALID_SIGNATURE,
           ERR_SIGNATURE_VERIFICATION
    <3>4. LET pubkey == parse_witness(Lock).pubkey
              sig == parse_witness(Lock).sig
          IN  /\ pubkey = keypair.publicKey
              /\ blake2b_256(pubkey) = script.val
              /\ Len(pubkey) = PUBLIC_KEY_LEN
              /\ Len(sig) = SIGNATURE_LEN
              /\ ~verify(pubkey, tx_hash.val, sig)
      BY <2>0, <2>2 DEF SealFacts
    <3> QED
      BY <2>0, <3>3, <3>4 DEF ExitCodeMeaning
  <2> QED
    BY <2>1, <2>2
<1> HIDE DEF Inv
<1> QED
  BY <1>1, <1>2, <1>3, PTL DEF SealedSpec
==============================================================================
