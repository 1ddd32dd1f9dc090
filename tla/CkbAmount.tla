------------------------------ MODULE CkbAmount ------------------------------
(***************************************************************************)
(* Amounts on the command line (parseCkbAmount and formatCkb of            *)
(* sdk/src/cli.ts): typed in CKB, carried as shannons, printed in CKB.     *)
(*                                                                         *)
(* A text is a sequence of digits, dots and other characters.  One CKB is  *)
(* 10^Decimals shannons, 8 in the code.                                    *)
(***************************************************************************)
EXTENDS Naturals, Sequences, SequencesExt

CONSTANT Decimals

ASSUME DecimalsAssumption == Decimals \in Nat \ {0}

Dot == 10
Other == 11
Zeros(n) == [i \in 1..n |-> 0]
SHANNONS_PER_CKB == 10^Decimals

BigInt(digits) ==
    LET value[i \in 0..Len(digits)] == IF i = 0 THEN 0 ELSE 10 * value[i - 1] + digits[i]
    IN  value[Len(digits)]

(* The decimal digits of a number, at least n of them.                     *)
padStart(number, n) ==
    LET len == CHOOSE k \in 1..20 :
                 /\ k >= n /\ number < 10^k
                 /\ \A j \in 1..(k - 1) : j < n \/ number >= 10^j
    IN  [i \in 1..len |-> (number \div 10^(len - i)) % 10]

padEnd_None(digits) == IF Len(digits) > Decimals THEN SubSeq(digits, 1, Decimals) ELSE digits

padEnd(digits) == SubSeq(digits \o Zeros(Decimals), 1, Decimals)

(* value.split("."): what comes before the first dot, and between it and   *)
(* the second one; the code drops any further part.                        *)
Split(text) ==
    LET dots == {i \in DOMAIN text : text[i] = Dot} \cup {Len(text) + 1}
        first == CHOOSE i \in dots : \A j \in dots : i <= j
        later == dots \ {first}
        second == IF later = {} THEN first ELSE CHOOSE i \in later : \A j \in later : i <= j
    IN  [whole |-> SubSeq(text, 1, first - 1), fractional |-> SubSeq(text, first + 1, second - 1)]

(* Whether parseCkbAmount throws, and what it returns when it does not.    *)
Invalid(text) ==
    \/ Split(text).whole = <<>>
    \/ \E c \in ToSet(Split(text).whole) \cup ToSet(Split(text).fractional) : c \notin 0..9

parseCkbAmount(text) ==
    BigInt(Split(text).whole) * SHANNONS_PER_CKB + BigInt(padEnd(Split(text).fractional))

(* .replace(/0+$/, "")                                                     *)
trimEnd(digits) ==
    LET kept == {i \in DOMAIN digits : digits[i] # 0}
    IN  SubSeq(digits, 1, IF kept = {} THEN 0 ELSE CHOOSE i \in kept : \A j \in kept : j <= i)

formatCkb(value) ==
    LET whole == padStart(value \div SHANNONS_PER_CKB, 1)
        fractional == trimEnd(padStart(value % SHANNONS_PER_CKB, Decimals))
    IN  IF fractional = <<>> THEN whole ELSE whole \o <<Dot>> \o fractional
=============================================================================
