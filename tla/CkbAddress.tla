----------------------------- MODULE CkbAddress -----------------------------
(***************************************************************************)
(* CKB addresses (sdk/src/address.ts) on their way from the wallet that    *)
(* writes one to the wallet that pays it: a lock script and a network are  *)
(* encoded, the text is copied by hand, and the paying wallet decodes it   *)
(* and compares its network with its own (validateTransferRequest).        *)
(*                                                                         *)
(* A text is a sequence of code points.  Bytes, 5-bit words, the checksum  *)
(* polynomial and its constants are those of the code; the code hash has   *)
(* CODE_HASH_BYTES bytes and the accumulator of convertBits AccWidth bits, *)
(* so that both can be small.                                              *)
(***************************************************************************)
EXTENDS Integers, Sequences, SequencesExt, Bitwise

CONSTANTS
    CODE_HASH_BYTES,
    AccWidth,       \* width of convertBits's accumulator, 32 in the code
    Scripts,        \* lock scripts: [codeHash, hashType, args]
    Foreign,        \* payload words other programs put into an address
    Networks,       \* networks a wallet may be configured for
    TypoChars,      \* code points a slip may put into the text
    MaxTypos

VARIABLES
    script, network,    \* what the wallet's own address is for
    stage,              \* "new", "copied" or "done"
    foreign,            \* whether another program wrote the address
    written,            \* the address as it was written
    typed,              \* the address as it reaches the paying wallet
    slips,              \* positions where the two differ
    result              \* of decoding it, and of the comparison of networks

vars == <<script, network, stage, foreign, written, typed, slips, result>>

Failed == [ok |-> FALSE]

-----------------------------------------------------------------------------
(* Prefixes and hash types.                                                *)

ckb == <<99, 107, 98>>
ckt == <<99, 107, 116>>

hrpForNetwork(n) == IF n = "mainnet" THEN ckb ELSE ckt

networkForHrp(hrp) == IF hrp = ckb THEN "mainnet" ELSE "testnet"

(* A hash type is <<"data", 0>>, <<"type", 0>>, a versioned <<"data", v>>, *)
(* or a name the code does not know.                                       *)
hashTypeToByte_Unshifted(t) ==
    CASE t = <<"type", 0>> -> [ok |-> TRUE, byte |-> 1]
      [] t[1] = "data" /\ t[2] \in 0..127 -> [ok |-> TRUE, byte |-> t[2]]
      [] OTHER -> Failed

hashTypeToByte(t) ==
    CASE t = <<"data", 0>> -> [ok |-> TRUE, byte |-> 0]
      [] t = <<"type", 0>> -> [ok |-> TRUE, byte |-> 1]
      [] t[1] = "data" /\ t[2] \in 1..127 -> [ok |-> TRUE, byte |-> 2 * t[2]]
      [] OTHER -> Failed

byteToHashType(b) ==
    CASE b = 1 -> [ok |-> TRUE, hashType |-> <<"type", 0>>]
      [] b \in 0..254 /\ b % 2 = 0 -> [ok |-> TRUE, hashType |-> <<"data", b \div 2>>]
      [] OTHER -> Failed

-----------------------------------------------------------------------------
(* The checksum.                                                           *)

(* A 30-bit checksum is its six 5-bit digits, the top one first; <<  5 and *)
(* ^ then work digit by digit.                                             *)
Digits(n) == [i \in 1..6 |-> (n \div 2^(5 * (6 - i))) % 2^5]
XorTable == [x, y \in 0..31 |-> x ^^ y]
Xor30(a, b) == [i \in 1..6 |-> XorTable[a[i], b[i]]]

generators == <<Digits(\h3b6a57b2), Digits(\h26508e6d), Digits(\h1ea119fa),
                Digits(\h3d4233dd), Digits(\h2a1462b3)>>
BECH32M_CONST == Digits(\h2bc830a3)

(* What the generators contribute for each value of the top digit.         *)
Feedback == [top \in 0..31 |->
    LET sum[i \in 0..5] ==
          IF i = 0 THEN Digits(0)
          ELSE IF (top \div 2^(i - 1)) % 2 = 1 THEN Xor30(sum[i - 1], generators[i])
                                               ELSE sum[i - 1]
    IN  sum[5]]

polymod(values) ==
    LET checksum[i \in 0..Len(values)] ==
          IF i = 0 THEN Digits(1)
          ELSE LET c == checksum[i - 1]
               IN  Xor30(Append(Tail(c), values[i]), Feedback[c[1]])
    IN  checksum[Len(values)]

hrpExpand_HighBits(hrp) == [i \in DOMAIN hrp |-> hrp[i] \div 2^5] \o <<0>>

hrpExpand(hrp) ==
    [i \in DOMAIN hrp |-> hrp[i] \div 2^5] \o <<0>> \o [i \in DOMAIN hrp |-> hrp[i] % 2^5]

createChecksum(hrp, data) ==
    Xor30(polymod(hrpExpand(hrp) \o data \o <<0, 0, 0, 0, 0, 0>>), BECH32M_CONST)

verifyChecksum(hrp, data) == polymod(hrpExpand(hrp) \o data) = BECH32M_CONST

-----------------------------------------------------------------------------
(* Bytes to words and back.                                                *)

(* The loop: shift a value in, push every whole group of toBits.           *)
Shifted(data, fromBits, toBits) ==
    LET after[k \in 0..Len(data)] ==
          IF k = 0 THEN [acc |-> 0, bits |-> 0, out |-> <<>>]
          ELSE LET s == after[k - 1]
                   acc == (s.acc * 2^fromBits + data[k]) % 2^AccWidth
                   bits == s.bits + fromBits
               IN  [acc |-> acc, bits |-> bits % toBits,
                    out |-> s.out \o [i \in 1..(bits \div toBits) |->
                                      (acc \div 2^(bits - i * toBits)) % 2^toBits]]
    IN  after[Len(data)]

convertBits_AnyPadding(data, fromBits, toBits, pad) ==
    LET s == Shifted(data, fromBits, toBits)
        rest == (s.acc * 2^(toBits - s.bits)) % 2^toBits
    IN  [ok |-> TRUE, out |-> IF pad /\ s.bits > 0 THEN Append(s.out, rest) ELSE s.out]

convertBits(data, fromBits, toBits, pad) ==
    LET s == Shifted(data, fromBits, toBits)
        rest == (s.acc * 2^(toBits - s.bits)) % 2^toBits
    IN  CASE \E i \in DOMAIN data : data[i] \notin 0..(2^fromBits - 1) -> Failed
          [] ~pad /\ (s.bits >= fromBits \/ rest # 0) -> Failed
          [] OTHER -> [ok |-> TRUE,
                       out |-> IF pad /\ s.bits > 0 THEN Append(s.out, rest) ELSE s.out]

-----------------------------------------------------------------------------
(* Texts.                                                                  *)

(* "qpzry9x8gf2tvdw0s3jn54khce6mua7l" and the separator "1".               *)
CHARSET == <<113, 112, 122, 114, 121, 57, 120, 56, 103, 102, 50, 116, 118, 100, 119, 48,
             115, 51, 106, 110, 53, 52, 107, 104, 99, 101, 54, 109, 117, 97, 55, 108>>
CHARSET_MAP == [c \in Range(CHARSET) |-> (CHOOSE i \in 1..32 : CHARSET[i] = c) - 1]
Separator == 49

toLowerCase(text) == [i \in DOMAIN text |-> IF text[i] \in 65..90 THEN text[i] + 32 ELSE text[i]]
toUpperCase(text) == [i \in DOMAIN text |-> IF text[i] \in 97..122 THEN text[i] - 32 ELSE text[i]]

(* The text with these payload words, checksum included.                   *)
Text(hrp, words) ==
    LET all == words \o createChecksum(hrp, words)
    IN  hrp \o <<Separator>> \o [i \in DOMAIN all |-> CHARSET[all[i] + 1]]

encodeBech32m(hrp, payload) == Text(hrp, convertBits(payload, 8, 5, TRUE).out)

decodeBech32m(address) ==
    LET normalized == toLowerCase(address)
        ones == {i \in DOMAIN normalized : normalized[i] = Separator}
        sep == IF ones = {} THEN 0 ELSE CHOOSE i \in ones : \A j \in ones : j <= i
        hrp == SubSeq(normalized, 1, sep - 1)
        chars == SubSeq(normalized, sep + 1, Len(normalized))
        data == [i \in DOMAIN chars |-> CHARSET_MAP[chars[i]]]
        payload == convertBits(SubSeq(data, 1, Len(data) - 6), 5, 8, FALSE)
    IN  CASE normalized # address /\ toUpperCase(normalized) # address -> Failed
          [] sep <= 1 \/ sep + 6 > Len(normalized) -> Failed
          [] \E i \in DOMAIN chars : chars[i] \notin DOMAIN CHARSET_MAP -> Failed
          [] ~verifyChecksum(hrp, data) -> Failed
          [] ~payload.ok -> Failed
          [] OTHER -> [ok |-> TRUE, hrp |-> hrp, payload |-> payload.out]

encodeCkbAddress(s, n) ==
    LET hashType == hashTypeToByte(s.hashType)
    IN  IF Len(s.codeHash) # CODE_HASH_BYTES \/ ~hashType.ok THEN Failed
        ELSE [ok |-> TRUE,
              text |-> encodeBech32m(hrpForNetwork(n),
                                     <<0>> \o s.codeHash \o <<hashType.byte>> \o s.args)]

decodeCkbAddress(address) ==
    LET d == decodeBech32m(address)
        hashType == byteToHashType(d.payload[CODE_HASH_BYTES + 2])
    IN  CASE ~d.ok -> Failed
          [] Len(d.payload) < CODE_HASH_BYTES + 2 -> Failed
          [] d.payload[1] # 0 -> Failed
          [] d.hrp \notin {ckb, ckt} -> Failed
          [] ~hashType.ok -> Failed
          [] OTHER -> [ok |-> TRUE, network |-> networkForHrp(d.hrp),
                       script |-> [codeHash |-> SubSeq(d.payload, 2, CODE_HASH_BYTES + 1),
                                   hashType |-> hashType.hashType,
                                   args |-> SubSeq(d.payload, CODE_HASH_BYTES + 3,
                                                   Len(d.payload))]]

recipientMatchesNetwork(from, to) == (from = "mainnet") <=> (to = "mainnet")

-----------------------------------------------------------------------------
(* An address's way.                                                       *)

Init ==
    /\ script \in Scripts /\ network \in Networks
    /\ stage = "new" /\ foreign = FALSE
    /\ written = <<>> /\ typed = <<>> /\ slips = {}
    /\ result = Failed

Write(text, byOther) ==
    /\ stage = "new"
    /\ stage' = "copied"
    /\ written' = text /\ typed' = text
    /\ foreign' = byOther
    /\ UNCHANGED <<slips, result>>

(* addressFromPublicKey: the wallet's own address.                         *)
Encode ==
    LET e == encodeCkbAddress(script, network)
    IN  /\ e.ok
        /\ Write(e.text, FALSE)
        /\ UNCHANGED <<script, network>>

EncodeFails ==
    /\ stage = "new"
    /\ ~encodeCkbAddress(script, network).ok
    /\ stage' = "done"
    /\ UNCHANGED <<script, network, foreign, written, typed, slips, result>>

(* Another program's address: any words under a valid checksum.  The       *)
(* wallet's own script and network play no part any more.                  *)
EncodeElsewhere(hrp, words) ==
    /\ Write(Text(hrp, words), TRUE)
    /\ script' = CHOOSE s \in Scripts : TRUE
    /\ network' = CHOOSE n \in Networks : TRUE

(* Slips are taken from left to right; another program's address is copied *)
(* without one.                                                            *)
Mistype(i, c) ==
    /\ stage = "copied" /\ ~foreign
    /\ typed[i] # c
    /\ \A j \in slips : j < i
    /\ Cardinality(slips) < MaxTypos
    /\ typed' = [typed EXCEPT ![i] = c]
    /\ slips' = slips \cup {i}
    /\ UNCHANGED <<script, network, stage, foreign, written, result>>

(* QR codes carry addresses in upper case.                                 *)
Capitalise ==
    /\ stage = "copied"
    /\ typed # toUpperCase(typed) /\ slips = {}
    /\ typed' = toUpperCase(typed)
    /\ UNCHANGED <<script, network, stage, foreign, written, slips, result>>

(* runTransfer decodes --to, and validateTransferRequest refuses the       *)
(* networks that do not match: the senders left are those that would pay.  *)
Decode ==
    LET d == decodeCkbAddress(typed)
    IN  /\ stage = "copied"
        /\ result' = IF d.ok
                     THEN d @@ [payers |-> {n \in Networks : recipientMatchesNetwork(n, d.network)}]
                     ELSE Failed
        /\ stage' = "done"
        /\ UNCHANGED <<script, network, foreign, written, typed, slips>>

Done == stage = "done" /\ UNCHANGED vars

Next ==
    \/ Encode
    \/ EncodeFails
    \/ \E hrp \in {ckb, ckt, <<98, 99>>}, words \in Foreign : EncodeElsewhere(hrp, words)
    \/ \E i \in 1..Len(typed), c \in TypoChars : Mistype(i, c)
    \/ Capitalise
    \/ Decode
    \/ Done

Spec == Init /\ [][Next]_vars

-----------------------------------------------------------------------------
(* Properties.                                                             *)

(* An address copied without a slip decodes to the script it was made for, *)
(* and the wallets that go on to pay it are those of its network and, as   *)
(* devnet and testnet share a prefix, of the other one of those two: none  *)
(* across the mainnet border.                                              *)
RoundTrip ==
    stage = "done" /\ ~foreign /\ written # <<>> /\ slips = {} =>
        /\ result.ok
        /\ result.script = script
        /\ result.payers = {n \in Networks : (n = "mainnet") <=> (network = "mainnet")}

(* An address with up to MaxTypos wrong characters never decodes, whatever *)
(* the characters: a wrong prefix, a stray separator, a character outside  *)
(* the charset, a change of case or of a data or checksum word.            *)
SlipIsCaught ==
    stage = "done" /\ slips # {} => ~result.ok

(* A text that decodes is, up to case, the one encodeCkbAddress writes     *)
(* for the script it decodes to: no second spelling of an address, by odd  *)
(* padding or an extra word, is accepted.                                  *)
OneSpelling ==
    stage = "done" /\ result.ok =>
        LET e == encodeCkbAddress(result.script, result.network)
        IN  e.ok /\ e.text = toLowerCase(typed)

=============================================================================
