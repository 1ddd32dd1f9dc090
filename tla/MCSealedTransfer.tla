--------------------------- MODULE MCSealedTransfer ---------------------------
(* Every byte string up to one byte longer than a well-formed lock field,  *)
(* and what the SDK seals with two secret keys, any public key, two hashes *)
(* and two seeds; a signature is a byte that ties key and hash together    *)
(* and a byte of randomness.  Of the four public keys two are generated,   *)
(* one decodes and is nobody's, and one does not decode.                   *)
EXTENDS SealedTransfer

CONSTANT MaxLockField

MCHash(s) ==
    LET at(i) == IF i <= Len(s) THEN s[i] ELSE 0
    IN  <<Len(s) % 2, at(1), at(2)>>

(* The all-ones key does not decode.                                       *)
MCDecodes(pk) == pk # <<1, 1>>
MCVerify(pk, h, sig) == pk[2] = 0 /\ sig[1] = (pk[1] + h) % 2

MCSecretKeys == {0, 1}
MCSeeds == {0, 1}
MCTxHashes == {0, 1}
MCPublicKey(sk) == <<sk, 0>>
MCPublicKeys == [1..2 -> Byte]
MCSign(sk, h, seed) == <<(sk + h) % 2, seed>>

(* Too short; hashes of keys, and of one of the wrong length.              *)
MCScriptArgs == {<<>>, MCHash(<<1>>)} \cup {MCHash(pk) : pk \in MCPublicKeys}
MCLockFields == UNION {[1..n -> Byte] : n \in 0..MaxLockField}
==============================================================================
