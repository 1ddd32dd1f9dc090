---------------------------- MODULE SealedTransfer ----------------------------
(***************************************************************************)
(* A transaction sealed by the SDK (sealTransaction in sdk/src/wallet.ts)  *)
(* and judged by the lock script: the two ends of the witness format put   *)
(* together.  The key file may hold any secret key that signs and any      *)
(* bytes of the right length as its public key, for readKeypair looks at   *)
(* nothing but lengths; the raw transaction may spend cells of other       *)
(* locks too, as sealTransaction is exported and does not look.  Sealing   *)
(* happens in Init; the steps are those of the script, which runs once for *)
(* the group of inputs locked by the wallet's lock.  The script also meets *)
(* transactions no SDK sealed: then there is no key file (NoKeypair).      *)
(***************************************************************************)
EXTENDS DillithiumLock

CONSTANTS
    SecretKeys,
    PublicKeys,         \* what a key file can hold as its public key
    Seeds,              \* randomness of a signature
    public_key(_),      \* the public key generated with a secret key
    sign(_, _, _),      \* sign_message_with_seed: secret key, message, seed
    MaxInputs           \* inputs of the raw transaction

(* readKeypair checks the length; hashes have theirs.                      *)
ASSUME KeyFileAssumption ==
    \A pk \in PublicKeys :
        /\ pk \in Bytes /\ Len(pk) = PUBLIC_KEY_LEN
        /\ Len(blake2b_256(pk)) = LOCK_ARGS_LEN /\ blake2b_256(pk) \in ScriptArgs
(* ML-DSA: signatures have their length, generated keys decode, and a      *)
(* signature verifies under the key it was made for.                       *)
ASSUME SignatureAssumption ==
    \A sk \in SecretKeys :
        /\ public_key(sk) \in PublicKeys /\ try_from_bytes(public_key(sk))
        /\ \A h \in TxHashes, seed \in Seeds :
             LET sig == sign(sk, h, seed)
             IN  /\ sig \in Bytes /\ Len(sig) = SIGNATURE_LEN
                 /\ verify(public_key(sk), h, sig)
                 /\ \A pk \in PublicKeys : Layout(pk, sig) \in LockFields
(* An idealisation: no signature verifies under another key.               *)
ASSUME OtherKeysAssumption ==
    \A sk \in SecretKeys, pk \in PublicKeys, h \in TxHashes, seed \in Seeds :
        verify(pk, h, sign(sk, h, seed)) => pk = public_key(sk)
ASSUME InputsAssumption == MaxInputs \in Nat

VARIABLES
    keypair,        \* the content of the key file
    inputs          \* for each input, is it locked by the wallet's lock

sealedVars == <<vars, keypair, inputs>>

NoKeypair == [tag |-> "none"]
Keypairs == [publicKey : PublicKeys, secretKey : SecretKeys]
InputLists == UNION {[1..n -> BOOLEAN] : n \in 1..MaxInputs}

(* computeLockArgs: the args of the wallet's lock commit to the key.       *)
buildLockScript(publicKey) == blake2b_256(publicKey)

(* The witness args of each input: the lock field goes into the first.     *)
sealTransaction_Each(n, keys, txHash, seed) ==
    LET witnessLock == buildWitnessLock(keys.publicKey, sign(keys.secretKey, txHash, seed))
    IN  [i \in 1..n |-> Some(witnessLock.lock)]
sealTransaction_Reuse(n, keys, txHash, seed) ==
    LET h == CHOOSE h \in TxHashes : TRUE
        witnessLock == buildWitnessLock(keys.publicKey, sign(keys.secretKey, h, seed))
    IN  [i \in 1..n |-> IF i = 1 THEN Some(witnessLock.lock) ELSE None]
sealTransaction(n, keys, txHash, seed) ==
    LET witnessLock == buildWitnessLock(keys.publicKey, sign(keys.secretKey, txHash, seed))
    IN  [i \in 1..n |-> IF i = 1 THEN Some(witnessLock.lock) ELSE None]

(* Index 0 of GroupInput: the first of the inputs the wallet locks.        *)
GroupStart(ins, first) == ins[first] /\ \A j \in 1 .. first - 1 : ~ins[j]

SealedBySdk ==
    /\ keypair \in Keypairs
    /\ inputs \in InputLists
    /\ \E h \in TxHashes, seed \in Seeds, first \in DOMAIN inputs :
         /\ GroupStart(inputs, first)
         /\ script = Ok(buildLockScript(keypair.publicKey))
         /\ tx_hash = Ok(h)
         /\ witness_args = Ok(sealTransaction(Len(inputs), keypair, h, seed)[first])
    /\ pc = "load_script"
    /\ raw_pubkey = <<>>
    /\ raw_sig = <<>>
    /\ exit = Running

MadeByOthers == Init /\ keypair = NoKeypair /\ inputs = <<>>

SealedInit == SealedBySdk \/ MadeByOthers

SealedNext == Next /\ UNCHANGED <<keypair, inputs>>

SealedSpec == SealedInit /\ [][SealedNext]_sealedVars

-----------------------------------------------------------------------------
KeysMatch == keypair # NoKeypair /\ keypair.publicKey = public_key(keypair.secretKey)

(* A transaction the SDK seals with a generated key pair is one the        *)
(* contract unlocks, whatever its hash, the seed of the signature and its  *)
(* other inputs, as long as the wallet's own inputs start at index 0, as   *)
(* they do in every transfer the wallet builds.                            *)
SealedUnlocks == (pc = "returned" /\ KeysMatch /\ inputs[1]) => exit = 0

(* A seal that cannot work is refused for its own reason: inputs of others *)
(* before the wallet's leave its group an empty witness; a public key that *)
(* is not the secret key's, which readKeypair accepts, fails when it is    *)
(* decoded if it is no key at all, and in the verification otherwise.      *)
BadSealIsRefused ==
    pc = "returned" /\ keypair # NoKeypair =>
        /\ ~inputs[1] => exit = ERR_INVALID_WITNESS
        /\ inputs[1] /\ ~KeysMatch =>
              exit = IF try_from_bytes(keypair.publicKey) THEN ERR_SIGNATURE_VERIFICATION
                                                          ELSE ERR_INVALID_PUBKEY
==============================================================================
