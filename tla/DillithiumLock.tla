---------------------------- MODULE DillithiumLock ----------------------------
(***************************************************************************)
(* One execution of the lock script, contracts/dillithium-lock/src/main.rs *)
(* (program_entry), for one script group of a transaction.                 *)
(*                                                                         *)
(* The three syscalls return what the transaction holds or an error; they  *)
(* are chosen in Init and never change.  Every check of program_entry is a *)
(* step of its own that either goes on to the next check or returns its    *)
(* error code.  Hashing, key decoding and ML-DSA verification are          *)
(* constant operators.                                                     *)
(***************************************************************************)
EXTENDS Witness

CONSTANTS
    LOCK_ARGS_LEN,          \* length of the script args (32)
    blake2b_256(_),         \* personalised hash of a byte string
    try_from_bytes(_),      \* does ml_dsa_65::PublicKey::try_from_bytes accept it
    verify(_, _, _),        \* public key, message, signature
    ScriptArgs,             \* args a script can carry
    TxHashes,               \* transaction hashes
    LockFields              \* byte strings a WitnessArgs.lock can hold

ASSUME FieldsAssumption == LockFields \subseteq Bytes

VARIABLES
    script,         \* what load_script returns
    tx_hash,        \* what load_tx_hash returns
    witness_args,   \* what load_witness_args(0, GroupInput) returns
    pc,             \* the next check of program_entry
    raw_pubkey,     \* the key parse_witness found
    raw_sig,        \* the signature parse_witness found
    exit            \* the return code

env == <<script, tx_hash, witness_args>>
vars == <<script, tx_hash, witness_args, pc, raw_pubkey, raw_sig, exit>>

ERR_INVALID_ARGS_LENGTH == 1
ERR_INVALID_WITNESS == 2
ERR_PUBKEY_HASH_MISMATCH == 3
ERR_INVALID_PUBKEY == 4
ERR_INVALID_SIGNATURE == 5
ERR_SIGNATURE_VERIFICATION == 6
PANICKED == 101             \* the panic handler of ckb_std ends the VM
Running == -1               \* no return code yet

ErrorCodes == ERR_INVALID_ARGS_LENGTH .. ERR_SIGNATURE_VERIFICATION

(* Results of the syscalls; the witness is an optional lock field.         *)
Err == [tag |-> "err"]
Ok(v) == [tag |-> "ok", val |-> v]
Some(v) == [tag |-> "some", val |-> v]
Results(S) == {Err} \cup {Ok(v) : v \in S}
WitnessArgs == {None} \cup {Some(l) : l \in LockFields}
ScriptResults == Results(ScriptArgs)
TxHashResults == Results(TxHashes)
WitnessResults == Results(WitnessArgs)

-----------------------------------------------------------------------------
Init ==
    /\ script \in ScriptResults
    /\ tx_hash \in TxHashResults
    /\ witness_args \in WitnessResults
    /\ pc = "load_script"
    /\ raw_pubkey = <<>>
    /\ raw_sig = <<>>
    /\ exit = Running

Return(code) ==
    /\ pc' = "returned"
    /\ exit' = code
    /\ UNCHANGED <<env, raw_pubkey, raw_sig>>

(* Go on to `next` when the check passes, return `code` when it fails.     *)
Check(passes, next, code) ==
    \/ /\ passes
       /\ pc' = next
       /\ UNCHANGED <<env, raw_pubkey, raw_sig, exit>>
    \/ /\ ~passes
       /\ Return(code)

LoadScript ==
    /\ pc = "load_script"
    /\ Check(script.tag = "ok" /\ Len(script.val) = LOCK_ARGS_LEN,
             "load_tx_hash", ERR_INVALID_ARGS_LENGTH)

(* Faulty variants: the wrong code for a failed load, and the comparison   *)
(* with the args left out.                                                 *)
LoadTxHash_WrongCode ==
    /\ pc = "load_tx_hash"
    /\ Check(tx_hash.tag = "ok", "load_witness", ERR_INVALID_ARGS_LENGTH)

CheckHash_Skipped ==
    /\ pc = "check_hash"
    /\ Check(TRUE, "decode_pubkey", ERR_PUBKEY_HASH_MISMATCH)

LoadTxHash ==
    /\ pc = "load_tx_hash"
    /\ Check(tx_hash.tag = "ok", "load_witness", ERR_INVALID_WITNESS)

LoadWitness ==
    /\ pc = "load_witness"
    /\ Check(witness_args.tag = "ok" /\ witness_args.val.tag = "some",
             "parse_witness", ERR_INVALID_WITNESS)

ParseWitness ==
    /\ pc = "parse_witness"
    /\ LET parsed == parse_witness(witness_args.val.val)
       IN  \/ /\ parsed.tag = "some"
              /\ raw_pubkey' = parsed.pubkey
              /\ raw_sig' = parsed.sig
              /\ pc' = "check_hash"
              /\ UNCHANGED <<env, exit>>
           \/ /\ parsed.tag # "some"
              /\ Return(IF parsed.tag = "none" THEN ERR_INVALID_WITNESS ELSE PANICKED)

CheckHash ==
    /\ pc = "check_hash"
    /\ Check(blake2b_256(raw_pubkey) = script.val,
             "decode_pubkey", ERR_PUBKEY_HASH_MISMATCH)

DecodePubkey ==
    /\ pc = "decode_pubkey"
    /\ Check(Len(raw_pubkey) = PUBLIC_KEY_LEN /\ try_from_bytes(raw_pubkey),
             "decode_sig", ERR_INVALID_PUBKEY)

DecodeSig ==
    /\ pc = "decode_sig"
    /\ Check(Len(raw_sig) = SIGNATURE_LEN, "verify", ERR_INVALID_SIGNATURE)

VerifySig ==
    /\ pc = "verify"
    /\ IF verify(raw_pubkey, tx_hash.val, raw_sig)
       THEN Return(0)
       ELSE Return(ERR_SIGNATURE_VERIFICATION)

Next ==
    \/ LoadScript
    \/ LoadTxHash
    \/ LoadWitness
    \/ ParseWitness
    \/ CheckHash
    \/ DecodePubkey
    \/ DecodeSig
    \/ VerifySig

Spec == Init /\ [][Next]_vars

-----------------------------------------------------------------------------
(* What the script must decide, said without its control flow.             *)

Lock == witness_args.val.val

HasArgs == script.tag = "ok" /\ Len(script.val) = LOCK_ARGS_LEN
HasLock == tx_hash.tag = "ok" /\ witness_args.tag = "ok" /\ witness_args.val.tag = "some"

(* The key and the signature at their fixed places of a lock field, which  *)
(* the lock field spells out (whatever follows them).                      *)
KeyOf(lock) == Slice(lock, 4, 4 + PUBLIC_KEY_LEN)
SigOf(lock) == Slice(lock, 8 + PUBLIC_KEY_LEN, 8 + PUBLIC_KEY_LEN + SIGNATURE_LEN)
WITNESS_LOCK_BYTES == 8 + PUBLIC_KEY_LEN + SIGNATURE_LEN
CarriesKeyAndSig(lock) ==
    /\ Len(lock) >= WITNESS_LOCK_BYTES
    /\ SubSeq(lock, 1, 4) = writeU32LE(PUBLIC_KEY_LEN)
    /\ Slice(lock, 4 + PUBLIC_KEY_LEN, 8 + PUBLIC_KEY_LEN) = writeU32LE(SIGNATURE_LEN)

Transactions == ScriptResults \X TxHashResults \X WitnessResults

(* A transaction is authorised when its witness carries the key whose hash *)
(* the script args commit to, and that key's signature of the tx hash.     *)
Authorized(tx) ==
    /\ tx[1].tag = "ok"
    /\ tx[2].tag = "ok"
    /\ tx[3].tag = "ok"
    /\ tx[3].val.tag = "some"
    /\ Len(tx[1].val) = LOCK_ARGS_LEN
    /\ LET lock == tx[3].val.val
       IN  /\ CarriesKeyAndSig(lock)
           /\ blake2b_256(KeyOf(lock)) = tx[1].val
           /\ try_from_bytes(KeyOf(lock))
           /\ verify(KeyOf(lock), tx[2].val, SigOf(lock))

Verdict ==
    IF pc # "returned" THEN "undecided" ELSE IF exit = 0 THEN "unlock" ELSE "refuse"

Policy == INSTANCE LockPolicy WITH transaction <- env, verdict <- Verdict

-----------------------------------------------------------------------------
(* Type invariant.  Once the script looks at the key and the signature, it *)
(* has args, a tx hash and a lock field, all loaded without error.         *)
TypeOK ==
    /\ script \in ScriptResults
    /\ tx_hash \in TxHashResults
    /\ witness_args \in WitnessResults
    /\ pc \in {"load_script", "load_tx_hash", "load_witness", "parse_witness",
               "check_hash", "decode_pubkey", "decode_sig", "verify", "returned"}
    /\ raw_pubkey \in Bytes
    /\ raw_sig \in Bytes
    /\ exit \in {Running, 0, PANICKED} \cup ErrorCodes

(* For every transaction program_entry returns 0 exactly when the          *)
(* transaction is authorised and an error otherwise, however its checks    *)
(* are ordered, and it never changes its mind.                             *)
RefinesPolicy == Policy!Spec

(* No index parse_witness computes from the length fields of an arbitrary  *)
(* lock field leaves the buffer: the script never dies in a panic.         *)
NeverPanics == exit # PANICKED

(* An error code says what the table of the README says: each code is      *)
(* returned exactly when its own check is the first to fail.               *)
ExitCodeMeaning ==
    pc = "returned" =>
        /\ exit = ERR_INVALID_ARGS_LENGTH <=> ~HasArgs
        /\ exit = ERR_INVALID_WITNESS <=>
              HasArgs /\ (HasLock => parse_witness(Lock).tag # "some")
        /\ exit \in 3..6 =>
              LET parsed == parse_witness(Lock)
                  pubkey == parsed.pubkey
                  hashMatches == blake2b_256(pubkey) = script.val
                  keyDecodes == Len(pubkey) = PUBLIC_KEY_LEN /\ try_from_bytes(pubkey)
                  sigSized == Len(parsed.sig) = SIGNATURE_LEN
              IN  /\ exit = ERR_PUBKEY_HASH_MISMATCH <=> ~hashMatches
                  /\ exit = ERR_INVALID_PUBKEY <=> hashMatches /\ ~keyDecodes
                  /\ exit = ERR_INVALID_SIGNATURE <=> hashMatches /\ keyDecodes /\ ~sigSized
                  /\ exit = ERR_SIGNATURE_VERIFICATION <=>
                        /\ hashMatches /\ keyDecodes /\ sigSized
                        /\ ~verify(pubkey, tx_hash.val, parsed.sig)

(* The key and signature the contract judges are the ones the SDK's        *)
(* parseWitnessLock shows for the same lock field, whenever it accepts it, *)
(* and building a lock field from them gives the lock field back.          *)
ReadsLikeTheSdk ==
    (pc = "check_hash" /\ parseWitnessLock(Lock).tag = "some") =>
        /\ parseWitnessLock(Lock) = Pair(raw_pubkey, raw_sig)
        /\ buildWitnessLock(raw_pubkey, raw_sig) = [tag |-> "some", lock |-> Lock]
==============================================================================
