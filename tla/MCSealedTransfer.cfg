CONSTANTS
    Radix = 2
    PUBLIC_KEY_LEN = 2
    SIGNATURE_LEN = 2
    LOCK_ARGS_LEN = 3
    MaxLockField = 13
    MaxInputs = 3
    blake2b_256 <- MCHash
    try_from_bytes <- MCDecodes
    verify <- MCVerify
    public_key <- MCPublicKey
    sign <- MCSign
    ScriptArgs <- MCScriptArgs
    TxHashes <- MCTxHashes
    LockFields <- MCLockFields
    SecretKeys <- MCSecretKeys
    PublicKeys <- MCPublicKeys
    Seeds <- MCSeeds
SPECIFICATION SealedSpec
CHECK_DEADLOCK FALSE
INVARIANTS
    ExitCodeMeaning
    ReadsLikeTheSdk
    SealedUnlocks
    BadSealIsRefused
PROPERTIES
    RefinesPolicy
