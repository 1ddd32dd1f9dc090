-------------------------------- MODULE TxSize --------------------------------
(***************************************************************************)
(* How many bytes a transaction takes and what it therefore costs: the     *)
(* lengths of the molecule encodings of sdk/src/wallet.ts.  An operator    *)
(* has the name of the function whose result's length it gives.  A script  *)
(* is given by the length of its args, the outputs by the sequence of      *)
(* their scripts; every output is a plain one (no type script, no data),   *)
(* as buildTransferTransaction makes them.                                 *)
(***************************************************************************)
EXTENDS Integers, Sequences

CONSTANTS
    SHANNONS_PER_CKB,       \* 10^8
    WITNESS_LOCK_BYTES      \* length of a well-formed lock field (5269)

ASSUME SizeAssumption ==
    SHANNONS_PER_CKB \in Nat \ {0} /\ WITNESS_LOCK_BYTES \in Nat

serializeFixVec(items, width) == 4 + items * width
serializeDynVec(items, total) == 4 + items * 4 + total
serializeTable(fields, total) == serializeDynVec(fields, total)
serializeBytes(n) == serializeFixVec(n, 1)

serializeScript(args) == serializeTable(3, 32 + 1 + serializeBytes(args))
serializeCellOutput(args) == serializeTable(3, 8 + serializeScript(args))

(* One output, or two when there is change.                                *)
serializeCellOutputVec(outputs) ==
    serializeDynVec(Len(outputs),
        serializeCellOutput(outputs[1])
            + (IF Len(outputs) = 2 THEN serializeCellOutput(outputs[2]) ELSE 0))
serializeOutputsData(outputs) ==
    serializeDynVec(Len(outputs), Len(outputs) * serializeBytes(0))

OutPointBytes == 32 + 4
serializeCellDepVec(n) == serializeFixVec(n, OutPointBytes + 1)
serializeCellInputVec(n) == serializeFixVec(n, 8 + OutPointBytes)

serializeRawTransaction(inputs, outputs) ==
    serializeTable(6, 4 + serializeCellDepVec(1)
                        + serializeFixVec(0, 32)
                        + serializeCellInputVec(inputs)
                        + serializeCellOutputVec(outputs)
                        + serializeOutputsData(outputs))

(* The signature travels in the first witness, the others are empty.       *)
encodeWitnessArgs(lockBytes) == serializeTable(3, lockBytes)
withPlaceholderWitnesses(inputs) ==
    serializeDynVec(inputs,
        serializeBytes(encodeWitnessArgs(serializeBytes(WITNESS_LOCK_BYTES)))
            + (inputs - 1) * serializeBytes(encodeWitnessArgs(0)))

estimateTransactionSize(inputs, outputs) ==
    serializeTable(2, serializeRawTransaction(inputs, outputs)
                        + withPlaceholderWitnesses(inputs))

(* Rounded up to a whole shannon.                                          *)
estimateTransactionFee_Floor(inputs, outputs, feeRate) ==
    (estimateTransactionSize(inputs, outputs) * feeRate) \div 1000
estimateTransactionFee(inputs, outputs, feeRate) ==
    (estimateTransactionSize(inputs, outputs) * feeRate + 999) \div 1000

(* What a plain cell with this lock must hold at least.                    *)
minimumCellCapacity(args) == (8 + (33 + args)) * SHANNONS_PER_CKB
==============================================================================
