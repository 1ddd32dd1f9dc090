-------------------------- MODULE MCTransferBuilder --------------------------
(***************************************************************************)
(* Real encoding lengths, with 1000 shannons to the CKB so that capacities *)
(* fit TLC's integers.  A one-input fee is about 5.6 CKB at the default    *)
(* rate, so dust, exact and ample change all occur with few cells.         *)
(***************************************************************************)
EXTENDS TransferBuilder

CONSTANT MaxCells    \* longest list of cells

MCAmounts == {60999, 73000, 150000}
MCFeeRates == {0, 1000, 1999}
MCArgsLengths == {20, 32}
MCNetworks == {<<"devnet", "testnet">>, <<"mainnet", "testnet">>, <<"mainnet", "unspecified">>}

(* A least cell, one that pays 73000 and a one-input fee with no change,   *)
(* one in between and an ample one.                                        *)
MCCapacities ==
    {73000, 73000 + estimateTransactionFee(1, <<32>>, 1000), 80000, 152000}

MCCellLists ==
    UNION {[1..n -> [capacity : MCCapacities, own : BOOLEAN]] : n \in 0..MaxCells}

ASSUME CellsAreWorthTheirInput
==============================================================================
