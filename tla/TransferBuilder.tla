---------------------------- MODULE TransferBuilder ----------------------------
(***************************************************************************)
(* validateTransferRequest and the buildTransferTransaction it calls       *)
(* (sdk/src/wallet.ts): from a list of live cells and an amount to an      *)
(* unsigned transaction, or an error.                                      *)
(*                                                                         *)
(* The request is chosen in Init and never changes.  The checks come in    *)
(* the order of the code; the selection loop is one step per cell.  A cell *)
(* is a record of its capacity and of whether its lock equals fromLock     *)
(* (sameLock); its type script and data, which the code never looks at,    *)
(* are left out.                                                           *)
(***************************************************************************)
EXTENDS TxSize, FiniteSetsExt

CONSTANTS
    CellLists,      \* the lists of live cells getCells can return
    Amounts,        \* shannons to send
    FeeRates,       \* shannons per 1000 bytes
    ArgsLengths,    \* lengths of the args of the recipient's and the change lock
    Networks        \* pairs <<sender, recipient>>; the recipient's may be "unspecified"

LiveCell == [capacity : Nat, own : BOOLEAN]

ASSUME RequestAssumption ==
    /\ CellLists \subseteq Seq(LiveCell)
    /\ Amounts \subseteq Nat
    /\ FeeRates \subseteq Nat
    /\ ArgsLengths \subseteq Nat

VARIABLES
    request,        \* the arguments of the call
    pc,             \* where the call stands
    sortedCells,    \* positions in request.cells, by capacity
    next,           \* the position in sortedCells the loop looks at
    selectedCells,  \* positions in request.cells, in the order of selection
    inputCapacity,  \* capacity of the selected cells
    result          \* the transaction built, or the error code

vars == <<request, pc, sortedCells, next, selectedCells, inputCapacity, result>>

Cells == request.cells
Capacity(i) == Cells[i].capacity
NoResult == [status |-> "none"]
Error(code) == [status |-> "error", code |-> code]

recipientMatchesNetwork(sender, recipient) ==
    IF sender = "mainnet" THEN recipient = "mainnet" ELSE recipient # "mainnet"

OwnCells == {i \in DOMAIN Cells : Cells[i].own}
TotalCapacity == MapThenSumSet(Capacity, OwnCells)
RecipientMinimum == minimumCellCapacity(request.toArgs)
ChangeMinimum == minimumCellCapacity(request.changeArgs)

(* The order Array.prototype.sort makes: the same cells by capacity, equal *)
(* ones as they stood.                                                     *)
Before(i, j) == Capacity(i) < Capacity(j) \/ (Capacity(i) = Capacity(j) /\ i < j)
IsSorted_Descending(order) ==
    \A a, b \in DOMAIN Cells : a < b => Before(order[b], order[a])
IsSorted(order) ==
    /\ \A i \in DOMAIN Cells : \E a \in DOMAIN Cells : order[a] = i
    /\ \A a, b \in DOMAIN Cells : a < b => Before(order[a], order[b])

Init ==
    /\ request \in [cells : CellLists, amount : Amounts, feeRate : FeeRates,
                    toArgs : ArgsLengths, changeArgs : ArgsLengths, networks : Networks]
    /\ pc = "validate"
    /\ sortedCells = <<>>
    /\ next = 1
    /\ selectedCells = <<>>
    /\ inputCapacity = 0
    /\ result = NoResult

Finish(r) ==
    /\ pc' = "done"
    /\ result' = r
    /\ UNCHANGED <<request, sortedCells, next, selectedCells, inputCapacity>>

WrongNetwork ==
    /\ request.networks[2] # "unspecified"
    /\ ~recipientMatchesNetwork(request.networks[1], request.networks[2])
BelowMinimum == request.amount < RecipientMinimum
BelowAmount == TotalCapacity < request.amount

Refuse ==
    /\ pc = "validate"
    /\ \/ /\ WrongNetwork
          /\ Finish(Error("invalid_recipient_network"))
       \/ /\ ~WrongNetwork /\ BelowMinimum
          /\ Finish(Error("amount_below_minimum_capacity"))
       \/ /\ ~WrongNetwork /\ ~BelowMinimum /\ BelowAmount
          /\ Finish(Error("insufficient_total_capacity"))

SortCells ==
    /\ pc = "validate"
    /\ ~WrongNetwork /\ ~BelowMinimum /\ ~BelowAmount
    /\ sortedCells' \in {order \in [DOMAIN Cells -> DOMAIN Cells] : IsSorted(order)}
    /\ pc' = "select"
    /\ UNCHANGED <<request, next, selectedCells, inputCapacity, result>>

(* The loop body for a cell that is the sender's: what the selection so    *)
(* far and this cell would pay, and what would be left.                    *)
Fee(n) == estimateTransactionFee(n, <<request.toArgs>>, request.feeRate)
AdjustedChange(capacity, n) == capacity - request.amount - Fee(n)
Viable_Dust(change) == change >= 0
Viable(change) == change = 0 \/ change >= ChangeMinimum

Outputs(change) ==
    IF change > 0 THEN <<request.toArgs, request.changeArgs>> ELSE <<request.toArgs>>

Transfer(capacity, n) ==
    LET change == AdjustedChange(capacity, n)
    IN  [status |-> "ok",
         fee |-> Fee(n),
         changeCapacity |-> change,
         outputCapacity |-> request.amount + change,
         txSize |-> estimateTransactionSize(n, Outputs(change))]

Current == sortedCells[next]

SkipForeign ==
    /\ pc = "select" /\ next <= Len(Cells)
    /\ ~Cells[Current].own
    /\ next' = next + 1
    /\ UNCHANGED <<request, pc, sortedCells, selectedCells, inputCapacity, result>>

Take ==
    /\ selectedCells' = Append(selectedCells, Current)
    /\ inputCapacity' = inputCapacity + Capacity(Current)
    /\ next' = next + 1
    /\ UNCHANGED <<request, sortedCells>>
StopIf(viable) ==
    IF viable
    THEN /\ result' = Transfer(inputCapacity', Len(selectedCells'))
         /\ pc' = "done"
    ELSE UNCHANGED <<pc, result>>

Select_NeedsChange ==
    /\ pc = "select" /\ next <= Len(Cells)
    /\ Cells[Current].own
    /\ Take
    /\ StopIf(AdjustedChange(inputCapacity', Len(selectedCells')) >= ChangeMinimum)
Select ==
    /\ pc = "select" /\ next <= Len(Cells)
    /\ Cells[Current].own
    /\ Take
    /\ StopIf(Viable(AdjustedChange(inputCapacity', Len(selectedCells'))))

Exhausted_Early ==
    /\ pc = "select" /\ next >= Len(Cells)
    /\ Finish(Error("insufficient_capacity_for_fee"))
Exhausted ==
    /\ pc = "select" /\ next > Len(Cells)
    /\ Finish(Error("insufficient_capacity_for_fee"))

Next == Refuse \/ SortCells \/ SkipForeign \/ Select \/ Exhausted

Spec == Init /\ [][Next]_vars

-----------------------------------------------------------------------------
Built == result.status = "ok"
Selected == {selectedCells[i] : i \in DOMAIN selectedCells}
CapacityOf(S) == MapThenSumSet(Capacity, S)

(* Type invariant.                                                         *)
TypeOK ==
    /\ request \in [cells : CellLists, amount : Amounts, feeRate : FeeRates,
                    toArgs : ArgsLengths, changeArgs : ArgsLengths, networks : Networks]
    /\ pc \in {"validate", "select", "done"}
    /\ sortedCells \in [DOMAIN Cells -> DOMAIN Cells] \cup {<<>>}
    /\ next \in 1 .. Len(Cells) + 1
    /\ selectedCells \in Seq(DOMAIN Cells)
    /\ inputCapacity \in Nat
    /\ result.status \in {"none", "ok", "error"}

(* A transaction that is built spends what it takes in: the inputs are the *)
(* amount, the change and the fee, nothing is created and nothing is lost, *)
(* and every output holds what its cell needs at least, so the node does   *)
(* not refuse it for a dust change cell.                                   *)
BalancedOutputs ==
    Built => /\ inputCapacity = result.outputCapacity + result.fee
             /\ result.outputCapacity = request.amount + result.changeCapacity
             /\ request.amount >= RecipientMinimum
             /\ result.changeCapacity = 0 \/ result.changeCapacity >= ChangeMinimum

(* No cell of the list is spent twice, and only the sender's cells are.    *)
DistinctOwnInputs ==
    /\ Selected \subseteq OwnCells
    /\ \A a, b \in DOMAIN selectedCells : selectedCells[a] = selectedCells[b] => a = b

(* Own cells are selected once each, from the smallest up: one is left out *)
(* only if it is at least as large as every selected one.                  *)
SmallestFirst ==
    /\ DistinctOwnInputs
    /\ Built => \A i \in Selected, j \in OwnCells \ Selected : Before(i, j)

(* The loop stops at the first selection that works: its cells leave the  *)
(* change that is paid out, and no shorter prefix of it pays the amount    *)
(* and the fee with no change or a valid change cell.                      *)
FirstFit ==
    Built => /\ result.changeCapacity = AdjustedChange(CapacityOf(Selected), Len(selectedCells))
             /\ \A n \in 1 .. Len(selectedCells) - 1 :
                  ~Viable(AdjustedChange(CapacityOf({selectedCells[i] : i \in 1 .. n}), n))

(* When the call fails for fee or change, no choice of the sender's cells, *)
(* in any order and number, leaves room for a valid change cell: taking    *)
(* cells from the smallest up misses no such transfer.                     *)
FailureIsGenuine ==
    (result = Error("insufficient_capacity_for_fee")) =>
        \A S \in SUBSET OwnCells :
            S # {} => AdjustedChange(CapacityOf(S), Cardinality(S)) < ChangeMinimum

(* What FailureIsGenuine needs of a request: a cell of the sender holds at *)
(* least the fee for the input that spends it and the empty witness that   *)
(* comes with it.  On CKB a cell holds the price of its own bytes, which   *)
(* is far more at any usual rate.                                          *)
InputSize == (8 + OutPointBytes) + 4 + serializeBytes(encodeWitnessArgs(0))
CellsAreWorthTheirInput ==
    \A cells \in CellLists, rate \in FeeRates : \A i \in DOMAIN cells :
        cells[i].own => cells[i].capacity * 1000 >= InputSize * rate

(* The fee pays the rate for all of the transaction but the bytes its      *)
(* change output adds, and less than one shannon more than that.           *)
FeePaysForAllButChange ==
    Built => LET bytes == estimateTransactionSize(Len(selectedCells), <<request.toArgs>>)
             IN  /\ result.fee * 1000 >= bytes * request.feeRate
                 /\ result.fee * 1000 < bytes * request.feeRate + 1000
==============================================================================
