------------------------- MODULE TransferBuilderProofs -------------------------
(***************************************************************************)
(* The transfer builder for any list of cells, amount, fee rate and any    *)
(* lengths of the encodings.                                               *)
(***************************************************************************)
EXTENDS TransferBuilder, FiniteSums

USE ZenonT(30)

Sorted == sortedCells \in [DOMAIN Cells -> DOMAIN Cells] /\ IsSorted(sortedCells)

(* The selected cells are the sender's cells among those looked at, each   *)
(* at its place in the sorted order.                                       *)
SelectionInv ==
    /\ \A a \in DOMAIN selectedCells :
         /\ Cells[selectedCells[a]].own
         /\ \E k \in 1 .. next - 1 : selectedCells[a] = sortedCells[k]
    /\ \A a, b \in DOMAIN selectedCells : a < b => Before(selectedCells[a], selectedCells[b])
    /\ \A k \in 1 .. next - 1 :
         Cells[sortedCells[k]].own => \E a \in DOMAIN selectedCells : selectedCells[a] = sortedCells[k]

IndInv ==
    /\ TypeOK
    /\ pc = "validate" => selectedCells = <<>> /\ next = 1 /\ inputCapacity = 0
    /\ pc # "done" => result = NoResult
    /\ pc = "select" => ~BelowMinimum
    /\ pc = "select" \/ Built => Sorted
    /\ SelectionInv
    /\ BalancedOutputs
    /\ FeePaysForAllButChange

(* The request is well formed and its derived sizes are numbers.           *)
LEMMA RequestTypes ==
    ASSUME TypeOK
    PROVE  /\ Cells \in Seq(LiveCell)
           /\ Len(Cells) \in Nat /\ DOMAIN Cells = 1 .. Len(Cells)
           /\ \A i \in DOMAIN Cells : Capacity(i) \in Nat /\ Cells[i].own \in BOOLEAN
           /\ request.amount \in Nat /\ request.feeRate \in Nat
           /\ request.toArgs \in Nat /\ request.changeArgs \in Nat
<1>1. request.cells \in CellLists /\ request.amount \in Amounts /\ request.feeRate \in FeeRates
      /\ request.toArgs \in ArgsLengths /\ request.changeArgs \in ArgsLengths
  BY DEF TypeOK
<1>2. Cells \in Seq(LiveCell)
  BY <1>1, RequestAssumption DEF Cells
<1>3. Len(Cells) \in Nat /\ DOMAIN Cells = 1 .. Len(Cells)
  BY <1>2, SMTT(30)
<1>4. ASSUME NEW i \in DOMAIN Cells
      PROVE  Capacity(i) \in Nat /\ Cells[i].own \in BOOLEAN
  <2>1. Cells[i] \in LiveCell
    BY <1>2, <1>3, <1>4, SMTT(30)
  <2> QED
    BY <2>1 DEF Capacity, LiveCell
<1> QED
  BY <1>1, <1>2, <1>3, <1>4, RequestAssumption

(* Sizes, fees and minimum capacities are natural numbers; the fee is the  *)
(* rate times the size, rounded up.                                        *)
LEMMA SizeTypes ==
    ASSUME TypeOK, NEW n \in Nat \ {0}
    PROVE  /\ Fee(n) \in Nat
           /\ Fee(n) * 1000 >= estimateTransactionSize(n, <<request.toArgs>>) * request.feeRate
           /\ Fee(n) * 1000 < estimateTransactionSize(n, <<request.toArgs>>) * request.feeRate + 1000
<1> DEFINE bytes == estimateTransactionSize(n, <<request.toArgs>>)
<1>0. request.toArgs \in Nat /\ request.feeRate \in Nat
  BY RequestTypes
<1>1. serializeRawTransaction(n, <<request.toArgs>>) \in Nat
  BY <1>0, SMTT(30) DEF serializeRawTransaction, serializeTable, serializeDynVec, serializeFixVec,
     serializeCellDepVec, serializeCellInputVec, serializeCellOutputVec, serializeOutputsData,
     serializeCellOutput, serializeScript, serializeBytes, OutPointBytes
<1>2. withPlaceholderWitnesses(n) \in Nat
  BY SizeAssumption, SMTT(30) DEF withPlaceholderWitnesses, encodeWitnessArgs, serializeTable,
     serializeDynVec, serializeBytes, serializeFixVec
<1>3. bytes \in Nat
  BY <1>1, <1>2, SMTT(30) DEF estimateTransactionSize, serializeTable, serializeDynVec
<1>4. bytes * request.feeRate \in Nat
  BY <1>0, <1>3, SMTT(30)
<1>5. Fee(n) = (bytes * request.feeRate + 999) \div 1000
  BY DEF Fee, estimateTransactionFee
<1> HIDE DEF bytes
<1> QED
  BY <1>3, <1>4, <1>5, SMTT(30) DEF bytes

(* So are the minimum capacities.                                          *)
LEMMA MinimumTypes ==
    ASSUME TypeOK
    PROVE  ChangeMinimum \in Nat \ {0} /\ RecipientMinimum \in Nat
<1>1. request.toArgs \in Nat /\ request.changeArgs \in Nat
  BY RequestTypes
<1> QED
  BY <1>1, SizeAssumption, SMTT(30) DEF ChangeMinimum, RecipientMinimum, minimumCellCapacity

-----------------------------------------------------------------------------
(* A call starts with nothing selected.                                    *)
LEMMA InitIndInv == Init => IndInv
<1> SUFFICES ASSUME Init PROVE IndInv
  OBVIOUS
<1>1. request.cells \in CellLists
  BY DEF Init
<1>2. Cells \in Seq(LiveCell)
  BY <1>1, RequestAssumption DEF Cells
<1>3. Len(Cells) \in Nat
  BY <1>2, SMTT(30)
<1>4. TypeOK
  BY <1>3, SMTT(30) DEF Init, TypeOK, NoResult
<1> QED
  BY <1>4, SMTT(30) DEF Init, IndInv, SelectionInv, BalancedOutputs, FeePaysForAllButChange, Built, NoResult

(* An error ends the call without a transaction.                           *)
LEMMA ErrorIndInv ==
    ASSUME IndInv, NEW code, Finish(Error(code))
    PROVE  IndInv'
<1>1. /\ pc' = "done" /\ result' = Error(code)
      /\ UNCHANGED <<request, sortedCells, next, selectedCells, inputCapacity>>
  BY DEF Finish
<1>2. ~Built'
  BY <1>1 DEF Built, Error
<1>3. TypeOK'
  BY <1>1 DEF IndInv, TypeOK, Cells, Error
<1>4. SelectionInv'
  BY <1>1, SMTT(30) DEF IndInv, SelectionInv, Cells, Before, Capacity
<1> QED
  BY <1>1, <1>2, <1>3, <1>4, SMTT(30) DEF IndInv, BalancedOutputs, FeePaysForAllButChange

(* Where the loop stands: the next cell of the sorted order comes after    *)
(* every cell selected so far.                                             *)
LEMMA CurrentIsNext ==
    ASSUME IndInv, pc = "select", next <= Len(Cells)
    PROVE  /\ next \in DOMAIN Cells /\ Current \in DOMAIN Cells
           /\ \A a \in DOMAIN selectedCells : Before(selectedCells[a], Current)
<1>1. next \in 1 .. Len(Cells) /\ DOMAIN Cells = 1 .. Len(Cells) /\ Len(Cells) \in Nat
  BY RequestTypes, SMTT(30) DEF IndInv, TypeOK
<1>2. Sorted
  BY DEF IndInv
<1>3. Current \in DOMAIN Cells
  BY <1>1, <1>2 DEF Sorted, Current
<1>4. ASSUME NEW a \in DOMAIN selectedCells PROVE Before(selectedCells[a], Current)
  <2>1. PICK k \in 1 .. next - 1 : selectedCells[a] = sortedCells[k]
    BY DEF IndInv, SelectionInv
  <2>2. k \in DOMAIN Cells /\ k < next /\ next \in DOMAIN Cells
    BY <1>1, SMTT(30)
  <2> QED
    BY <1>2, <2>1, <2>2 DEF Sorted, IsSorted, Current
<1> QED
  BY <1>1, <1>3, <1>4

(* Every step of the call keeps the invariant.                             *)
LEMMA StepIndInv == IndInv /\ [Next]_vars => IndInv'
<1> SUFFICES ASSUME IndInv, [Next]_vars PROVE IndInv'
  OBVIOUS
<1>0. TypeOK /\ SelectionInv
  BY DEF IndInv
<1>1. CASE Refuse
  BY <1>1, ErrorIndInv DEF Refuse
<1>2. CASE SortCells
  <2>1. /\ pc = "validate" /\ pc' = "select" /\ ~BelowMinimum
        /\ sortedCells' \in [DOMAIN Cells -> DOMAIN Cells] /\ IsSorted(sortedCells')
        /\ UNCHANGED <<request, next, selectedCells, inputCapacity, result>>
    BY <1>2 DEF SortCells
  <2>2. selectedCells' = <<>> /\ next' = 1 /\ result' = NoResult
    BY <2>1 DEF IndInv
  <2>3. Sorted'
    BY <2>1, SMTT(30) DEF Sorted, IsSorted, Cells, Before, Capacity
  <2>4. SelectionInv'
    BY <2>2, SMTT(30) DEF SelectionInv
  <2>5. TypeOK'
    BY <1>0, <2>1 DEF TypeOK, Cells
  <2>6. ~BelowMinimum'
    BY <2>1 DEF BelowMinimum, RecipientMinimum
  <2> QED
    BY <2>1, <2>2, <2>3, <2>4, <2>5, <2>6, SMTT(30)
    DEF IndInv, BalancedOutputs, FeePaysForAllButChange, Built, NoResult
<1>3. CASE SkipForeign
  <2>1. /\ pc = "select" /\ next <= Len(Cells) /\ ~Cells[Current].own /\ next' = next + 1
        /\ UNCHANGED <<request, pc, sortedCells, selectedCells, inputCapacity, result>>
    BY <1>3 DEF SkipForeign
  <2>2. Len(Cells) \in Nat /\ next \in Nat /\ next >= 1
    BY <1>0, RequestTypes, SMTT(30) DEF TypeOK
  <2>3. TypeOK'
    BY <1>0, <2>1, <2>2, SMTT(30) DEF TypeOK, Cells
  <2>4. Sorted' /\ ~BelowMinimum'
    BY <2>1, SMTT(30) DEF IndInv, Sorted, IsSorted, Cells, Before, Capacity, BelowMinimum, RecipientMinimum
  <2>5. SelectionInv'
    <3>1. Cells' = Cells /\ \A i, j : Before(i, j)' <=> Before(i, j)
      BY <2>1 DEF Cells, Before, Capacity
    <3>2. \A k \in 1 .. next' - 1 : k \in 1 .. next - 1 \/ sortedCells[k] = Current
      BY <2>1, <2>2, SMTT(30) DEF Current
    <3>3. \A k \in 1 .. next - 1 : k \in 1 .. next' - 1
      BY <2>1, <2>2, SMTT(30)
    <3> QED
      BY <1>0, <2>1, <3>1, <3>2, <3>3, SMTT(30) DEF SelectionInv
  <2> QED
    BY <2>1, <2>3, <2>4, <2>5, SMTT(30)
    DEF IndInv, BalancedOutputs, FeePaysForAllButChange, Built, NoResult
<1>4. CASE Select
  <2> DEFINE n == Len(selectedCells')
             change == AdjustedChange(inputCapacity', n)
  <2>1. /\ pc = "select" /\ next <= Len(Cells) /\ Cells[Current].own
        /\ selectedCells' = Append(selectedCells, Current)
        /\ inputCapacity' = inputCapacity + Capacity(Current)
        /\ next' = next + 1
        /\ IF Viable(change)
           THEN result' = Transfer(inputCapacity', n) /\ pc' = "done"
           ELSE UNCHANGED <<pc, result>>
        /\ UNCHANGED <<request, sortedCells>>
    BY <1>4 DEF Select, Take, StopIf
  <2>2. /\ Len(Cells) \in Nat /\ next \in Nat /\ next >= 1
        /\ Current \in DOMAIN Cells /\ Capacity(Current) \in Nat
        /\ selectedCells \in Seq(DOMAIN Cells)
        /\ inputCapacity \in Nat /\ result = NoResult /\ ~BelowMinimum
    BY <1>0, <2>1, RequestTypes, CurrentIsNext, SMTT(30) DEF TypeOK, IndInv
  <2>3. /\ selectedCells' \in Seq(DOMAIN Cells)
        /\ n = Len(selectedCells) + 1 /\ n \in Nat \ {0}
        /\ DOMAIN selectedCells = 1 .. Len(selectedCells)
        /\ DOMAIN selectedCells' = 1 .. Len(selectedCells) + 1
        /\ \A a \in 1 .. Len(selectedCells) : selectedCells'[a] = selectedCells[a]
        /\ selectedCells'[Len(selectedCells) + 1] = Current
    BY <2>1, <2>2, SMTT(30)
  <2>4. Cells' = Cells /\ \A i, j : Before(i, j)' <=> Before(i, j)
    BY <2>1 DEF Cells, Before, Capacity
  <2>5. Sorted' /\ ~BelowMinimum'
    BY <2>1, <2>2, SMTT(30) DEF IndInv, Sorted, IsSorted, Cells, Before, Capacity, BelowMinimum, RecipientMinimum
  <2>6. TypeOK'
    <3>1. inputCapacity' \in Nat /\ next' \in 1 .. Len(Cells) + 1
      BY <2>1, <2>2, SMTT(30)
    <3>2. pc' \in {"validate", "select", "done"} /\ result'.status \in {"none", "ok", "error"}
      <4>1. CASE Viable(change)
        BY <2>1, <4>1, SMTT(30) DEF Transfer
      <4>2. CASE ~Viable(change)
        BY <1>0, <2>1, <4>2 DEF TypeOK
      <4> QED
        BY <4>1, <4>2
    <3> QED
      BY <1>0, <2>1, <2>3, <2>4, <3>1, <3>2 DEF TypeOK
  <2>7. SelectionInv'
    <3>1. ASSUME NEW a \in DOMAIN selectedCells'
          PROVE  /\ Cells'[selectedCells'[a]].own
                 /\ \E k \in 1 .. next' - 1 : selectedCells'[a] = sortedCells'[k]
      <4>1. CASE a \in DOMAIN selectedCells
        <5>1. PICK k \in 1 .. next - 1 : selectedCells[a] = sortedCells[k]
          BY <1>0, <4>1 DEF SelectionInv
        <5>2. k \in 1 .. next' - 1
          BY <2>1, <2>2, SMTT(30)
        <5> QED
          BY <1>0, <2>1, <2>3, <2>4, <4>1, <5>1, <5>2, SMTT(30) DEF SelectionInv
      <4>2. CASE a = Len(selectedCells) + 1
        <5>1. next \in 1 .. next' - 1 /\ Current = sortedCells'[next]
          BY <2>1, <2>2, SMTT(30) DEF Current
        <5> QED
          BY <2>1, <2>3, <2>4, <4>2, <5>1
      <4> QED
        BY <2>2, <2>3, <4>1, <4>2, SMTT(30)
    <3>2. ASSUME NEW a \in DOMAIN selectedCells', NEW b \in DOMAIN selectedCells', a < b
          PROVE  Before(selectedCells'[a], selectedCells'[b])
      <4>1. a \in DOMAIN selectedCells
        BY <2>2, <2>3, <3>2, SMTT(30)
      <4>2. CASE b \in DOMAIN selectedCells
        BY <1>0, <2>3, <3>2, <4>1, <4>2 DEF SelectionInv
      <4>3. CASE b = Len(selectedCells) + 1
        BY <2>1, <2>3, <4>1, <4>3, CurrentIsNext
      <4> QED
        BY <2>2, <2>3, <4>2, <4>3, SMTT(30)
    <3>3. ASSUME NEW k \in 1 .. next' - 1, Cells'[sortedCells'[k]].own
          PROVE  \E a \in DOMAIN selectedCells' : selectedCells'[a] = sortedCells'[k]
      <4>1. CASE k \in 1 .. next - 1
        <5>1. PICK a \in DOMAIN selectedCells : selectedCells[a] = sortedCells[k]
          BY <1>0, <2>1, <2>4, <3>3, <4>1 DEF SelectionInv
        <5>2. a \in DOMAIN selectedCells'
          BY <2>2, <2>3, SMTT(30)
        <5> QED
          BY <2>1, <2>3, <5>1, <5>2
      <4>2. CASE k = next
        <5>1. Len(selectedCells) + 1 \in DOMAIN selectedCells'
          BY <2>2, <2>3, SMTT(30)
        <5> QED
          BY <2>1, <2>3, <4>2, <5>1 DEF Current
      <4> QED
        BY <2>1, <2>2, <4>1, <4>2, SMTT(30)
    <3> QED
      BY <2>4, <3>1, <3>2, <3>3 DEF SelectionInv
  <2>8. CASE Viable(change)
    <3>1. result' = Transfer(inputCapacity', n) /\ pc' = "done"
      BY <2>1, <2>8
    <3>0. /\ Fee(n) \in Nat
          /\ Fee(n) * 1000 >= estimateTransactionSize(n, <<request.toArgs>>) * request.feeRate
          /\ Fee(n) * 1000 < estimateTransactionSize(n, <<request.toArgs>>) * request.feeRate + 1000
      <4>1. PICK m \in Nat \ {0} : m = n
        BY <2>3
      <4>2. /\ Fee(m) \in Nat
            /\ Fee(m) * 1000 >= estimateTransactionSize(m, <<request.toArgs>>) * request.feeRate
            /\ Fee(m) * 1000 < estimateTransactionSize(m, <<request.toArgs>>) * request.feeRate + 1000
        BY <1>0, SizeTypes, SMTT(30)
      <4> HIDE DEF n
      <4> QED
        BY <4>1, <4>2, SMTT(30) DEF Fee
    <3>2. Fee(n) \in Nat /\ request.amount \in Nat /\ inputCapacity' \in Nat
      <4>1. inputCapacity' \in Nat
        BY <2>1, <2>2, SMTT(30)
      <4>2. Fee(n) \in Nat
        BY <3>0, SMTT(30)
      <4> QED
        BY <1>0, <4>1, <4>2, RequestTypes
    <3>3. /\ result'.fee = Fee(n) /\ result'.changeCapacity = change
          /\ result'.outputCapacity = request.amount + change
          /\ result'.status = "ok"
      BY <3>1 DEF Transfer
    <3>4. inputCapacity' = result'.outputCapacity + result'.fee
      BY <3>2, <3>3, SMTT(30) DEF AdjustedChange
    <3>5. BalancedOutputs'
      <4>1. ChangeMinimum' = ChangeMinimum /\ RecipientMinimum' = RecipientMinimum
        BY <2>1 DEF ChangeMinimum, RecipientMinimum
      <4>2. request.amount >= RecipientMinimum
        BY <1>0, <2>2, <3>2, MinimumTypes, SMTT(30) DEF BelowMinimum
      <4> QED
        BY <2>1, <2>8, <3>3, <3>4, <4>1, <4>2 DEF BalancedOutputs, Viable
    <3>6. FeePaysForAllButChange'
      BY <2>1, <3>3, <3>0, SMTT(30) DEF FeePaysForAllButChange
    <3> QED
      BY <2>5, <2>6, <2>7, <3>1, <3>5, <3>6 DEF IndInv
  <2>9. CASE ~Viable(change)
    <3>1. pc' = "select" /\ result' = NoResult
      BY <2>1, <2>2, <2>9
    <3> QED
      BY <2>5, <2>6, <2>7, <3>1, SMTT(30) DEF IndInv, BalancedOutputs, FeePaysForAllButChange, Built, NoResult
  <2> QED
    BY <2>8, <2>9
<1>5. CASE Exhausted
  BY <1>5, ErrorIndInv DEF Exhausted
<1>6. CASE UNCHANGED vars
  <2>1. UNCHANGED <<TypeOK, BelowMinimum, Cells, Built>>
    BY <1>6 DEF vars, TypeOK, Cells, Built, BelowMinimum, RecipientMinimum
  <2>2. UNCHANGED <<Sorted, SelectionInv>>
    BY <1>6, SMTT(30) DEF vars, Sorted, IsSorted, SelectionInv, Cells, Before, Capacity
  <2>3. BalancedOutputs'
    BY <1>6, SMTT(30) DEF vars, IndInv, BalancedOutputs, Built, RecipientMinimum, ChangeMinimum
  <2>4. FeePaysForAllButChange'
    BY <1>6, SMTT(30) DEF vars, IndInv, FeePaysForAllButChange, Built
  <2> QED
    BY <1>6, <2>1, <2>2, <2>3, <2>4 DEF vars, IndInv
<1> QED
  BY <1>1, <1>2, <1>3, <1>4, <1>5, <1>6 DEF Next

(* The strengthened invariant of the coin selection (wallet.ts, the loop   *)
(* of buildTransferTransaction) holds in every reachable state.            *)
THEOREM Invariance == Spec => []IndInv
<1> QED
  BY InitIndInv, StepIndInv, PTL DEF Spec

(* The state of a call of validateTransferRequest is well formed: the loop *)
(* stays within the cells and selects positions of the list.               *)
THEOREM TypeCorrect == Spec => []TypeOK
<1>1. IndInv => TypeOK
  BY DEF IndInv
<1> QED
  BY <1>1, Invariance, PTL

(* Whatever the cells, the amount and the rate, a transaction that         *)
(* buildTransferTransaction returns conserves capacity and has no output   *)
(* below its minimum.                                                      *)
THEOREM CapacityIsConserved == Spec => []BalancedOutputs
<1>1. IndInv => BalancedOutputs
  BY DEF IndInv
<1> QED
  BY <1>1, Invariance, PTL

(* The inputs of buildTransferTransaction are different cells of fromLock. *)
THEOREM InputsAreDistinct == Spec => []DistinctOwnInputs
<1>1. IndInv => DistinctOwnInputs
  <2> SUFFICES ASSUME IndInv PROVE DistinctOwnInputs
    OBVIOUS
  <2>1. TypeOK /\ SelectionInv
    BY DEF IndInv
  <2>2. /\ selectedCells \in Seq(DOMAIN Cells) /\ Len(selectedCells) \in Nat
        /\ DOMAIN selectedCells = 1 .. Len(selectedCells)
        /\ \A a \in DOMAIN selectedCells : selectedCells[a] \in DOMAIN Cells
    BY <2>1, SMTT(30) DEF TypeOK
  <2>3. Selected \subseteq OwnCells
    BY <2>1, <2>2, SMTT(30) DEF SelectionInv, Selected, OwnCells
  <2>4. \A i \in DOMAIN Cells : ~Before(i, i)
    BY <2>1, RequestTypes, SMTT(30) DEF Before
  <2>5. ASSUME NEW a \in DOMAIN selectedCells, NEW b \in DOMAIN selectedCells,
               selectedCells[a] = selectedCells[b]
        PROVE  a = b
    <3>1. a < b \/ b < a \/ a = b
      BY <2>2, SMTT(30)
    <3> QED
      BY <2>1, <2>2, <2>4, <2>5, <3>1 DEF SelectionInv
  <2> QED
    BY <2>3, <2>5 DEF DistinctOwnInputs
<1> QED
  BY <1>1, Invariance, PTL

(* buildTransferTransaction leaves a cell of the sender out only if it     *)
(* comes after every selected one in the order of the sort.                *)
THEOREM SelectionIsSmallestFirst == Spec => []SmallestFirst
<1>1. IndInv /\ DistinctOwnInputs => SmallestFirst
  <2> SUFFICES ASSUME IndInv, Built,
                      NEW i \in Selected, NEW j \in OwnCells \ Selected
               PROVE  Before(i, j)
    BY DEF SmallestFirst
  <2>1. TypeOK /\ SelectionInv /\ Sorted
    BY DEF IndInv
  <2>2. Len(Cells) \in Nat /\ DOMAIN Cells = 1 .. Len(Cells) /\ next \in 1 .. Len(Cells) + 1
    BY <2>1, RequestTypes DEF TypeOK
  <2>3. PICK k \in 1 .. next - 1 : i = sortedCells[k]
    BY <2>1, SMTT(30) DEF SelectionInv, Selected
  <2>4. PICK m \in DOMAIN Cells : sortedCells[m] = j
    BY <2>1 DEF Sorted, IsSorted, OwnCells
  <2>5. m \notin 1 .. next - 1
    BY <2>1, <2>4 DEF SelectionInv, Selected, OwnCells
  <2>6. k \in DOMAIN Cells /\ k < m
    BY <2>2, <2>5, SMTT(30)
  <2> QED
    BY <2>1, <2>3, <2>4, <2>6 DEF Sorted, IsSorted
<1> QED
  BY <1>1, Invariance, InputsAreDistinct, PTL

(* The fee of a built transaction is the rate times its size without the   *)
(* change output, rounded up to a shannon.                                 *)
THEOREM FeeIsExact == Spec => []FeePaysForAllButChange
<1>1. IndInv => FeePaysForAllButChange
  BY DEF IndInv
<1> QED
  BY <1>1, Invariance, PTL

-----------------------------------------------------------------------------
(* The capacity of a set of cells is the sum it is meant to be, in any     *)
(* order of summation.                                                     *)
LEMMA CapacityLaws ==
    ASSUME TypeOK
    PROVE  /\ CapacityOf({}) = 0
           /\ \A T \in SUBSET DOMAIN Cells :
                /\ CapacityOf(T) \in Nat
                /\ \A i \in T : CapacityOf(T) = Capacity(i) + CapacityOf(T \ {i})
<1> DEFINE D == DOMAIN Cells
           g == [i \in D |-> Capacity(i)]
<1>1. IsFiniteSet(D) /\ \A i \in D : g[i] = Capacity(i) /\ g[i] \in Nat
  <2>1. D = 1 .. Len(Cells) /\ Len(Cells) \in Int /\ \A i \in D : Capacity(i) \in Nat
    BY RequestTypes, SMTT(30)
  <2>2. IsFiniteSet(1 .. Len(Cells))
    BY <2>1, FS_Interval, SMTT(30)
  <2>3. \A i \in D : g[i] = Capacity(i)
    OBVIOUS
  <2> HIDE DEF D, g
  <2> QED
    BY <2>1, <2>2, <2>3
<1> HIDE DEF g, D
<1>2. PICK sum : SumsOver(sum, g, D)
  BY <1>1, SumLaws
<1>3. ASSUME NEW T \in SUBSET D PROVE CapacityOf(T) = sum[T]
  <2> DEFINE F(h) == [s \in SUBSET T |-> IF s = {} THEN 0 ELSE Capacity(First(s)) + h[s \ {First(s)}]]
             G(h) == [s \in SUBSET T |-> IF s = {} THEN 0 ELSE g[First(s)] + h[s \ {First(s)}]]
  <2>1. \A s \in SUBSET T : s # {} => Capacity(First(s)) = g[First(s)]
    BY <1>1, FirstIn
  <2>2. \A h : F(h) = G(h)
    BY <2>1
  <2>3. CapacityOf(T) = (CHOOSE h : h = F(h))[T]
    BY DEF CapacityOf, MapThenSumSet, MapThenFoldSet, First
  <2>4. \A h : IsSum(h, g, T) <=> h = G(h)
    BY DEF IsSum
  <2> HIDE DEF F, G
  <2> DEFINE k == CHOOSE h : h = F(h)
  <2>5. k = F(k)
    BY <1>2, <2>2, <2>4 DEF SumsOver
  <2> HIDE DEF k
  <2>6. IsSum(k, g, T)
    BY <2>2, <2>4, <2>5
  <2> QED
    BY <1>2, <2>3, <2>6 DEF k, SumsOver
<1>4. \A T \in SUBSET D : \A i \in T : T \ {i} \in SUBSET D /\ i \in D
  OBVIOUS
<1> QED
  BY <1>1, <1>2, <1>3, <1>4 DEF D, SumsOver

(* The sum of the loop is the capacity of the selected cells, and no       *)
(* selection before the last one worked (none at all, as long as no        *)
(* transaction is built).  The call gives up when it has all own cells.    *)
Prefix(n) == {selectedCells[i] : i \in 1 .. n}
TooLittle(n) == ~Viable(AdjustedChange(CapacityOf(Prefix(n)), n))
SumInv ==
    /\ inputCapacity = CapacityOf(Selected)
    /\ Built => result.changeCapacity = AdjustedChange(inputCapacity, Len(selectedCells))
    /\ \A n \in 1 .. Len(selectedCells) : n < Len(selectedCells) \/ ~Built => TooLittle(n)
    /\ result = Error("insufficient_capacity_for_fee") => Selected = OwnCells

(* While the request stays, so does what is computed from it.              *)
LEMMA RequestFixed ==
    ASSUME request' = request
    PROVE  /\ Cells' = Cells /\ OwnCells' = OwnCells
           /\ \A T : CapacityOf(T)' = CapacityOf(T)
           /\ \A c, n : AdjustedChange(c, n)' = AdjustedChange(c, n)
           /\ \A c : Viable(c)' <=> Viable(c)
<1>1. Cells' = Cells
  BY DEF Cells
<1>2. OwnCells' = OwnCells
  BY <1>1 DEF OwnCells
<1>3. \A T : CapacityOf(T)' = CapacityOf(T)
  BY <1>1 DEF CapacityOf, Capacity, MapThenSumSet, MapThenFoldSet
<1>4. \A c, n : AdjustedChange(c, n)' = AdjustedChange(c, n)
  BY DEF AdjustedChange, Fee
<1>5. \A c : Viable(c)' <=> Viable(c)
  BY DEF Viable, ChangeMinimum
<1> QED
  BY <1>1, <1>2, <1>3, <1>4, <1>5

(* A step that selects no cell and builds no transaction.                  *)
LEMMA NothingSelected ==
    ASSUME SumInv, ~Built, ~Built',
           UNCHANGED <<request, selectedCells, inputCapacity>>,
           result' = Error("insufficient_capacity_for_fee") => Selected = OwnCells
    PROVE  SumInv'
<1>1. Selected' = Selected /\ \A n : Prefix(n)' = Prefix(n)
  BY DEF Selected, Prefix
<1>2. \A n : TooLittle(n)' <=> TooLittle(n)
  BY <1>1, RequestFixed DEF TooLittle
<1> QED
  BY <1>1, <1>2, RequestFixed DEF SumInv

(* At the start the sum is that of no cell.                                *)
LEMMA InitSumInv == Init => SumInv
<1> SUFFICES ASSUME Init PROVE SumInv
  OBVIOUS
<1>1. TypeOK
  BY InitIndInv DEF IndInv
<1>2. Selected = {} /\ Len(selectedCells) = 0 /\ inputCapacity = 0
  BY SMTT(30) DEF Init, Selected
<1>3. ~Built /\ result # Error("insufficient_capacity_for_fee")
  BY DEF Init, Built, NoResult, Error
<1> QED
  BY <1>1, <1>2, <1>3, CapacityLaws, SMTT(30) DEF SumInv

(* One more cell is selected: the sum grows by its capacity, and the loop  *)
(* stops when that works.                                                  *)
LEMMA SelectSum ==
    ASSUME IndInv, SumInv, Select
    PROVE  SumInv'
<1>0. TypeOK /\ selectedCells \in Seq(DOMAIN Cells)
  BY DEF IndInv, TypeOK
<1>n. PICK n \in Nat : n = Len(selectedCells)
  BY <1>0, SMTT(30)
<1>1. /\ pc = "select" /\ next <= Len(Cells) /\ Cells[Current].own
      /\ selectedCells' = Append(selectedCells, Current)
      /\ inputCapacity' = inputCapacity + Capacity(Current)
      /\ request' = request
  BY DEF Select, Take
<1>2. /\ result = NoResult /\ ~Built /\ inputCapacity \in Nat
      /\ Current \in DOMAIN Cells /\ Capacity(Current) \in Nat
  <2>1. result = NoResult /\ inputCapacity \in Nat
    BY <1>1 DEF TypeOK, IndInv
  <2> QED
    BY <1>0, <1>1, <2>1, RequestTypes, CurrentIsNext DEF Built, NoResult
<1>3. /\ Len(selectedCells') = n + 1 /\ DOMAIN selectedCells = 1 .. n
      /\ DOMAIN selectedCells' = 1 .. n + 1
      /\ \A a \in 1 .. n : selectedCells'[a] = selectedCells[a]
      /\ selectedCells'[n + 1] = Current
  BY <1>0, <1>n, <1>1, <1>2, SMTT(30)
<1>4. Current \notin Selected /\ Selected \subseteq DOMAIN Cells
  <2>1. \A a \in DOMAIN selectedCells : Before(selectedCells[a], Current)
    BY <1>1, CurrentIsNext
  <2>2. ~Before(Current, Current)
    BY <1>0, <1>2, RequestTypes, SMTT(30) DEF Before
  <2> QED
    BY <1>0, <2>1, <2>2, SMTT(30) DEF Selected
<1>5. Selected' = Selected \cup {Current}
  <2>1. \A a \in 1 .. n + 1 : a \in 1 .. n \/ a = n + 1
    BY <1>2, SMTT(30)
  <2>2. 1 .. n \subseteq 1 .. n + 1 /\ n + 1 \in 1 .. n + 1
    BY <1>2, SMTT(30)
  <2> QED
    BY <1>3, <2>1, <2>2 DEF Selected
<1>6. inputCapacity' = CapacityOf(Selected)' 
  <2>1. CapacityOf(Selected \cup {Current}) = Capacity(Current) + CapacityOf((Selected \cup {Current}) \ {Current})
    BY <1>0, <1>2, <1>4, CapacityLaws
  <2>2. (Selected \cup {Current}) \ {Current} = Selected
    BY <1>4
  <2>3. CapacityOf(Selected') = CapacityOf(Selected)'
    BY <1>1, RequestFixed
  <2>4. inputCapacity = CapacityOf(Selected)
    BY DEF SumInv
  <2>5. CapacityOf(Selected') = Capacity(Current) + inputCapacity
    BY <1>5, <2>1, <2>2, <2>4
  <2> QED
    BY <1>1, <1>2, <2>3, <2>5, SMTT(30)
<1>7. ASSUME NEW m \in 1 .. n PROVE TooLittle(m)'
  <2>1. \A i \in 1 .. m : i \in 1 .. n
    BY <1>2, SMTT(30)
  <2>2. Prefix(m)' = Prefix(m)
    BY <1>3, <2>1 DEF Prefix
  <2>3. TooLittle(m)
    BY <1>n, <1>2 DEF SumInv
  <2> QED
    BY <1>1, <2>2, <2>3, RequestFixed DEF TooLittle
<1>8. Prefix(n + 1)' = Selected'
  BY <1>3 DEF Prefix, Selected
<1> DEFINE change == AdjustedChange(inputCapacity', n + 1)
<1>9. IF Viable(change)
      THEN result' = Transfer(inputCapacity', n + 1)
      ELSE result' = result
  BY <1>3 DEF Select, StopIf, Take
<1>10. TooLittle(n + 1)' <=> ~Viable(change)
  BY <1>1, <1>6, <1>8, RequestFixed DEF TooLittle
<1>11. result' # Error("insufficient_capacity_for_fee")
  BY <1>2, <1>9, SMTT(30) DEF Error, Transfer, NoResult
<1>12. CASE Viable(change)
  <2>1. Built' /\ result'.changeCapacity = change
    BY <1>9, <1>12, SMTT(30) DEF Built, Transfer
  <2>2. change = AdjustedChange(inputCapacity, Len(selectedCells))'
    BY <1>1, <1>3, RequestFixed
  <2>3. \A m \in 1 .. n + 1 : m < n + 1 => m \in 1 .. n
    BY <1>2, SMTT(30)
  <2> QED
    BY <1>3, <1>6, <1>7, <1>11, <2>1, <2>2, <2>3 DEF SumInv
<1>13. CASE ~Viable(change)
  <2>1. ~Built'
    BY <1>2, <1>9, <1>13 DEF Built, NoResult
  <2>2. \A m \in 1 .. n + 1 : m \in 1 .. n \/ m = n + 1
    BY <1>2, SMTT(30)
  <2>3. \A m \in 1 .. n + 1 : TooLittle(m)'
    BY <1>7, <1>10, <1>13, <2>2
  <2> QED
    BY <1>3, <1>6, <1>11, <2>1, <2>3 DEF SumInv
<1> QED
  BY <1>12, <1>13

(* Every step of the call keeps the sums.                                  *)
LEMMA StepSumInv == IndInv /\ SumInv /\ [Next]_vars => SumInv'
<1> SUFFICES ASSUME IndInv, SumInv, [Next]_vars PROVE SumInv'
  OBVIOUS
<1>1. CASE Refuse
  <2>1. /\ pc = "validate" /\ UNCHANGED <<request, selectedCells, inputCapacity>>
        /\ \E code \in {"invalid_recipient_network", "amount_below_minimum_capacity",
                         "insufficient_total_capacity"} : result' = Error(code)
    BY <1>1 DEF Refuse, Finish
  <2>2. ~Built /\ ~Built' /\ result' # Error("insufficient_capacity_for_fee")
    BY <2>1, SMTT(30) DEF IndInv, Built, NoResult, Error
  <2> QED
    BY <2>1, <2>2, NothingSelected
<1>2. CASE SortCells \/ SkipForeign
  <2>1. pc \in {"validate", "select"} /\ UNCHANGED <<request, selectedCells, inputCapacity, result>>
    BY <1>2 DEF SortCells, SkipForeign
  <2>2. ~Built /\ ~Built' /\ result' # Error("insufficient_capacity_for_fee")
    BY <2>1, SMTT(30) DEF IndInv, Built, NoResult, Error
  <2> QED
    BY <2>1, <2>2, NothingSelected
<1>3. CASE Select
  BY <1>3, SelectSum
<1>4. CASE Exhausted
  <2>1. /\ pc = "select" /\ next > Len(Cells) /\ UNCHANGED <<request, selectedCells, inputCapacity>>
        /\ result' = Error("insufficient_capacity_for_fee")
    BY <1>4 DEF Exhausted, Finish
  <2>2. ~Built /\ ~Built'
    BY <2>1, SMTT(30) DEF IndInv, Built, NoResult, Error
  <2>3. Selected = OwnCells
    <3>1. TypeOK /\ SelectionInv /\ Sorted
      BY <2>1 DEF IndInv
    <3>2. /\ Len(Cells) \in Nat /\ DOMAIN Cells = 1 .. Len(Cells) /\ next \in 1 .. Len(Cells) + 1
          /\ \A a \in DOMAIN selectedCells : selectedCells[a] \in DOMAIN Cells
      BY <3>1, RequestTypes, SMTT(30) DEF TypeOK
    <3>3. Selected \subseteq OwnCells
      BY <3>1, <3>2, SMTT(30) DEF SelectionInv, Selected, OwnCells
    <3>4. ASSUME NEW i \in OwnCells PROVE i \in Selected
      <4>1. PICK k \in DOMAIN Cells : sortedCells[k] = i
        BY <3>1 DEF Sorted, IsSorted, OwnCells
      <4>2. k \in 1 .. next - 1
        BY <2>1, <3>2, SMTT(30)
      <4> QED
        BY <3>1, <4>1, <4>2 DEF SelectionInv, Selected, OwnCells
    <3> QED
      BY <3>3, <3>4
  <2> QED
    BY <2>1, <2>2, <2>3, NothingSelected
<1>5. CASE UNCHANGED vars
  <2>1. UNCHANGED <<request, selectedCells, inputCapacity, result>>
    BY <1>5 DEF vars
  <2>2. Selected' = Selected /\ \A n : Prefix(n)' = Prefix(n)
    BY <2>1 DEF Selected, Prefix
  <2>3. \A n : TooLittle(n)' <=> TooLittle(n)
    BY <2>1, <2>2, RequestFixed DEF TooLittle
  <2> QED
    BY <2>1, <2>2, <2>3, RequestFixed DEF SumInv, Built
<1> QED
  BY <1>1, <1>2, <1>3, <1>4, <1>5 DEF Next

(* buildTransferTransaction stops at the first selection that works, and   *)
(* pays the change that it leaves.                                         *)
THEOREM SelectionIsFirstFit == Spec => []FirstFit
<1>1. IndInv /\ SumInv => FirstFit
  <2> SUFFICES ASSUME IndInv, SumInv, Built
               PROVE  /\ result.changeCapacity = AdjustedChange(CapacityOf(Selected), Len(selectedCells))
                      /\ \A n \in 1 .. Len(selectedCells) - 1 : TooLittle(n)
    BY DEF FirstFit, TooLittle, Prefix
  <2>1. Len(selectedCells) \in Nat
    BY SMTT(30) DEF IndInv, TypeOK
  <2>2. \A n \in 1 .. Len(selectedCells) - 1 : n \in 1 .. Len(selectedCells) /\ n < Len(selectedCells)
    BY <2>1, SMTT(30)
  <2> QED
    BY <2>2 DEF SumInv
<1> QED
  BY <1>1, InitIndInv, StepIndInv, InitSumInv, StepSumInv, PTL DEF Spec

(* One more input costs at most what a cell of the sender holds.           *)
LEMMA FeeGrowth ==
    ASSUME TypeOK, NEW n \in Nat \ {0}, NEW c \in Nat, c * 1000 >= InputSize * request.feeRate
    PROVE  Fee(n + 1) <= Fee(n) + c /\ Fee(n) \in Nat /\ Fee(n + 1) \in Nat
<1> DEFINE size(m) == estimateTransactionSize(m, <<request.toArgs>>)
           r == request.feeRate
<1>1. r \in Nat /\ request.toArgs \in Nat
  BY RequestTypes, SMTT(30)
<1>2. size(n + 1) = size(n) + InputSize
  BY <1>1, SizeAssumption, SMTT(30) DEF estimateTransactionSize, serializeTable, serializeDynVec,
     serializeRawTransaction, serializeFixVec, serializeCellDepVec, serializeCellInputVec,
     withPlaceholderWitnesses, encodeWitnessArgs, serializeBytes, InputSize, OutPointBytes,
     serializeCellOutputVec, serializeOutputsData, serializeCellOutput, serializeScript
<1>3. Fee(n) \in Nat /\ Fee(n) * 1000 >= size(n) * r
  BY SizeTypes, SMTT(30)
<1>4. Fee(n + 1) \in Nat /\ Fee(n + 1) * 1000 < size(n + 1) * r + 1000
  <2>1. n + 1 \in Nat \ {0}
    BY SMTT(30)
  <2> QED
    BY <2>1, SizeTypes, SMTT(30)
<1>5. size(n) \in Nat /\ InputSize \in Nat
  BY <1>1, SizeAssumption, SMTT(30) DEF estimateTransactionSize, serializeTable, serializeDynVec,
     serializeRawTransaction, serializeFixVec, serializeCellDepVec, serializeCellInputVec,
     withPlaceholderWitnesses, encodeWitnessArgs, serializeBytes, InputSize, OutPointBytes,
     serializeCellOutputVec, serializeOutputsData, serializeCellOutput, serializeScript
<1> HIDE DEF size, r
<1>6. (size(n) + InputSize) * r = size(n) * r + InputSize * r
  BY <1>1, <1>5, SMTT(30)
<1>7. size(n) * r \in Nat /\ InputSize * r \in Nat
  BY <1>1, <1>5, SMTT(30)
<1>8. c * 1000 >= InputSize * r
  BY SMTT(30) DEF r
<1> QED
  BY <1>2, <1>3, <1>4, <1>6, <1>7, <1>8, SMTT(30)

(* The sender's cells are finitely many.                                   *)
LEMMA OwnCellsFinite ==
    ASSUME TypeOK
    PROVE  IsFiniteSet(OwnCells) /\ OwnCells \subseteq DOMAIN Cells
<1>1. OwnCells \subseteq DOMAIN Cells
  BY DEF OwnCells
<1>2. IsFiniteSet(DOMAIN Cells)
  BY RequestTypes, FS_Interval, SMTT(30)
<1> QED
  BY <1>1, <1>2, FS_Subset

(* More of the sender's cells never leave less, once fees are paid.        *)
LEMMA MoreLeavesMore ==
    ASSUME TypeOK, CellsAreWorthTheirInput
    PROVE  \A T \in SUBSET OwnCells : \A S \in SUBSET T : S # {} =>
             AdjustedChange(CapacityOf(S), Cardinality(S)) <= AdjustedChange(CapacityOf(T), Cardinality(T))
<1> DEFINE left(S) == AdjustedChange(CapacityOf(S), Cardinality(S))
           Law(T) == \A S \in SUBSET T : S # {} => left(S) <= left(T)
           Bad == {T \in SUBSET OwnCells : ~Law(T)}
<1> SUFFICES ASSUME Bad # {} PROVE FALSE
  OBVIOUS
<1>1. IsFiniteSet(OwnCells) /\ OwnCells \subseteq DOMAIN Cells /\ request.amount \in Nat
  BY OwnCellsFinite, RequestTypes
<1>2. PICK T \in Bad : \A U \in Bad : U \subseteq T => U = T
  <2>1. Bad \in SUBSET (SUBSET OwnCells)
    OBVIOUS
  <2> HIDE DEF Bad
  <2> QED
    BY <1>1, <2>1, SmallestSet, SMTT(30)
<1>3. T \in SUBSET OwnCells /\ ~Law(T) /\ \A U \in SUBSET T : U # T => Law(U)
  BY <1>2
<1> HIDE DEF Bad
<1>4. PICK S \in SUBSET T : S # {} /\ ~(left(S) <= left(T))
  BY <1>3
<1>5. /\ IsFiniteSet(T) /\ Cardinality(T) \in Nat
      /\ \A U \in SUBSET T : IsFiniteSet(U) /\ Cardinality(U) \in Nat /\ (U # {} => Cardinality(U) # 0)
  <2>1. \A U \in SUBSET T : IsFiniteSet(U)
    BY <1>1, <1>3, FS_Subset
  <2> QED
    BY <2>1, FS_CardinalityType, FS_EmptySet
<1>6. ASSUME NEW U \in SUBSET T, U # {}
      PROVE  left(U) \in Int /\ left(U) = CapacityOf(U) - request.amount - Fee(Cardinality(U))
             /\ CapacityOf(U) \in Nat /\ Fee(Cardinality(U)) \in Nat
  <2>1. CapacityOf(U) \in Nat
    BY <1>1, <1>3, CapacityLaws
  <2>2. PICK m \in Nat \ {0} : m = Cardinality(U)
    BY <1>5, <1>6
  <2>3. Fee(m) \in Nat
    BY SizeTypes, SMTT(30)
  <2> QED
    BY <1>1, <2>1, <2>2, <2>3, SMTT(30) DEF AdjustedChange
<1>7. PICK x \in T : x \notin S
  <2>1. S # T
    BY <1>4, <1>6, SMTT(30)
  <2> QED
    BY <2>1
<1> DEFINE R == T \ {x}
<1>8. R \in SUBSET T /\ R # T /\ S \in SUBSET R /\ R # {} /\ T # {}
  BY <1>4, <1>7
<1>9. left(S) <= left(R)
  BY <1>3, <1>4, <1>8
<1>10. Cardinality(T) = Cardinality(R) + 1 /\ Cardinality(R) \in Nat \ {0}
  <2>1. Cardinality(R) = Cardinality(T) - 1
    BY <1>5, <1>7, FS_RemoveElement
  <2>2. Cardinality(R) \in Nat /\ Cardinality(R) # 0
    BY <1>5, <1>8
  <2> HIDE DEF R
  <2> QED
    BY <1>5, <2>1, <2>2, SMTT(30)
<1>11. CapacityOf(T) = Capacity(x) + CapacityOf(R)
  BY <1>1, <1>3, CapacityLaws
<1>12. Capacity(x) \in Nat /\ Capacity(x) * 1000 >= InputSize * request.feeRate
  <2>1. x \in DOMAIN Cells /\ Cells[x].own
    BY <1>3 DEF OwnCells
  <2>2. request.cells \in CellLists /\ request.feeRate \in FeeRates
    BY DEF TypeOK
  <2> QED
    BY <2>1, <2>2, RequestTypes, SMTT(30) DEF CellsAreWorthTheirInput, Capacity, Cells
<1>13. Fee(Cardinality(R) + 1) <= Fee(Cardinality(R)) + Capacity(x)
  BY <1>10, <1>12, FeeGrowth, SMTT(30)
<1> HIDE DEF R
<1>14. left(R) <= left(T)
  <2>1. left(T) = CapacityOf(T) - request.amount - Fee(Cardinality(T)) /\ Fee(Cardinality(T)) \in Nat
    BY <1>6, <1>8
  <2>2. left(R) = CapacityOf(R) - request.amount - Fee(Cardinality(R)) /\ Fee(Cardinality(R)) \in Nat
        /\ CapacityOf(R) \in Nat
    BY <1>6, <1>8
  <2>3. Fee(Cardinality(T)) <= Fee(Cardinality(R)) + Capacity(x)
    BY <1>10, <1>13
  <2> HIDE DEF left
  <2> QED
    BY <1>1, <1>11, <1>12, <2>1, <2>2, <2>3, SMTT(30)
<1> QED
  <2>1. left(S) \in Int /\ left(R) \in Int /\ left(T) \in Int
    BY <1>4, <1>6, <1>8
  <2> HIDE DEF left
  <2> QED
    BY <1>4, <1>9, <1>14, <2>1, SMTT(30)

(* A selection of all the sender's cells has as many as there are.         *)
LEMMA AllAreSelected ==
    ASSUME IndInv, Selected = OwnCells
    PROVE  Len(selectedCells) = Cardinality(OwnCells) /\ Prefix(Len(selectedCells)) = OwnCells
<1>1. /\ Len(selectedCells) \in Nat /\ DOMAIN selectedCells = 1 .. Len(selectedCells)
      /\ \A a \in DOMAIN selectedCells : selectedCells[a] \in DOMAIN Cells
  <2>1. selectedCells \in Seq(DOMAIN Cells)
    BY DEF IndInv, TypeOK
  <2> QED
    BY <2>1, SMTT(30)
<1>2. PICK n \in Nat : n = Len(selectedCells)
  BY <1>1
<1>3. ASSUME NEW a \in 1 .. n, NEW b \in 1 .. n, selectedCells[a] = selectedCells[b]
      PROVE  a = b
  <2>1. \A i \in DOMAIN Cells : ~Before(i, i)
    BY RequestTypes, SMTT(30) DEF IndInv, Before
  <2>2. a < b \/ b < a \/ a = b
    BY SMTT(30)
  <2>3. a \in DOMAIN selectedCells /\ b \in DOMAIN selectedCells
    BY <1>1, <1>2
  <2> QED
    BY <1>1, <1>3, <2>1, <2>2, <2>3 DEF IndInv, SelectionInv
<1> DEFINE f == [a \in 1 .. n |-> selectedCells[a]]
<1>4. f \in [1 .. n -> OwnCells] /\ \A i \in OwnCells : \E a \in 1 .. n : f[a] = i
  BY <1>1, <1>2 DEF Selected
<1>5. f \in Bijection(1 .. n, OwnCells)
  BY <1>3, <1>4 DEF Bijection, Injection, Surjection, IsInjective
<1>6. ExistsBijection(1 .. n, OwnCells)
  BY <1>5 DEF ExistsBijection
<1>7. Cardinality(OwnCells) = n
  BY <1>6, FS_CountingElements
<1> QED
  BY <1>1, <1>2, <1>7 DEF Prefix, Selected

(* When buildTransferTransaction gives up for the fee or the change, no    *)
(* choice of the sender's cells would have done, provided that each cell   *)
(* holds the fee of the input that spends it: all of them together leave   *)
(* the most, and the loop tried that last.                                 *)
THEOREM FailuresAreGenuine ==
    ASSUME CellsAreWorthTheirInput
    PROVE  Spec => []FailureIsGenuine
<1>1. IndInv /\ SumInv => FailureIsGenuine
  <2> SUFFICES ASSUME IndInv, SumInv, result = Error("insufficient_capacity_for_fee"),
                      NEW S \in SUBSET OwnCells, S # {}
               PROVE  AdjustedChange(CapacityOf(S), Cardinality(S)) < ChangeMinimum
    BY DEF FailureIsGenuine
  <2> DEFINE left(T) == AdjustedChange(CapacityOf(T), Cardinality(T))
  <2>1. TypeOK /\ ~Built /\ Selected = OwnCells
    BY DEF IndInv, SumInv, Built, Error
  <2>2. left(S) <= left(OwnCells)
    BY <2>1, MoreLeavesMore
  <2>3. PICK n \in Nat \ {0} : n = Cardinality(OwnCells)
    <3>1. IsFiniteSet(OwnCells) /\ OwnCells # {}
      BY <2>1, OwnCellsFinite
    <3> QED
      BY <3>1, FS_CardinalityType, FS_EmptySet
  <2>4. n = Len(selectedCells) /\ Prefix(n) = OwnCells
    BY <2>1, <2>3, AllAreSelected
  <2>5. TooLittle(n)
    BY <2>1, <2>4, SMTT(30) DEF SumInv
  <2>6. ~(left(OwnCells) >= ChangeMinimum)
    BY <2>3, <2>4, <2>5 DEF TooLittle, Viable
  <2>7. ASSUME NEW T \in SUBSET OwnCells, T # {} PROVE left(T) \in Int
    <3>1. PICK m \in Nat \ {0} : m = Cardinality(T)
      <4>1. IsFiniteSet(T)
        BY <2>1, OwnCellsFinite, FS_Subset
      <4> QED
        BY <2>7, <4>1, FS_CardinalityType, FS_EmptySet
    <3>2. Fee(m) \in Nat
      BY <2>1, SizeTypes, SMTT(30)
    <3>3. CapacityOf(T) \in Nat
      BY <2>1, OwnCellsFinite, CapacityLaws
    <3>4. request.amount \in Nat
      BY <2>1, RequestTypes
    <3> QED
      BY <3>1, <3>2, <3>3, <3>4, SMTT(30) DEF AdjustedChange
  <2>8. left(S) \in Int /\ left(OwnCells) \in Int /\ ChangeMinimum \in Int
    BY <2>1, <2>7, MinimumTypes, SMTT(30)
  <2> HIDE DEF left
  <2>9. left(S) < ChangeMinimum
    BY <2>2, <2>6, <2>8, SMTT(30)
  <2> QED
    BY <2>9 DEF left
<1> QED
  BY <1>1, InitIndInv, StepIndInv, InitSumInv, StepSumInv, PTL DEF Spec
==============================================================================
