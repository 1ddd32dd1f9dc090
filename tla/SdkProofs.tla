------------------------------- MODULE SdkProofs -------------------------------
(***************************************************************************)
(* The SDK's commands: transfers that run beside each other, for any       *)
(* number of commands, any amounts and cells, and any behaviour of the     *)
(* node and the indexer; and the calls into the wasm module, for any       *)
(* number of callers and any contents of their buffers.                    *)
(***************************************************************************)
EXTENDS WalletNetwork, WasmBridge, FiniteSums

USE ZenonT(30)

-----------------------------------------------------------------------------
(* The wallet's transfers.                                                 *)

(* The ledger: every cell is spent once, by a pooled transaction or a      *)
(* committed one.                                                          *)
LedgerInv ==
    /\ chain \in Seq(Committed) /\ IsInjective(chain)
    /\ indexed \in 0 .. Len(chain)
    /\ \A t \in Committed \cup pool : t # NoTx /\ t.change \in Nat
    /\ pool \cap Committed = {}
    /\ \A t \in pool : t.inputs \subseteq OwnCells(Len(chain))
    /\ \A t, u \in pool : t # u => t.inputs \cap u.inputs = {}
    /\ \A t, u \in Committed : t # u => t.inputs \cap u.inputs = {}

(* No cell of S comes before c.                                            *)
Foremost(c, S) == \A d \in S : ~Before(d, c)

(* A command builds from cells of the ledger, and spends the first of      *)
(* them.                                                                   *)
CommandInv ==
    /\ DOMAIN pc = Commands /\ DOMAIN cells = Commands /\ DOMAIN tx = Commands
    /\ \A p \in Commands :
         /\ opts[p].amount \in Nat
         /\ IsFiniteSet(cells[p])
         /\ \A c \in cells[p] : c.capacity \in Nat /\ (c.of = NoTx \/ c.of \in Committed)
         /\ pc[p] \in {"getCells", "build"} => tx[p] = NoTx
         /\ pc[p] = "send" => tx[p] # NoTx
         /\ tx[p] # NoTx => /\ tx[p].change \in Nat /\ cells[p] # {}
                            /\ \A c \in cells[p] : Foremost(c, cells[p]) => c \in tx[p].inputs

(* Where a cell of the ledger was born.                                    *)
LEMMA BornType ==
    ASSUME LedgerInv, NEW c, c.of = NoTx \/ c.of \in Committed
    PROVE  /\ Born(c) \in Nat
           /\ c.of # NoTx => Born(c) \in DOMAIN chain /\ chain[Born(c)] = c.of
<1>1. CASE c.of = NoTx
  BY <1>1 DEF Born
<1>2. CASE c.of # NoTx
  <2>1. \E h \in DOMAIN chain : chain[h] = c.of
    BY <1>2 DEF Committed, Range
  <2>2. Born(c) = CHOOSE h \in DOMAIN chain : chain[h] = c.of
    BY <1>2 DEF Born
  <2>3. Born(c) \in DOMAIN chain /\ chain[Born(c)] = c.of
    BY <2>1, <2>2
  <2>4. DOMAIN chain \subseteq Nat
    BY SMTT(30) DEF LedgerInv
  <2> QED
    BY <2>3, <2>4
<1> QED
  BY <1>1, <1>2

(* Any cells of the ledger have a first one.                               *)
LEMMA FirstExists ==
    ASSUME NEW S, S # {}, \A c \in S : c.capacity \in Nat /\ Born(c) \in Nat
    PROVE  \E c \in S : Foremost(c, S)
<1> DEFINE N == {c.capacity : c \in S}
<1>1. PICK n \in N : \A m \in N : n <= m
  <2>1. N \in SUBSET Nat /\ N # {}
    OBVIOUS
  <2> HIDE DEF N
  <2> QED
    BY <2>1, LeastNumber
<1>2. \A c \in S : n <= c.capacity
  BY <1>1
<1> DEFINE B == {Born(c) : c \in {d \in S : d.capacity = n}}
<1>3. PICK b \in B : \A m \in B : b <= m
  <2>1. B \in SUBSET Nat /\ B # {}
    BY <1>1
  <2> HIDE DEF B
  <2> QED
    BY <2>1, LeastNumber
<1>4. PICK c \in S : c.capacity = n /\ Born(c) = b
  BY <1>3
<1>5. ASSUME NEW d \in S PROVE ~Before(d, c)
  <2>1. n <= d.capacity /\ d.capacity \in Nat /\ n \in Nat /\ b \in Nat /\ Born(d) \in Nat
    BY <1>2, <1>4
  <2>2. d.capacity = n => b <= Born(d)
    BY <1>3
  <2> QED
    BY <1>4, <2>1, <2>2, SMTT(30) DEF Before
<1> QED
  BY <1>4, <1>5 DEF Foremost

(* The live cells at the tip, by transactions.                             *)
LEMMA TipCells ==
    ASSUME LedgerInv
    PROVE  OwnCells(Len(chain)) = (Funding \cup UNION {Change(t) : t \in Committed})
                                  \ UNION {t.inputs : t \in Committed}
<1>1. {chain[h] : h \in 1 .. Len(chain)} = Committed
  BY SMTT(30) DEF LedgerInv, Committed, Range
<1> QED
  BY <1>1 DEF OwnCells

(* What the indexer shows is finite and of the ledger.                     *)
LEMMA ShownCells ==
    ASSUME LedgerInv
    PROVE  /\ IsFiniteSet(OwnCells(indexed))
           /\ \A c \in OwnCells(indexed) : c.capacity \in Nat /\ (c.of = NoTx \/ c.of \in Committed)
<1> DEFINE H == 1 .. indexed
           txs == {chain[h] : h \in H}
           F == [h \in H |-> Change(chain[h])]
           C == {Change(t) : t \in txs}
<1>1. txs \subseteq Committed
  BY SMTT(30) DEF LedgerInv, Committed, Range
<1>2. OwnCells(indexed) \subseteq Funding \cup UNION C
  BY DEF OwnCells
<1>3. \A c \in Funding : c.of = NoTx /\ c.capacity \in Nat
  BY FundingAssumption, SMTT(30) DEF Funding
<1>4. \A t \in Committed : \A c \in Change(t) : c.of = t /\ c.capacity \in Nat
  BY SMTT(30) DEF LedgerInv, Change
<1>5. IsFiniteSet(Funding)
  <2> DEFINE G == [c \in FundingCells |-> [of |-> NoTx, capacity |-> c]]
  <2>1. G \in Surjection(FundingCells, Funding)
    BY DEF Surjection, Funding
  <2> HIDE DEF G
  <2> QED
    BY <2>1, FundingAssumption, FS_Surjection
<1>6. IsFiniteSet(C)
  <2>1. F \in Surjection(H, C)
    BY DEF Surjection
  <2>2. IsFiniteSet(H)
    BY FS_Interval, SMTT(30) DEF LedgerInv
  <2> HIDE DEF F, H, C
  <2> QED
    BY <2>1, <2>2, FS_Surjection
<1>7. \A T \in C : IsFiniteSet(T)
  <2>1. \A c : IsFiniteSet(Change(c))
    BY FS_EmptySet, FS_Singleton DEF Change
  <2> QED
    BY <2>1
<1>8. IsFiniteSet(UNION C)
  BY <1>6, <1>7, FS_UNION
<1>9. IsFiniteSet(Funding \cup UNION C)
  BY <1>5, <1>8, FS_Union
<1>10. IsFiniteSet(OwnCells(indexed))
  BY <1>2, <1>9, FS_Subset
<1>11. ASSUME NEW c \in OwnCells(indexed)
       PROVE  c.capacity \in Nat /\ (c.of = NoTx \/ c.of \in Committed)
  BY <1>1, <1>2, <1>3, <1>4, SMTT(30)
<1> QED
  BY <1>10, <1>11

(* Cells hold a number of shannons.                                        *)
LEMMA CapacityType ==
    ASSUME NEW S, IsFiniteSet(S), \A c \in S : c.capacity \in Nat
    PROVE  CapacityOf(S) \in Nat
<1> DEFINE g == [c \in S |-> c.capacity]
<1>1. \A c \in S : g[c] = c.capacity /\ g[c] \in Nat
  OBVIOUS
<1> HIDE DEF g
<1>2. PICK sum : SumsOver(sum, g, S)
  BY <1>1, SumLaws
<1> DEFINE F(h) == [s \in SUBSET S |-> IF s = {} THEN 0 ELSE First(s).capacity + h[s \ {First(s)}]]
           G(h) == [s \in SUBSET S |-> IF s = {} THEN 0 ELSE g[First(s)] + h[s \ {First(s)}]]
<1>3. \A s \in SUBSET S : s # {} => First(s).capacity = g[First(s)]
  BY <1>1, FirstIn
<1>4. \A h : F(h) = G(h)
  BY <1>3
<1>5. CapacityOf(S) = (CHOOSE h : h = F(h))[S]
  BY DEF CapacityOf, MapThenSumSet, MapThenFoldSet, First
<1>6. \A h : IsSum(h, g, S) <=> h = G(h)
  BY DEF IsSum
<1>7. S \in SUBSET S
  OBVIOUS
<1> HIDE DEF F, G
<1> DEFINE k == CHOOSE h : h = F(h)
<1>8. k = F(k)
  BY <1>2, <1>4, <1>6, <1>7 DEF SumsOver
<1> HIDE DEF k
<1>9. IsSum(k, g, S)
  BY <1>4, <1>6, <1>8
<1> QED
  BY <1>2, <1>5, <1>7, <1>9 DEF k, SumsOver

(* The builder spends the first of its cells, whatever the amount.         *)
LEMMA BuildsFromTheFirst ==
    ASSUME NEW S, IsFiniteSet(S), \A c \in S : c.capacity \in Nat, NEW amount \in Nat,
           NEW t, t = buildTransferTransaction(S, amount), t # NoTx
    PROVE  t.change \in Nat /\ S # {} /\ \A c \in S : Foremost(c, S) => c \in t.inputs
<1> DEFINE sizes == {n \in 1 .. Cardinality(S) : Pays(Smallest(S, n), amount)}
<1>1. sizes # {} /\ t = Pay(Smallest(S, Min(sizes)), amount)
  BY DEF buildTransferTransaction
<1>2. Cardinality(S) \in Nat
  BY FS_CardinalityType
<1>3. Min(sizes) \in sizes
  <2>1. sizes \in SUBSET Nat
    BY <1>2, SMTT(30)
  <2> HIDE DEF sizes
  <2>2. \E n \in sizes : \A m \in sizes : n <= m
    BY <1>1, <2>1, LeastNumber
  <2> QED
    BY <2>2 DEF Min
<1>4. PICK n \in 1 .. Cardinality(S) : n = Min(sizes) /\ Pays(Smallest(S, n), amount)
  BY <1>3
<1> DEFINE T == Smallest(S, n)
<1>5. t.inputs = T /\ t.change = CapacityOf(T) - amount - Fee
  BY <1>1, <1>4, SMTT(30) DEF Pay
<1>6. S # {}
  BY <1>2, <1>4, FS_EmptySet, SMTT(30)
<1>7. CapacityOf(T) \in Nat
  <2>1. T \subseteq S
    BY DEF Smallest
  <2>2. IsFiniteSet(T)
    BY <2>1, FS_Subset
  <2> HIDE DEF T
  <2> QED
    BY <2>1, <2>2, CapacityType
<1>8. t.change \in Nat
  <2>1. CapacityOf(T) = amount + Fee \/ CapacityOf(T) >= amount + Fee + MinCapacity
    BY <1>4 DEF Pays
  <2> HIDE DEF T
  <2> QED
    BY <1>5, <1>7, <2>1, CapacityAssumption, SMTT(30)
<1>9. ASSUME NEW c \in S, Foremost(c, S) PROVE c \in T
  <2>1. {d \in S : Before(d, c)} = {}
    BY <1>9 DEF Foremost
  <2>2. Cardinality({d \in S : Before(d, c)}) = 0
    BY <2>1, FS_EmptySet
  <2>3. 0 < n
    BY <1>2, <1>4, SMTT(30)
  <2> QED
    BY <2>2, <2>3 DEF Smallest
<1> QED
  BY <1>5, <1>6, <1>8, <1>9

-----------------------------------------------------------------------------
(* A block is committed: its transaction was live and spent by no other.   *)
LEMMA CommitLedger ==
    ASSUME LedgerInv, NEW t \in pool, chain' = Append(chain, t), pool' = pool \ {t},
           indexed' = indexed
    PROVE  LedgerInv' /\ Committed' = Committed \cup {t}
<1>1. chain \in Seq(Committed) /\ Len(chain) \in Nat /\ t \notin Committed
  BY SMTT(30) DEF LedgerInv
<1>2. PICK n \in Nat : n = Len(chain)
  BY <1>1
<1>3. /\ Len(chain') = n + 1 /\ DOMAIN chain = 1 .. n /\ DOMAIN chain' = 1 .. n + 1
      /\ \A h \in 1 .. n : chain'[h] = chain[h]
      /\ chain'[n + 1] = t
  BY <1>1, <1>2, SMTT(30)
<1>4. \A h \in 1 .. n + 1 : h \in 1 .. n \/ h = n + 1
  BY SMTT(30)
<1>5. 1 .. n \subseteq 1 .. n + 1 /\ n + 1 \in 1 .. n + 1
  BY SMTT(30)
<1>6. Committed' = Committed \cup {t}
  BY <1>3, <1>4, <1>5 DEF Committed, Range
<1>7. chain' \in Seq(Committed')
  BY <1>1, <1>6, SMTT(30)
<1>8. IsInjective(chain')
  <2>1. \A h \in 1 .. n : chain[h] # t
    BY <1>1, <1>3 DEF Committed, Range
  <2>2. \A h, k \in 1 .. n : chain[h] = chain[k] => h = k
    BY <1>3 DEF LedgerInv, IsInjective
  <2> QED
    BY <1>3, <1>4, <2>1, <2>2, SMTT(30) DEF IsInjective
<1>9. indexed' \in 0 .. Len(chain')
  BY <1>2, <1>3, SMTT(30) DEF LedgerInv
<1>10. t.inputs \subseteq OwnCells(Len(chain))
  BY DEF LedgerInv
<1>11. OwnCells(Len(chain))' = (Funding \cup UNION {Change(u) : u \in Committed'})
                                \ UNION {u.inputs : u \in Committed'}
  <2>1. {chain'[h] : h \in 1 .. Len(chain')} = Committed'
    BY <1>3 DEF Committed, Range
  <2> QED
    BY <2>1 DEF OwnCells
<1>12. ASSUME NEW u \in pool' PROVE u.inputs \subseteq OwnCells(Len(chain))'
  <2>1. u \in pool /\ u.inputs \cap t.inputs = {} /\ u.inputs \subseteq OwnCells(Len(chain))
    BY DEF LedgerInv
  <2> QED
    BY <1>6, <1>11, <2>1, TipCells, SMTT(30)
<1>13. \A u \in Committed : t.inputs \cap u.inputs = {}
  BY <1>10, TipCells, SMTT(30)
<1>14. \A u, v \in Committed' : u # v => u.inputs \cap v.inputs = {}
  <2>1. \A u, v \in Committed : u # v => u.inputs \cap v.inputs = {}
    BY DEF LedgerInv
  <2> QED
    BY <1>6, <1>13, <2>1
<1>15. \A u \in Committed' \cup pool' : u # NoTx /\ u.change \in Nat
  BY <1>6 DEF LedgerInv
<1>16. pool' \cap Committed' = {} /\ \A u, v \in pool' : u # v => u.inputs \cap v.inputs = {}
  BY <1>6 DEF LedgerInv
<1> QED
  BY <1>6, <1>7, <1>8, <1>9, <1>12, <1>14, <1>15, <1>16 DEF LedgerInv

(* Blocks that are added leave the age of the earlier cells alone.         *)
LEMMA CommitBorn ==
    ASSUME LedgerInv, NEW t \in pool, chain' = Append(chain, t)
    PROVE  \A c : (c.of = NoTx \/ c.of \in Committed) => Born(c)' = Born(c)
<1> SUFFICES ASSUME NEW c, c.of = NoTx \/ c.of \in Committed PROVE Born(c)' = Born(c)
  OBVIOUS
<1>1. CASE c.of = NoTx
  BY <1>1 DEF Born
<1>2. CASE c.of # NoTx
  <2>1. PICK b : b = Born(c)
    OBVIOUS
  <2>2. b \in DOMAIN chain /\ chain[b] = c.of
    BY <1>2, <2>1, BornType
  <2>3. PICK n \in Nat : n = Len(chain)
    BY SMTT(30) DEF LedgerInv
  <2>4. /\ DOMAIN chain = 1 .. n /\ DOMAIN chain' = 1 .. n + 1
        /\ \A h \in 1 .. n : chain'[h] = chain[h]
        /\ chain'[n + 1] = t
    BY <2>3, SMTT(30) DEF LedgerInv
  <2>5. c.of # t
    BY <1>2 DEF LedgerInv
  <2>6. b \in DOMAIN chain' /\ chain'[b] = c.of
    BY <2>2, <2>4, SMTT(30)
  <2>7. \A h \in DOMAIN chain' : chain'[h] = c.of => h = b
    <3>1. \A h \in 1 .. n + 1 : h \in 1 .. n \/ h = n + 1
      BY SMTT(30)
    <3>2. \A h \in 1 .. n : chain[h] = chain[b] => h = b
      BY <2>2, <2>4 DEF LedgerInv, IsInjective
    <3> QED
      BY <2>2, <2>4, <2>5, <3>1, <3>2
  <2>8. Born(c)' = CHOOSE h \in DOMAIN chain' : chain'[h] = c.of
    BY <1>2 DEF Born
  <2> QED
    BY <2>1, <2>6, <2>7, <2>8
<1> QED
  BY <1>1, <1>2

(* The commands rest while the ledger moves.                               *)
LEMMA CommandsRest ==
    ASSUME CommandInv, UNCHANGED <<opts, pc, cells, tx>>, Committed \subseteq Committed',
           \A c : (c.of = NoTx \/ c.of \in Committed) => Born(c)' = Born(c)
    PROVE  CommandInv'
<1> SUFFICES ASSUME NEW p \in Commands
             PROVE  /\ opts'[p].amount \in Nat
                    /\ IsFiniteSet(cells'[p])
                    /\ \A c \in cells'[p] : c.capacity \in Nat /\ (c.of = NoTx \/ c.of \in Committed')
                    /\ pc'[p] \in {"getCells", "build"} => tx'[p] = NoTx
                    /\ pc'[p] = "send" => tx'[p] # NoTx
                    /\ tx'[p] # NoTx => /\ tx'[p].change \in Nat /\ cells'[p] # {}
                                        /\ \A c \in cells'[p] : Foremost(c, cells[p])' => c \in tx'[p].inputs
  BY DEF CommandInv
<1>1. \A c \in cells[p] : c.of = NoTx \/ c.of \in Committed
  BY DEF CommandInv
<1>2. \A c, d \in cells[p] : Before(c, d)' <=> Before(c, d)
  BY <1>1, SMTT(30) DEF Before
<1>3. \A c \in cells[p] : Foremost(c, cells[p])' <=> Foremost(c, cells[p])
  BY <1>2 DEF Foremost
<1> QED
  BY <1>3 DEF CommandInv

(* One command moves on and the ledger stays.                              *)
LEMMA OneCommand ==
    ASSUME CommandInv, NEW p \in Commands, UNCHANGED <<chain, opts>>,
           DOMAIN pc' = Commands, DOMAIN cells' = Commands, DOMAIN tx' = Commands,
           \A q \in Commands \ {p} : pc'[q] = pc[q] /\ cells'[q] = cells[q] /\ tx'[q] = tx[q],
           IsFiniteSet(cells'[p]),
           \A c \in cells'[p] : c.capacity \in Nat /\ (c.of = NoTx \/ c.of \in Committed),
           pc'[p] \in {"getCells", "build"} => tx'[p] = NoTx,
           pc'[p] = "send" => tx'[p] # NoTx,
           tx'[p] # NoTx => /\ tx'[p].change \in Nat /\ cells'[p] # {}
                            /\ \A c \in cells'[p] : Foremost(c, cells'[p]) => c \in tx'[p].inputs
    PROVE  CommandInv'
<1>1. Committed' = Committed /\ \A c, S : Foremost(c, S)' <=> Foremost(c, S)
  BY SMTT(30) DEF Committed, Foremost, Before, Born
<1>2. ASSUME NEW q \in Commands
      PROVE  /\ opts'[q].amount \in Nat
             /\ IsFiniteSet(cells'[q])
             /\ \A c \in cells'[q] : c.capacity \in Nat /\ (c.of = NoTx \/ c.of \in Committed')
             /\ pc'[q] \in {"getCells", "build"} => tx'[q] = NoTx
             /\ pc'[q] = "send" => tx'[q] # NoTx
             /\ tx'[q] # NoTx => /\ tx'[q].change \in Nat /\ cells'[q] # {}
                                 /\ \A c \in cells'[q] : Foremost(c, cells'[q]) => c \in tx'[q].inputs
  <2>1. CASE q = p
    BY <1>1, <2>1 DEF CommandInv
  <2>2. CASE q # p
    BY <1>1, <2>2 DEF CommandInv
  <2> QED
    BY <2>1, <2>2
<1>3. \A q \in Commands : \A c \in cells'[q] : Foremost(c, cells[q])' <=> Foremost(c, cells'[q])
  BY SMTT(30) DEF Foremost, Before, Born
<1> QED
  BY <1>2, <1>3 DEF CommandInv

(* The first step of a command, its end and the steps between.             *)
LEMMA GetCellsStep ==
    ASSUME LedgerInv, CommandInv, NEW p \in Commands, GetCells(p)
    PROVE  CommandInv'
<1>1. /\ pc[p] = "getCells" /\ cells' = [cells EXCEPT ![p] = OwnCells(indexed)]
      /\ pc' = [pc EXCEPT ![p] = "build"] /\ UNCHANGED <<chain, opts, tx>>
  BY DEF GetCells, Goto, node
<1>2. DOMAIN pc = Commands /\ DOMAIN cells = Commands /\ DOMAIN tx = Commands /\ tx[p] = NoTx
  BY <1>1 DEF CommandInv
<1>3. cells'[p] = OwnCells(indexed) /\ pc'[p] = "build" /\ tx'[p] = NoTx
  BY <1>1, <1>2
<1>4. DOMAIN pc' = Commands /\ DOMAIN cells' = Commands /\ DOMAIN tx' = Commands
      /\ \A q \in Commands \ {p} : pc'[q] = pc[q] /\ cells'[q] = cells[q] /\ tx'[q] = tx[q]
  BY <1>1, <1>2
<1>5. /\ IsFiniteSet(cells'[p])
      /\ \A c \in cells'[p] : c.capacity \in Nat /\ (c.of = NoTx \/ c.of \in Committed)
  BY <1>3, ShownCells
<1> QED
  BY <1>1, <1>3, <1>4, <1>5, OneCommand

(* The transaction is built from the cells that were read.                 *)
LEMMA BuildStep ==
    ASSUME CommandInv, NEW p \in Commands, Build(p)
    PROVE  CommandInv'
<1>1. /\ pc[p] = "build"
      /\ tx' = [tx EXCEPT ![p] = buildTransferTransaction(cells[p], opts[p].amount)]
      /\ \E w \in {"done", "send"} : pc' = [pc EXCEPT ![p] = w] /\ (w = "send" => tx'[p] # NoTx)
      /\ UNCHANGED <<chain, opts, cells>>
  BY DEF Build, Goto, Finish, node
<1>2. /\ DOMAIN pc = Commands /\ DOMAIN cells = Commands /\ DOMAIN tx = Commands
      /\ opts[p].amount \in Nat /\ IsFiniteSet(cells[p])
      /\ \A c \in cells[p] : c.capacity \in Nat /\ (c.of = NoTx \/ c.of \in Committed)
  BY DEF CommandInv
<1>3. tx'[p] = buildTransferTransaction(cells[p], opts[p].amount)
      /\ pc'[p] \in {"done", "send"} /\ (pc'[p] = "send" => tx'[p] # NoTx)
  BY <1>1, <1>2
<1>4. DOMAIN pc' = Commands /\ DOMAIN cells' = Commands /\ DOMAIN tx' = Commands
      /\ \A q \in Commands \ {p} : pc'[q] = pc[q] /\ cells'[q] = cells[q] /\ tx'[q] = tx[q]
  BY <1>1, <1>2
<1>5. ASSUME tx'[p] # NoTx
      PROVE  /\ tx'[p].change \in Nat /\ cells[p] # {}
             /\ \A c \in cells[p] : Foremost(c, cells[p]) => c \in tx'[p].inputs
  <2>1. PICK t : t = tx'[p]
    OBVIOUS
  <2>2. t = buildTransferTransaction(cells[p], opts[p].amount) /\ t # NoTx
    BY <1>3, <1>5, <2>1
  <2>3. t.change \in Nat /\ cells[p] # {} /\ \A c \in cells[p] : Foremost(c, cells[p]) => c \in t.inputs
    BY <1>2, <2>2, BuildsFromTheFirst, SMTT(30)
  <2> QED
    BY <2>1, <2>3
<1>6. cells'[p] = cells[p]
  BY <1>1
<1> QED
  BY <1>1, <1>2, <1>3, <1>4, <1>5, <1>6, OneCommand

(* From then on the command keeps its cells and its transaction.           *)
LEMMA LaterStep ==
    ASSUME CommandInv, NEW p \in Commands,
           Send(p) \/ Reply(p) \/ Confirm(p) \/ RequestFails(p)
    PROVE  CommandInv'
<1>1. \E w \in {"reply", "wait", "done"} : pc' = [pc EXCEPT ![p] = w]
  BY DEF Send, Reply, Confirm, RequestFails, Goto, Finish
<1>2. UNCHANGED <<chain, opts, cells, tx>>
  BY DEF Send, Reply, Confirm, RequestFails, node
<1>3. DOMAIN pc = Commands /\ DOMAIN cells = Commands /\ DOMAIN tx = Commands
  BY DEF CommandInv
<1>4. pc'[p] \in {"reply", "wait", "done"}
  BY <1>1, <1>3
<1>5. DOMAIN pc' = Commands /\ DOMAIN cells' = Commands /\ DOMAIN tx' = Commands
      /\ \A q \in Commands \ {p} : pc'[q] = pc[q] /\ cells'[q] = cells[q] /\ tx'[q] = tx[q]
  BY <1>1, <1>2, <1>3
<1>6. cells'[p] = cells[p] /\ tx'[p] = tx[p]
  BY <1>2
<1>7. /\ IsFiniteSet(cells'[p])
      /\ \A c \in cells'[p] : c.capacity \in Nat /\ (c.of = NoTx \/ c.of \in Committed)
      /\ tx'[p] # NoTx => /\ tx'[p].change \in Nat /\ cells'[p] # {}
                          /\ \A c \in cells'[p] : Foremost(c, cells'[p]) => c \in tx'[p].inputs
  BY <1>6 DEF CommandInv
<1>8. pc'[p] \notin {"getCells", "build", "send"}
  BY <1>4
<1> QED
  BY <1>2, <1>5, <1>7, <1>8, OneCommand

(* The pool takes a transaction only if nothing else spends its inputs.    *)
LEMMA SendLedger ==
    ASSUME LedgerInv, CommandInv, NEW p \in Commands, Send(p)
    PROVE  LedgerInv'
<1>1. pc[p] = "send" /\ chain' = chain /\ indexed' = indexed
  BY DEF Send
<1>2. Committed' = Committed /\ OwnCells(Len(chain))' = OwnCells(Len(chain))
  BY <1>1, SMTT(30) DEF Committed, OwnCells
<1>3. CASE pool' = pool
  BY <1>1, <1>2, <1>3 DEF LedgerInv
<1>4. CASE pool' # pool
  <2>1. PICK t : t = tx[p]
    OBVIOUS
  <2>2. Acceptable(t) /\ pool' = pool \cup {t}
    BY <1>4, <2>1 DEF Send
  <2>3. t # NoTx /\ t.change \in Nat
    BY <1>1, <2>1 DEF CommandInv
  <2>4. /\ t \notin Committed /\ t.inputs \subseteq OwnCells(Len(chain))
        /\ \A u \in pool : u.inputs \cap t.inputs = {}
    BY <2>2 DEF Acceptable
  <2>5. \A u, v \in pool' : u # v => u.inputs \cap v.inputs = {}
    BY <2>2, <2>4 DEF LedgerInv
  <2> QED
    BY <1>1, <1>2, <2>2, <2>3, <2>4, <2>5, SMTT(30) DEF LedgerInv
<1> QED
  BY <1>3, <1>4

(* The ledger rests, or only lets go of a pooled transaction or is looked  *)
(* at by the indexer.                                                      *)
LEMMA LedgerRests ==
    ASSUME LedgerInv, chain' = chain, pool' \subseteq pool, indexed' \in 0 .. Len(chain)
    PROVE  LedgerInv' /\ Committed' = Committed
<1>1. Committed' = Committed /\ OwnCells(Len(chain))' = OwnCells(Len(chain))
  BY SMTT(30) DEF Committed, OwnCells
<1> QED
  BY <1>1 DEF LedgerInv

(* Every step of the commands, the node and the indexer keeps both.        *)
LEMMA NetworkStep ==
    LedgerInv /\ CommandInv /\ [Next]_vars => LedgerInv' /\ CommandInv'
<1> SUFFICES ASSUME LedgerInv, CommandInv, [Next]_vars
             PROVE  LedgerInv' /\ CommandInv'
  OBVIOUS
<1>0. indexed \in 0 .. Len(chain) /\ Len(chain) \in Nat
  BY SMTT(30) DEF LedgerInv
<1>1. CASE Commit
  <2>1. PICK t \in pool : chain' = Append(chain, t) /\ pool' = pool \ {t}
    BY <1>1 DEF Commit
  <2>2. UNCHANGED <<indexed, opts, pc, cells, tx>>
    BY <1>1 DEF Commit
  <2>3. LedgerInv' /\ Committed \subseteq Committed'
    BY <2>1, <2>2, CommitLedger
  <2>4. \A c : (c.of = NoTx \/ c.of \in Committed) => Born(c)' = Born(c)
    BY <2>1, CommitBorn
  <2> QED
    BY <2>2, <2>3, <2>4, CommandsRest
<1>2. ASSUME UNCHANGED <<chain, opts, pc, cells, tx>>, pool' \subseteq pool, indexed' \in 0 .. Len(chain)
      PROVE  LedgerInv' /\ CommandInv'
  <2>1. LedgerInv' /\ Committed \subseteq Committed'
    BY <1>2, LedgerRests
  <2>2. \A c : Born(c)' = Born(c)
    BY <1>2, SMTT(30) DEF Born
  <2> QED
    BY <1>2, <2>1, <2>2, CommandsRest
<1>3. CASE Drop \/ Index \/ RunBalance \/ PollBalance \/ UNCHANGED vars
  <2>1. UNCHANGED <<chain, opts, pc, cells, tx>> /\ pool' \subseteq pool
    BY <1>3 DEF Drop, Index, RunBalance, PollBalance, vars, node
  <2>2. indexed' \in 0 .. Len(chain)
    <3>1. indexed' = indexed \/ (indexed < Len(chain) /\ indexed' = indexed + 1)
      BY <1>3 DEF Drop, Index, RunBalance, PollBalance, vars
    <3> QED
      BY <1>0, <3>1, SMTT(30)
  <2> QED
    BY <1>2, <2>1, <2>2
<1>4. CASE \E p \in Commands : Transfer(p)
  <2>1. PICK p \in Commands : Transfer(p)
    BY <1>4
  <2>2. CommandInv'
    BY <2>1, GetCellsStep, BuildStep, LaterStep DEF Transfer
  <2>3. CASE Send(p)
    BY <2>2, <2>3, SendLedger
  <2>4. CASE ~Send(p)
    <3>1. UNCHANGED <<chain, pool, indexed>>
      BY <2>1, <2>4 DEF Transfer, GetCells, Build, Reply, Confirm, RequestFails, node
    <3> QED
      BY <1>0, <2>2, <3>1, LedgerRests
  <2> QED
    BY <2>3, <2>4
<1> QED
  BY <1>1, <1>3, <1>4 DEF Next

(* At the start nothing is spent and nothing built.                        *)
LEMMA NetworkStart == Init => LedgerInv /\ CommandInv
<1> SUFFICES ASSUME Init PROVE LedgerInv /\ CommandInv
  OBVIOUS
<1>1. Committed = {} /\ chain = <<>> /\ pool = {} /\ indexed = 0
  BY SMTT(30) DEF Init, Committed, Range
<1>2. LedgerInv
  BY <1>1, SMTT(30) DEF LedgerInv, IsInjective
<1>3. CommandInv
  BY CapacityAssumption, FS_EmptySet DEF Init, CommandInv
<1> QED
  BY <1>2, <1>3

(* Of the transfers built from the same answer of the indexer at most one  *)
(* is paid, for any number of commands, amounts and cells: they all spend  *)
(* the foremost cell.                                                      *)
THEOREM OneViewOnePayment == Spec => []OneViewPaysOnce
<1>1. LedgerInv /\ CommandInv => OneViewPaysOnce
  <2> SUFFICES ASSUME LedgerInv, CommandInv, NEW p \in Commands, NEW q \in Commands,
                      cells[p] = cells[q], tx[p] \in Committed, tx[q] \in Committed
               PROVE  tx[p] = tx[q]
    BY DEF OneViewPaysOnce
  <2>1. tx[p] # NoTx /\ tx[q] # NoTx
    BY DEF LedgerInv
  <2>2. /\ cells[p] # {}
        /\ \A c \in cells[p] : c.capacity \in Nat /\ (c.of = NoTx \/ c.of \in Committed)
    BY <2>1 DEF CommandInv
  <2>3. \A c \in cells[p] : Born(c) \in Nat
    BY <2>2, BornType
  <2>4. PICK c \in cells[p] : Foremost(c, cells[p])
    BY <2>2, <2>3, FirstExists
  <2>5. c \in tx[p].inputs /\ c \in tx[q].inputs
    BY <2>1, <2>4 DEF CommandInv
  <2> QED
    BY <2>5 DEF LedgerInv
<1> QED
  BY <1>1, NetworkStart, NetworkStep, PTL DEF Spec

-----------------------------------------------------------------------------
(* The calls into the wasm module: no block of its memory outlives its     *)
(* call, but for the one case NoBlockIsLeft names, and every call works    *)
(* on the bytes it was given, or through a view on those it finds.         *)

Calls == [phase : {"await", "run", "unwind", "done"}, kind : Kinds, form : ByteLike,
          given : Contents, copied : SUBSET Contents, outs : Nat, ins : Nat,
          outcome : {"none", "returns", "returns false", "throws"},
          cause : {"none", "length", "load", "alloc", "status"}]

TypeOK ==
    /\ buffer \in [Callers -> Contents]
    /\ call \in [Callers -> {NoCall} \cup Calls]

(* Outputs come before inputs, and the finally clauses run only once all   *)
(* outputs are there.                                                      *)
BlockOrder ==
    \A c \in Callers :
        /\ call[c].phase \in {"await", "run"} =>
              call[c].outs <= Len(OutsOf(c)) /\ call[c].ins <= Len(InsOf(c))
        /\ call[c].phase \in {"await", "run"} /\ call[c].outs < Len(OutsOf(c)) => call[c].ins = 0
        /\ call[c].phase = "unwind" =>
              call[c].outs = Len(OutsOf(c)) /\ call[c].ins <= Len(InsOf(c))

(* The blocks a call under way has taken and not given back.               *)
Held(c) ==
    {<<c, OutsOf(c)[i]>> : i \in 1..call[c].outs} \cup {<<c, InsOf(c)[i]>> : i \in 1..call[c].ins}

(* Every block is held by the call it was allocated for, or is the one     *)
(* that a failed second allocation leaves behind.                          *)
LiveIsHeld ==
    \A b \in live :
        \E c \in Callers :
            \/ call[c].phase \in {"run", "unwind"} /\ b \in Held(c)
            \/ call[c].phase = "done" /\ call[c].cause = "alloc" /\ b = <<c, "publicKey">>

IInv == TypeOK /\ BlockOrder /\ LiveIsHeld

-----------------------------------------------------------------------------
(* The lists of blocks are finite, and only generateKeypair has a second   *)
(* output, after the public key.                                           *)
LEMMA Lengths ==
    \A k \in Kinds :
        /\ Len(Outs[k]) \in Nat /\ Len(Ins[k]) \in Nat
        /\ \A i \in Nat : i > 0 /\ i < Len(Outs[k]) => i = 1 /\ Outs[k][i] = "publicKey"
<1>1. /\ Outs["generateKeypair"] = <<"publicKey", "secretKey">>
      /\ Outs["computeLockArgs"] = <<"output">>
      /\ Outs["ckbHash"] = <<"output">> /\ Outs["signTxHash"] = <<"output">>
      /\ Outs["verifySignature"] = <<>>
  BY DEF Outs
<1>2. /\ Ins["generateKeypair"] = <<"seed">> /\ Ins["computeLockArgs"] = <<"publicKeyIn">>
      /\ Ins["ckbHash"] = <<"data">>
      /\ Ins["signTxHash"] = <<"secretKeyIn", "message", "seed">>
      /\ Ins["verifySignature"] = <<"publicKeyIn", "message", "signature">>
  BY DEF Ins
<1>3. \A k \in Kinds : Len(Ins[k]) \in Nat
  BY <1>2, SMTT(30) DEF Kinds
<1>4. /\ Len(Outs["generateKeypair"]) = 2 /\ Outs["generateKeypair"][1] = "publicKey"
      /\ Len(Outs["computeLockArgs"]) = 1
      /\ Len(Outs["ckbHash"]) = 1 /\ Len(Outs["signTxHash"]) = 1
      /\ Len(Outs["verifySignature"]) = 0
  BY <1>1, SMTT(30)
<1>5. ASSUME NEW k \in Kinds
      PROVE  /\ Len(Outs[k]) \in Nat
             /\ \A i \in Nat : i > 0 /\ i < Len(Outs[k]) => i = 1 /\ Outs[k][i] = "publicKey"
  <2>1. CASE k = "generateKeypair"
    <3>1. Len(Outs[k]) = 2 /\ Outs[k][1] = "publicKey"
      BY <1>4, <2>1
    <3>2. \A i \in Nat : i > 0 /\ i < 2 => i = 1
      BY SMTT(30)
    <3> QED
      BY <3>1, <3>2, SMTT(30)
  <2>2. CASE k # "generateKeypair"
    <3>1. Len(Outs[k]) = 0 \/ Len(Outs[k]) = 1
      BY <1>4, <2>2 DEF Kinds
    <3>2. ASSUME NEW i \in Nat, i > 0, i < Len(Outs[k]) PROVE FALSE
      <4>1. CASE Len(Outs[k]) = 0
        BY <3>2, <4>1, SMTT(30)
      <4>2. CASE Len(Outs[k]) = 1
        BY <3>2, <4>2, SMTT(30)
      <4> QED
        BY <3>1, <4>1, <4>2
    <3> QED
      BY <3>1, <3>2, SMTT(30)
  <2> QED
    BY <2>1, <2>2
<1> QED
  BY <1>3, <1>5

(* A step of one call leaves the calls of others, and their blocks, alone. *)
LEMMA OthersKeepTheirs ==
    ASSUME NEW c \in Callers, NEW d \in Callers, d # c, NEW new,
           call' = [call EXCEPT ![c] = new]
    PROVE  call'[d] = call[d] /\ Held(d)' = Held(d)
<1>1. call'[d] = call[d]
  BY SMTT(30)
<1> QED
  BY <1>1 DEF Held, OutsOf, InsOf

(* No call is under way and no block is live when the module is loaded.    *)
LEMMA InitIInv == BridgeInit => IInv
  BY SMTT(30) DEF BridgeInit, IInv, TypeOK, BlockOrder, LiveIsHeld, NoCall

(* What a step of caller c has to establish.                               *)
LEMMA OneCallerMoves ==
    ASSUME IInv, NEW c \in Callers, NEW new \in Calls,
           call' = [call EXCEPT ![c] = new],
           buffer' = buffer,
           /\ new.phase \in {"await", "run"} =>
                new.outs <= Len(Outs[new.kind]) /\ new.ins <= Len(Ins[new.kind])
           /\ new.phase \in {"await", "run"} /\ new.outs < Len(Outs[new.kind]) => new.ins = 0
           /\ new.phase = "unwind" =>
                new.outs = Len(Outs[new.kind]) /\ new.ins <= Len(Ins[new.kind]),
           \A b \in live' :
              \/ b \in live
                 /\ ~(call[c].phase \in {"run", "unwind"} /\ b \in Held(c))
                 /\ ~(call[c].phase = "done" /\ b = <<c, "publicKey">>)
              \/ new.phase \in {"run", "unwind"} /\ b \in Held(c)'
              \/ new.phase = "done" /\ new.cause = "alloc" /\ b = <<c, "publicKey">>
    PROVE  IInv'
<1>1. call'[c] = new /\ \A d \in Callers : d # c => call'[d] = call[d]
  BY DEF IInv, TypeOK
<1>2. TypeOK'
  BY DEF IInv, TypeOK
<1>3. BlockOrder'
  <2> SUFFICES ASSUME NEW d \in Callers
               PROVE  /\ call'[d].phase \in {"await", "run"} =>
                            call'[d].outs <= Len(OutsOf(d)') /\ call'[d].ins <= Len(InsOf(d)')
                      /\ call'[d].phase \in {"await", "run"} /\ call'[d].outs < Len(OutsOf(d)')
                            => call'[d].ins = 0
                      /\ call'[d].phase = "unwind" =>
                            call'[d].outs = Len(OutsOf(d)') /\ call'[d].ins <= Len(InsOf(d)')
    BY DEF BlockOrder
  <2>1. CASE d = c
    BY <1>1, <2>1 DEF OutsOf, InsOf
  <2>2. CASE d # c
    BY <1>1, <2>2, SMTT(30) DEF IInv, BlockOrder, OutsOf, InsOf
  <2> QED
    BY <2>1, <2>2
<1>4. LiveIsHeld'
  <2> SUFFICES ASSUME NEW b \in live'
               PROVE  \E d \in Callers :
                        \/ call'[d].phase \in {"run", "unwind"} /\ b \in Held(d)'
                        \/ /\ call'[d].phase = "done" /\ call'[d].cause = "alloc"
                           /\ b = <<d, "publicKey">>
    BY DEF LiveIsHeld
  <2>1. CASE /\ b \in live
             /\ ~(call[c].phase \in {"run", "unwind"} /\ b \in Held(c))
             /\ ~(call[c].phase = "done" /\ b = <<c, "publicKey">>)
    <3>1. PICK d \in Callers :
             \/ call[d].phase \in {"run", "unwind"} /\ b \in Held(d)
             \/ call[d].phase = "done" /\ call[d].cause = "alloc" /\ b = <<d, "publicKey">>
      BY <2>1 DEF IInv, LiveIsHeld
    <3>2. d # c
      BY <2>1, <3>1
    <3>3. call'[d] = call[d] /\ Held(d)' = Held(d)
      BY <3>2, OthersKeepTheirs
    <3> QED
      BY <3>1, <3>3
  <2>2. CASE \/ new.phase \in {"run", "unwind"} /\ b \in Held(c)'
             \/ new.phase = "done" /\ new.cause = "alloc" /\ b = <<c, "publicKey">>
    BY <1>1, <2>2
  <2> QED
    BY <2>1, <2>2
<1> QED
  BY <1>2, <1>3, <1>4 DEF IInv

(* The end of a call, from wherever its blocks stand: they stay held until *)
(* the finally clauses have run.                                           *)
LEMMA UnwindStarts ==
    ASSUME IInv, NEW c \in Callers, call[c] \in Calls, buffer' = buffer, live' = live,
           call[c].phase = "run", call[c].outs = Len(OutsOf(c)), call[c].ins <= Len(InsOf(c)),
           \/ End(c, "unwind", "returns", "none") \/ End(c, "unwind", "returns false", "none")
           \/ End(c, "unwind", "throws", "status") \/ End(c, "unwind", "throws", "alloc")
    PROVE  IInv'
<1>1. PICK how \in {"returns", "returns false", "throws"}, cause \in {"none", "status", "alloc"} :
         End(c, "unwind", how, cause)
  OBVIOUS
<1> DEFINE new == [call[c] EXCEPT !.phase = "unwind", !.outcome = how, !.cause = cause]
<1>2. call' = [call EXCEPT ![c] = new]
  BY <1>1 DEF End
<1>3. /\ new \in Calls /\ new.kind = call[c].kind /\ new.outs = call[c].outs
      /\ new.ins = call[c].ins /\ new.phase = "unwind"
  BY DEF Calls
<1> HIDE DEF new
<1>4. call'[c] = new
  BY <1>2 DEF IInv, TypeOK
<1>5. Held(c)' = Held(c)
  <2>1. OutsOf(c)' = OutsOf(c) /\ InsOf(c)' = InsOf(c)
    BY <1>3, <1>4 DEF OutsOf, InsOf
  <2> QED
    BY <1>3, <1>4, <2>1 DEF Held
<1>6. new.outs = Len(Outs[new.kind]) /\ new.ins <= Len(Ins[new.kind])
  BY <1>3 DEF OutsOf, InsOf
<1>7. \A b \in live' : (b \in live /\ ~(b \in Held(c))) \/ b \in Held(c)'
  BY <1>5
<1> QED
  BY <1>2, <1>3, <1>6, <1>7, OneCallerMoves

(* An input shows what its call was given or what the buffer holds.        *)
LEMMA ShownIsContent ==
    ASSUME TypeOK, NEW c \in Callers, call[c] \in Calls
    PROVE  toBytes(c) \in Contents /\ Shown(c) \subseteq {toBytes(c)}
  BY DEF TypeOK, Calls, toBytes, Shown

(* Every step of every caller keeps the invariant.                         *)
LEMMA NextIInv == IInv /\ [BridgeNext]_bridgeVars => IInv'
<1> SUFFICES ASSUME IInv, [BridgeNext]_bridgeVars PROVE IInv'
  OBVIOUS
<1>1. CASE UNCHANGED <<buffer, call, live>>
  BY <1>1, SMTT(30) DEF IInv, TypeOK, BlockOrder, LiveIsHeld, Held, OutsOf, InsOf
<1>2. ASSUME NEW c \in Callers, Reuse(c) PROVE IInv'
  BY <1>2, SMTT(30) DEF Reuse, IInv, TypeOK, BlockOrder, LiveIsHeld, Held, OutsOf, InsOf
<1>3. ASSUME NEW c \in Callers, Call(c) PROVE IInv'
  <2>1. PICK kind \in Kinds, form \in ByteLike :
          \/ call' = [call EXCEPT ![c] = Begun(kind, form, buffer[c])]
          \/ call' = [call EXCEPT ![c] = [Begun(kind, form, buffer[c]) EXCEPT
                         !.phase = "done", !.outcome = "throws", !.cause = "length"]]
    BY <1>3 DEF Call
  <2>2. PICK new \in Calls :
           /\ call' = [call EXCEPT ![c] = new]
           /\ new.phase \in {"await", "done"} /\ new.outs = 0 /\ new.ins = 0
    <3> DEFINE begun == Begun(kind, form, buffer[c])
               short == [begun EXCEPT !.phase = "done", !.outcome = "throws", !.cause = "length"]
    <3>1. buffer[c] \in Contents
      BY DEF IInv, TypeOK
    <3>2. begun \in Calls /\ begun.phase = "await" /\ begun.outs = 0 /\ begun.ins = 0
      BY <3>1 DEF Begun, Calls
    <3>3. short \in Calls /\ short.phase = "done" /\ short.outs = 0 /\ short.ins = 0
      BY <3>1 DEF Begun, Calls
    <3>4. call' = [call EXCEPT ![c] = begun] \/ call' = [call EXCEPT ![c] = short]
      BY <2>1
    <3> HIDE DEF begun, short
    <3> QED
      BY <3>2, <3>3, <3>4
  <2>3. Len(Outs[new.kind]) \in Nat /\ Len(Ins[new.kind]) \in Nat
    BY <2>2, Lengths DEF Calls
  <2>4. call[c].phase = "idle" /\ live' = live /\ buffer' = buffer
    BY <1>3, SMTT(30) DEF Call, NoCall
  <2>5. \A b \in live' :
           /\ b \in live
           /\ ~(call[c].phase \in {"run", "unwind"} /\ b \in Held(c))
           /\ ~(call[c].phase = "done" /\ b = <<c, "publicKey">>)
    BY <2>4
  <2>6. /\ new.outs <= Len(Outs[new.kind]) /\ new.ins <= Len(Ins[new.kind]) /\ new.ins = 0
        /\ new.phase # "unwind"
    BY <2>2, <2>3, SMTT(30)
  <2> QED
    BY <2>2, <2>4, <2>5, <2>6, OneCallerMoves
<1>4. ASSUME NEW c \in Callers, Step(c) PROVE IInv'
  <2>1. call[c] \in Calls /\ buffer' = buffer
    <3>1. call[c].phase # "idle" /\ buffer' = buffer
      BY <1>4 DEF Step, Resume, Rejected, AllocOutput, withInput, TakesInput, Export,
         DeallocInput, DeallocOutputs
    <3> QED
      BY <3>1, SMTT(30) DEF IInv, TypeOK, NoCall
  <2>2. /\ Len(OutsOf(c)) \in Nat /\ Len(InsOf(c)) \in Nat
        /\ \A i \in Nat : i > 0 /\ i < Len(OutsOf(c)) => i = 1 /\ OutsOf(c)[i] = "publicKey"
    BY <2>1, Lengths DEF Calls, OutsOf, InsOf
  <2>3. CASE Resume(c)
    <3> DEFINE new == [call[c] EXCEPT !.phase = "run"]
    <3>1. call' = [call EXCEPT ![c] = new] /\ live' = live /\ call[c].phase = "await"
      BY <2>3 DEF Resume
    <3>2. new \in Calls /\ new.kind = call[c].kind /\ new.outs = call[c].outs
          /\ new.ins = call[c].ins /\ new.phase = "run"
      BY <2>1 DEF Calls
    <3> HIDE DEF new
    <3> QED
      BY <2>1, <3>1, <3>2, OneCallerMoves DEF IInv, BlockOrder, OutsOf, InsOf
  <2>4. CASE Rejected(c)
    <3> DEFINE new == [call[c] EXCEPT !.phase = "done", !.outcome = "throws", !.cause = "load"]
    <3>1. call' = [call EXCEPT ![c] = new] /\ live' = live /\ call[c].phase = "await"
      BY <2>4 DEF Rejected, End
    <3>2. new \in Calls /\ new.phase = "done"
      BY <2>1 DEF Calls
    <3> HIDE DEF new
    <3> QED
      BY <2>1, <3>1, <3>2, OneCallerMoves
  <2>5. CASE AllocOutput(c)
    <3>1. /\ call[c].phase = "run" /\ call[c].outs < Len(OutsOf(c))
          /\ call[c].outs \in Nat /\ call[c].ins = 0
      BY <2>1, <2>5 DEF AllocOutput, IInv, BlockOrder, Calls
    <3>2. ASSUME live' = live \cup {<<c, OutsOf(c)[call[c].outs + 1]>>},
                 call' = [call EXCEPT ![c].outs = @ + 1]
          PROVE  IInv'
      <4>0. PICK n \in Nat : n = call[c].outs + 1
        BY <3>1, SMTT(30)
      <4> DEFINE new == [call[c] EXCEPT !.outs = n]
      <4>1. call' = [call EXCEPT ![c] = new]
        BY <3>2, <4>0
      <4>2. /\ new \in Calls /\ new.kind = call[c].kind /\ new.outs = n
            /\ new.ins = 0 /\ new.phase = "run"
        BY <2>1, <3>1 DEF Calls
      <4> HIDE DEF new
      <4>3. call'[c] = new
        BY <4>1 DEF IInv, TypeOK
      <4>4. Held(c)' = {<<c, OutsOf(c)[i]>> : i \in 1..call[c].outs + 1}
        BY <4>0, <4>2, <4>3, SMTT(30) DEF Held, OutsOf, InsOf
      <4>5. Held(c) \cup {<<c, OutsOf(c)[call[c].outs + 1]>>} \subseteq Held(c)'
        BY <3>1, <4>4, SMTT(30) DEF Held
      <4>6. \A b \in live' :
               \/ b \in live /\ ~(b \in Held(c))
               \/ b \in Held(c)'
        BY <3>2, <4>5
      <4>7. new.outs <= Len(Outs[new.kind]) /\ new.ins <= Len(Ins[new.kind])
        BY <2>2, <3>1, <4>0, <4>2, SMTT(30) DEF OutsOf, InsOf
      <4> QED
        BY <2>1, <3>1, <4>1, <4>2, <4>6, <4>7, OneCallerMoves
    <3>3. ASSUME End(c, "done", "throws", "alloc"), live' = live PROVE IInv'
      <4> DEFINE new == [call[c] EXCEPT !.phase = "done", !.outcome = "throws", !.cause = "alloc"]
      <4>1. call' = [call EXCEPT ![c] = new]
        BY <3>3 DEF End
      <4>2. new \in Calls /\ new.phase = "done" /\ new.cause = "alloc"
        BY <2>1 DEF Calls
      <4> HIDE DEF new
      <4>3. \A b \in Held(c) : b = <<c, "publicKey">>
        BY <2>2, <3>1, SMTT(30) DEF Held
      <4>4. \A b \in live' : (b \in live /\ ~(b \in Held(c))) \/ b = <<c, "publicKey">>
        BY <3>3, <4>3
      <4> QED
        BY <2>1, <3>1, <4>1, <4>2, <4>4, OneCallerMoves
    <3> QED
      BY <2>5, <3>2, <3>3 DEF AllocOutput
  <2>6. CASE withInput(c)
    <3>1. /\ call[c].phase = "run" /\ call[c].outs = Len(OutsOf(c))
          /\ call[c].ins < Len(InsOf(c)) /\ call[c].ins <= Len(InsOf(c))
          /\ call[c].ins \in Nat
      <4>1. /\ call[c].phase = "run" /\ call[c].outs = Len(OutsOf(c))
            /\ call[c].ins < Len(InsOf(c))
        BY <2>6 DEF withInput, TakesInput
      <4>2. call[c].ins \in Nat
        BY <2>1 DEF Calls
      <4> QED
        BY <2>2, <4>1, <4>2, SMTT(30)
    <3>2. ASSUME live' = live \cup {NextInput(c)},
                 call' = [call EXCEPT ![c].ins = @ + 1, ![c].copied = @ \cup Shown(c)]
          PROVE  IInv'
      <4>0. PICK n \in Nat : n = call[c].ins + 1
        BY <3>1, SMTT(30)
      <4> DEFINE seen == call[c].copied \cup Shown(c)
                 new == [call[c] EXCEPT !.ins = n, !.copied = seen]
      <4>1. call' = [call EXCEPT ![c] = new]
        BY <3>2, <4>0, <2>1 DEF IInv, TypeOK
      <4>13. seen \in SUBSET Contents
        BY <2>1, ShownIsContent DEF Calls, IInv
      <4> HIDE DEF seen
      <4>2. /\ new \in Calls /\ new.kind = call[c].kind /\ new.outs = call[c].outs
            /\ new.ins = n /\ new.phase = "run"
        BY <2>1, <3>1, <4>13 DEF Calls
      <4> HIDE DEF new
      <4>3. call'[c] = new
        BY <4>1 DEF IInv, TypeOK
      <4>4. Held(c)' = {<<c, OutsOf(c)[i]>> : i \in 1..call[c].outs}
                       \cup {<<c, InsOf(c)[i]>> : i \in 1..call[c].ins + 1}
        BY <4>0, <4>2, <4>3 DEF Held, OutsOf, InsOf
      <4>5. Held(c) \cup {NextInput(c)} \subseteq Held(c)'
        <5>1. 1..call[c].ins \subseteq 1..call[c].ins + 1 /\ call[c].ins + 1 \in 1..call[c].ins + 1
          BY <3>1, SMTT(30)
        <5> QED
          BY <4>4, <5>1 DEF Held, NextInput
      <4>6. \A b \in live' :
               \/ b \in live /\ ~(b \in Held(c))
               \/ b \in Held(c)'
        BY <3>2, <4>5
      <4>7. OutsOf(c) = Outs[new.kind] /\ InsOf(c) = Ins[new.kind]
        BY <4>2 DEF OutsOf, InsOf
      <4>8. new.outs = Len(Outs[new.kind]) /\ Len(Outs[new.kind]) \in Nat
        BY <2>2, <3>1, <4>2, <4>7
      <4>9. new.ins <= Len(Ins[new.kind])
        <5>1. n <= Len(InsOf(c))
          BY <2>2, <3>1, <4>0, SMTT(30)
        <5> QED
          BY <5>1, <4>2, <4>7
      <4>10. ~(new.outs < Len(Outs[new.kind])) /\ new.outs <= Len(Outs[new.kind])
        BY <4>8, SMTT(30)
      <4>11. /\ new.phase \in {"await", "run"} =>
                   new.outs <= Len(Outs[new.kind]) /\ new.ins <= Len(Ins[new.kind])
             /\ new.phase \in {"await", "run"} /\ new.outs < Len(Outs[new.kind]) => new.ins = 0
             /\ new.phase = "unwind" =>
                   new.outs = Len(Outs[new.kind]) /\ new.ins <= Len(Ins[new.kind])
        BY <4>2, <4>9, <4>10
      <4>12. \A b \in live' :
                \/ b \in live
                   /\ ~(call[c].phase \in {"run", "unwind"} /\ b \in Held(c))
                   /\ ~(call[c].phase = "done" /\ b = <<c, "publicKey">>)
                \/ new.phase \in {"run", "unwind"} /\ b \in Held(c)'
                \/ new.phase = "done" /\ new.cause = "alloc" /\ b = <<c, "publicKey">>
        BY <3>1, <4>2, <4>6
      <4> QED
        BY <2>1, <4>1, <4>2, <4>11, <4>12, OneCallerMoves
    <3>3. ASSUME End(c, "unwind", "throws", "alloc"), live' = live PROVE IInv'
      BY <2>1, <2>2, <3>1, <3>3, UnwindStarts
    <3> QED
      BY <2>6, <3>2, <3>3 DEF withInput
  <2>7. CASE Export(c)
    <3>1. /\ call[c].phase = "run" /\ call[c].outs = Len(OutsOf(c))
          /\ call[c].ins = Len(InsOf(c)) /\ live' = live
      BY <2>7 DEF Export
    <3>2. call[c].ins <= Len(InsOf(c))
      BY <2>2, <3>1, SMTT(30)
    <3> QED
      BY <2>1, <2>7, <3>1, <3>2, UnwindStarts DEF Export
  <2>8. CASE DeallocInput(c)
    <3>1. /\ call[c].phase = "unwind" /\ call[c].ins \in Nat /\ call[c].ins > 0
          /\ call[c].outs = Len(OutsOf(c)) /\ call[c].ins <= Len(InsOf(c))
          /\ live' = live \ {<<c, InsOf(c)[call[c].ins]>>}
      BY <2>1, <2>8 DEF DeallocInput, IInv, BlockOrder, Calls
    <3>0. PICK n \in Nat : n = call[c].ins - 1
      BY <3>1, SMTT(30)
    <3> DEFINE new == [call[c] EXCEPT !.ins = n]
    <3>2. call' = [call EXCEPT ![c] = new]
      BY <2>8, <3>0 DEF DeallocInput
    <3>3. /\ new \in Calls /\ new.kind = call[c].kind /\ new.outs = call[c].outs
          /\ new.ins = n /\ new.phase = "unwind"
      BY <2>1, <3>1 DEF Calls
    <3> HIDE DEF new
    <3>4. call'[c] = new
      BY <3>2 DEF IInv, TypeOK
    <3>5. Held(c)' = {<<c, OutsOf(c)[i]>> : i \in 1..call[c].outs}
                     \cup {<<c, InsOf(c)[i]>> : i \in 1..call[c].ins - 1}
      BY <3>0, <3>3, <3>4 DEF Held, OutsOf, InsOf
    <3>6. Held(c) \ {<<c, InsOf(c)[call[c].ins]>>} \subseteq Held(c)'
      <4>1. \A i \in 1..call[c].ins : i = call[c].ins \/ i \in 1..call[c].ins - 1
        BY <3>1, SMTT(30)
      <4> QED
        BY <3>5, <4>1 DEF Held
    <3>7. \A b \in live' :
             \/ b \in live /\ ~(b \in Held(c))
             \/ b \in Held(c)'
      BY <3>1, <3>6
    <3>8. new.outs = Len(Outs[new.kind]) /\ new.ins <= Len(Ins[new.kind])
      BY <2>2, <3>0, <3>1, <3>3, SMTT(30) DEF OutsOf, InsOf
    <3> QED
      BY <2>1, <3>1, <3>2, <3>3, <3>7, <3>8, OneCallerMoves
  <2>9. CASE DeallocOutputs(c)
    <3>1. /\ call[c].phase = "unwind" /\ call[c].ins = 0 /\ call[c].outs = Len(OutsOf(c))
          /\ live' = live \ {<<c, OutsOf(c)[i]>> : i \in 1..Len(OutsOf(c))}
      BY <2>9 DEF DeallocOutputs, IInv, BlockOrder
    <3> DEFINE new == [call[c] EXCEPT !.phase = "done", !.outs = 0]
    <3>2. call' = [call EXCEPT ![c] = new]
      BY <2>9 DEF DeallocOutputs
    <3>3. new \in Calls /\ new.phase = "done"
      BY <2>1 DEF Calls
    <3> HIDE DEF new
    <3>4. Held(c) = {<<c, OutsOf(c)[i]>> : i \in 1..Len(OutsOf(c))}
      BY <3>1, SMTT(30) DEF Held
    <3>5. \A b \in live' : b \in live /\ ~(b \in Held(c))
      BY <3>1, <3>4
    <3> QED
      BY <2>1, <3>1, <3>2, <3>3, <3>5, OneCallerMoves
  <2> QED
    BY <1>4, <2>3, <2>4, <2>5, <2>6, <2>7, <2>8, <2>9 DEF Step
<1> QED
  BY <1>1, <1>2, <1>3, <1>4 DEF BridgeNext, instantiateWasm, LoadFails, Stop, bridgeVars

(* Between calls no block of wasm memory is left, whatever traps and       *)
(* whatever status the exports return, but for a public key block whose    *)
(* secret key block could not be allocated.                                *)
THEOREM BlocksAreReturned == BridgeSpec => []NoBlockIsLeft
<1>1. IInv => NoBlockIsLeft
  <2> SUFFICES ASSUME IInv, Running = {}, NEW b \in live
               PROVE  b[2] = "publicKey" /\ call[b[1]].cause = "alloc"
    BY DEF NoBlockIsLeft
  <2> QED
    BY SMTT(30) DEF IInv, LiveIsHeld, Running
<1> QED
  BY <1>1, InitIInv, NextIInv, PTL DEF BridgeSpec

(* Nothing is copied before the call runs; while it runs, what is copied   *)
(* is what toBytes shows, for no caller writes to its buffer meanwhile; and *)
(* what was copied stays so when the call unwinds.                         *)
SeenBy(c) ==
    /\ call[c].phase = "await" => call[c].copied = {}
    /\ call[c].phase = "run" => call[c].copied \subseteq {toBytes(c)}
    /\ call[c].form # "ArrayBuffer" => call[c].copied \subseteq {call[c].given}
    /\ \A x, y \in call[c].copied : x = y
Seen == \A c \in Callers : call[c] # NoCall => SeenBy(c)

(* A step that changes nothing of what a call has copied, nor of what it   *)
(* can see while it runs.                                                  *)
LEMMA StillSeen ==
    ASSUME NEW c \in Callers, SeenBy(c),
           call'[c].copied = call[c].copied, call'[c].form = call[c].form,
           call'[c].given = call[c].given,
           call'[c].phase = "await" => call[c].phase = "await",
           call'[c].phase = "run" => buffer' = buffer /\ call[c].phase \in {"await", "run"}
    PROVE  SeenBy(c)'
<1>1. call'[c].phase = "run" => toBytes(c)' = toBytes(c)
  BY DEF toBytes
<1> QED
  BY <1>1 DEF SeenBy

(* No caller's step, and no other caller's, disturbs it.                   *)
LEMMA NextSeen == IInv /\ Seen /\ [BridgeNext]_bridgeVars => Seen'
<1> SUFFICES ASSUME IInv, Seen, [BridgeNext]_bridgeVars, NEW c \in Callers, call'[c] # NoCall
             PROVE  SeenBy(c)'
  BY DEF Seen
<1>0. call \in [Callers -> {NoCall} \cup Calls]
  BY DEF IInv, TypeOK
<1>1. CASE UNCHANGED <<buffer, call>>
  BY <1>1, SMTT(30) DEF Seen, SeenBy, toBytes
<1>2. ASSUME NEW d \in Callers, Reuse(d) PROVE SeenBy(c)'
  <2>1. call' = call /\ Running = {}
    BY <1>2 DEF Reuse
  <2>2. SeenBy(c) /\ call'[c].phase # "run"
    BY <2>1 DEF Seen, Running
  <2> QED
    BY <2>1, <2>2, StillSeen
<1>3. ASSUME NEW d \in Callers, Call(d) PROVE SeenBy(c)'
  <2>1. CASE d # c
    <3>1. call'[c] = call[c] /\ buffer' = buffer
      BY <1>0, <1>3, <2>1 DEF Call
    <3> QED
      BY <3>1, StillSeen DEF Seen, SeenBy, toBytes
  <2>2. CASE d = c
    <3>1. PICK new :
             /\ call' = [call EXCEPT ![c] = new]
             /\ new.copied = {} /\ new.phase \in {"await", "done"}
      <4>1. PICK begun : /\ \E kind, form : begun = Begun(kind, form, buffer[c])
                         /\ \/ call' = [call EXCEPT ![c] = begun]
                            \/ call' = [call EXCEPT ![c] = [begun EXCEPT
                                 !.phase = "done", !.outcome = "throws", !.cause = "length"]]
        BY <1>3, <2>2 DEF Call
      <4>2. begun.copied = {} /\ begun.phase = "await"
        BY <4>1, SMTT(30) DEF Begun
      <4>3. [begun EXCEPT !.phase = "done", !.outcome = "throws", !.cause = "length"].copied = {}
        BY <4>1, SMTT(30) DEF Begun
      <4>4. [begun EXCEPT !.phase = "done", !.outcome = "throws", !.cause = "length"].phase = "done"
        BY <4>1, SMTT(30) DEF Begun
      <4> QED
        BY <4>1, <4>2, <4>3, <4>4
    <3>2. call'[c] = new
      BY <1>0, <3>1
    <3> QED
      BY <3>1, <3>2 DEF SeenBy
  <2> QED
    BY <2>1, <2>2
<1>4. ASSUME NEW d \in Callers, Step(d) PROVE SeenBy(c)'
  <2>0. buffer' = buffer
    BY <1>4 DEF Step, Resume, Rejected, AllocOutput, withInput, Export, DeallocInput,
       DeallocOutputs
  <2>1. CASE d # c
    <3>1. call'[c] = call[c]
      BY <1>0, <1>4, <2>1 DEF Step, Resume, Rejected, AllocOutput, withInput, Export,
         DeallocInput, DeallocOutputs, End
    <3> QED
      BY <2>0, <3>1 DEF Seen, SeenBy, toBytes
  <2>2. CASE d = c
    <3>1. call[c] \in Calls /\ call[c] # NoCall
      <4>1. call[c].phase # "idle"
        BY <1>4, <2>2 DEF Step, Resume, Rejected, AllocOutput, withInput, TakesInput, Export,
           DeallocInput, DeallocOutputs
      <4> QED
        BY <1>0, <4>1, SMTT(30) DEF NoCall
    <3>2. SeenBy(c)
      BY <3>1 DEF Seen
    <3>3. ASSUME NEW phase \in {"unwind", "done"}, NEW how, NEW cause, End(c, phase, how, cause)
          PROVE  SeenBy(c)'
      <4>1. /\ call'[c].phase = phase /\ call'[c].copied = call[c].copied
            /\ call'[c].form = call[c].form /\ call'[c].given = call[c].given
        BY <1>0, <3>1, <3>3 DEF End, Calls
      <4> QED
        BY <3>2, <4>1, StillSeen
    <3>4. ASSUME NEW n, \/ call' = [call EXCEPT ![c].outs = n]
                        \/ call' = [call EXCEPT ![c].ins = n]
          PROVE  SeenBy(c)'
      <4>1. /\ call'[c].phase = call[c].phase /\ call'[c].copied = call[c].copied
            /\ call'[c].form = call[c].form /\ call'[c].given = call[c].given
        BY <1>0, <3>1, <3>4 DEF Calls
      <4> QED
        BY <2>0, <3>2, <4>1, StillSeen
    <3>5. CASE Resume(c)
      <4>1. /\ call[c].phase = "await" /\ call'[c].phase = "run"
            /\ call'[c].copied = call[c].copied
            /\ call'[c].form = call[c].form /\ call'[c].given = call[c].given
        BY <1>0, <3>1, <3>5 DEF Resume, Calls
      <4> QED
        BY <2>0, <3>2, <4>1, StillSeen
    <3>6. CASE withInput(c)
      <4>1. ASSUME call' = [call EXCEPT ![c].ins = @ + 1, ![c].copied = @ \cup Shown(c)]
            PROVE  SeenBy(c)'
        <5>1. /\ call'[c].phase = call[c].phase /\ call'[c].copied = call[c].copied \cup Shown(c)
              /\ call'[c].form = call[c].form /\ call'[c].given = call[c].given
          BY <1>0, <3>1, <4>1 DEF Calls
        <5>2. call[c].phase = "run"
          BY <3>6 DEF withInput, TakesInput
        <5>3. toBytes(c)' = toBytes(c)
          BY <2>0, <5>1 DEF toBytes
        <5>4. call'[c].copied \subseteq {toBytes(c)}
          BY <3>1, <3>2, <5>1, <5>2, ShownIsContent DEF SeenBy, IInv
        <5>5. call'[c].form # "ArrayBuffer" => toBytes(c) = call'[c].given
          BY <5>1 DEF toBytes
        <5> QED
          BY <5>1, <5>2, <5>3, <5>4, <5>5 DEF SeenBy
      <4> QED
        BY <3>3, <3>6, <4>1 DEF withInput
    <3>7. CASE AllocOutput(c) \/ DeallocInput(c)
      BY <3>3, <3>4, <3>7 DEF AllocOutput, DeallocInput
    <3>8. CASE Rejected(c) \/ Export(c)
      BY <3>3, <3>8 DEF Rejected, Export
    <3>9. CASE DeallocOutputs(c)
      <4>1. /\ call'[c].phase = "done" /\ call'[c].copied = call[c].copied
            /\ call'[c].form = call[c].form /\ call'[c].given = call[c].given
        BY <1>0, <3>1, <3>9 DEF DeallocOutputs, Calls
      <4> QED
        BY <3>2, <4>1, StillSeen
    <3> QED
      BY <1>4, <2>2, <3>5, <3>6, <3>7, <3>8, <3>9 DEF Step
  <2> QED
    BY <2>1, <2>2
<1> QED
  BY <1>1, <1>2, <1>3, <1>4 DEF BridgeNext, instantiateWasm, LoadFails, Stop, bridgeVars

(* Whatever callers write to their buffers while the module loads, a call  *)
(* on a Uint8Array or an array hands the bytes it was given to the         *)
(* instance, and a call on an ArrayBuffer the bytes of one moment.         *)
THEOREM BytesAreTheCallers == BridgeSpec => []WorksOnTheBytesGiven
<1>1. BridgeInit => Seen
  BY DEF BridgeInit, Seen
<1>2. Seen => WorksOnTheBytesGiven
  BY DEF Seen, SeenBy, WorksOnTheBytesGiven
<1> QED
  BY <1>1, <1>2, InitIInv, NextIInv, NextSeen, PTL DEF BridgeSpec
==============================================================================
