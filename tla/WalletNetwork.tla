----------------------------- MODULE WalletNetwork -----------------------------
(***************************************************************************)
(* Commands of the CLI (sdk/src/cli.ts) at work on one key: `transfer` and *)
(* `balance`, run by several processes or one after the other, against a   *)
(* node with a pool and a chain and an indexer that trails the chain.      *)
(*                                                                         *)
(* A transaction is what its hash covers: inputs, amount and change, not   *)
(* the witnesses.  Transfers go to one recipient.  Node and indexer are    *)
(* external: the node takes a transaction into its pool when its inputs    *)
(* are live and no pooled one spends them, commits or drops it later; the  *)
(* indexer shows the live cells of a height up to the chain's.             *)
(***************************************************************************)
EXTENDS Naturals, Sequences, FiniteSetsExt

CONSTANTS
    Commands,       \* processes that run `transfer`
    Amounts,
    FundingCells,   \* capacities of the cells the wallet starts with, all different
    Fee,            \* of any transfer
    MinCapacity     \* of any cell

ASSUME FundingAssumption == FundingCells \subseteq Nat /\ IsFiniteSet(FundingCells)
ASSUME CapacityAssumption == Amounts \subseteq Nat /\ Fee \in Nat /\ MinCapacity \in Nat

VARIABLES
    chain,          \* committed transactions, one per block
    pool,           \* pending ones
    dropped,        \* rejected ones
    indexed,        \* height of the indexer
    opts,           \* --amount-ckb, --dry-run and --wait of each command
    pc,             \* where each command stands
    cells,          \* the own cells its getCells returned
    tx,             \* the transaction it built
    outcome,        \* what it printed
    balance         \* the `balance --wait` run after the transfers

node == <<chain, pool, dropped>>
vars == <<node, indexed, opts, pc, cells, tx, outcome, balance>>

NoTx == [inputs |-> {}, amount |-> 0, change |-> 0]

-----------------------------------------------------------------------------
(* The ledger, seen from the wallet: cells of its lock.                    *)

Funding == {[of |-> NoTx, capacity |-> c] : c \in FundingCells}
Change(t) == IF t.change = 0 THEN {} ELSE {[of |-> t, capacity |-> t.change]}
CapacityOf(S) == MapThenSumSet(LAMBDA c : c.capacity, S)

OwnCells(height) ==
    LET txs == {chain[h] : h \in 1..height}
    IN  (Funding \cup UNION {Change(t) : t \in txs}) \ UNION {t.inputs : t \in txs}

Committed == Range(chain)

(* send_transaction: refused when it is known, an input is dead or an      *)
(* input is spent in the pool.                                             *)
Acceptable(t) ==
    /\ t \notin pool \cup Committed
    /\ t.inputs \subseteq OwnCells(Len(chain))
    /\ \A other \in pool : other.inputs \cap t.inputs = {}

Commit ==
    /\ \E t \in pool : chain' = Append(chain, t) /\ pool' = pool \ {t}
    /\ UNCHANGED <<dropped, indexed, opts, pc, cells, tx, outcome, balance>>

Drop ==
    /\ \E t \in pool : pool' = pool \ {t} /\ dropped' = dropped \cup {t}
    /\ UNCHANGED <<chain, indexed, opts, pc, cells, tx, outcome, balance>>

Index ==
    /\ indexed < Len(chain)
    /\ indexed' = indexed + 1
    /\ UNCHANGED <<node, opts, pc, cells, tx, outcome, balance>>

-----------------------------------------------------------------------------
(* buildTransferTransaction, with TransferBuilder's rules for a constant   *)
(* fee: the shortest run of own cells that pays, from the smallest up, of  *)
(* equal ones the older first (getCells lists them in that order).         *)

Born(c) == IF c.of = NoTx THEN 0 ELSE CHOOSE h \in DOMAIN chain : chain[h] = c.of
Before(c, d) == c.capacity < d.capacity \/ (c.capacity = d.capacity /\ Born(c) < Born(d))
Smallest(S, n) == {c \in S : Cardinality({d \in S : Before(d, c)}) < n}

Pay(S, amount) ==
    [inputs |-> S, amount |-> amount, change |-> CapacityOf(S) - amount - Fee]
Pays(S, amount) ==
    LET total == CapacityOf(S)
    IN  total = amount + Fee \/ total >= amount + Fee + MinCapacity

buildTransferTransaction_BestFit(S, amount) ==
    LET fitting == {c \in S : Pays({c}, amount)}
    IN  IF fitting = {} THEN NoTx
        ELSE Pay({CHOOSE c \in fitting : \A d \in fitting \ {c} : Before(c, d)}, amount)
buildTransferTransaction(S, amount) ==
    LET sizes == {n \in 1..Cardinality(S) : Pays(Smallest(S, n), amount)}
    IN  IF sizes = {} THEN NoTx ELSE Pay(Smallest(S, Min(sizes)), amount)

-----------------------------------------------------------------------------
(* runTransfer, step by step between its awaits.                           *)

Init ==
    /\ chain = <<>> /\ pool = {} /\ dropped = {}
    /\ indexed = 0
    /\ opts \in [Commands -> [amount : Amounts, dryRun : BOOLEAN, wait : BOOLEAN]]
    /\ pc = [p \in Commands |-> "getCells"]
    /\ cells = [p \in Commands |-> {}]
    /\ tx = [p \in Commands |-> NoTx]
    /\ outcome = [p \in Commands |-> "none"]
    /\ balance = [status |-> "none", cells |-> {}, after |-> {}]

Goto(p, next) == pc' = [pc EXCEPT ![p] = next] /\ UNCHANGED outcome
Finish(p, what) ==
    /\ pc' = [pc EXCEPT ![p] = "done"]
    /\ outcome' = [outcome EXCEPT ![p] = what]

GetCells(p) ==
    /\ pc[p] = "getCells"
    /\ cells' = [cells EXCEPT ![p] = OwnCells(indexed)]
    /\ Goto(p, "build")
    /\ UNCHANGED <<node, indexed, opts, tx, balance>>

(* The preflight and, unless it fails or is all that is asked for, the     *)
(* same transaction again, signed.                                         *)
Build(p) ==
    /\ pc[p] = "build"
    /\ tx' = [tx EXCEPT ![p] = buildTransferTransaction(cells[p], opts[p].amount)]
    /\ IF tx'[p] = NoTx THEN Finish(p, "refused")
       ELSE IF opts[p].dryRun THEN Finish(p, "dry_run")
       ELSE Goto(p, "send")
    /\ UNCHANGED <<node, indexed, opts, cells, balance>>

Send(p) ==
    /\ pc[p] = "send"
    /\ \/ /\ Acceptable(tx[p])
          /\ pool' = pool \cup {tx[p]} /\ dropped' = dropped \ {tx[p]}
          /\ Goto(p, "reply")
       \/ /\ ~Acceptable(tx[p])
          /\ Finish(p, "error")
          /\ UNCHANGED <<pool, dropped>>
    /\ UNCHANGED <<chain, indexed, opts, cells, tx, balance>>

(* The hash comes back: the command waits, or is done.                     *)
Reply(p) ==
    /\ pc[p] = "reply"
    /\ IF opts[p].wait THEN Goto(p, "wait") ELSE Finish(p, "sent")
    /\ UNCHANGED <<node, indexed, opts, cells, tx, balance>>

(* waitForTransactionConfirmation with the default statuses: pending will  *)
(* do.  A dropped transaction is asked for until the time is up.           *)
Confirm(p) ==
    /\ pc[p] = "wait"
    /\ \/ tx[p] \in pool /\ Finish(p, "pending")
       \/ tx[p] \in Committed /\ Finish(p, "committed")
       \/ tx[p] \notin pool \cup Committed /\ Finish(p, "timeout")
    /\ UNCHANGED <<node, indexed, opts, cells, tx, balance>>

(* A request or its answer is lost: the command ends with an error, also   *)
(* when the node has taken the transaction.                                *)
RequestFails(p) ==
    /\ pc[p] \in {"getCells", "send", "reply", "wait"}
    /\ Finish(p, "error")
    /\ UNCHANGED <<node, indexed, opts, cells, tx, balance>>

Transfer(p) ==
    \/ GetCells(p) \/ Build(p) \/ Send(p) \/ Reply(p) \/ Confirm(p) \/ RequestFails(p)

-----------------------------------------------------------------------------
(* runBalance with --wait: the first answer that shows the minimum of a    *)
(* cell will do.                                                           *)
RunBalance ==
    /\ balance.status = "none"
    /\ balance' = [balance EXCEPT !.status = "polling",
                                  !.after = {p \in Commands : pc[p] = "done"}]
    /\ UNCHANGED <<node, indexed, opts, pc, cells, tx, outcome>>

PollBalance ==
    /\ balance.status = "polling"
    /\ balance' =
         IF CapacityOf(OwnCells(indexed)) >= MinCapacity
         THEN [balance EXCEPT !.status = "shown", !.cells = OwnCells(indexed)]
         ELSE [balance EXCEPT !.status = "timeout"]
    /\ UNCHANGED <<node, indexed, opts, pc, cells, tx, outcome>>

Next ==
    \/ Commit \/ Drop \/ Index
    \/ \E p \in Commands : Transfer(p)
    \/ RunBalance \/ PollBalance

Spec == Init /\ [][Next]_vars

-----------------------------------------------------------------------------
(* Two transfers that were built from the same answer of the indexer are   *)
(* never both paid, unless they are one and the same transaction: each     *)
(* spends the smallest cell.  So a transfer repeated after a lost answer   *)
(* does not pay twice as long as the indexer has not seen the first.       *)
OneViewPaysOnce ==
    \A p, q \in Commands :
        (cells[p] = cells[q] /\ {tx[p], tx[q]} \subseteq Committed) => tx[p] = tx[q]

(* "Use `transfer --wait`, then re-run `balance --wait`" (README, on a     *)
(* balance that does not decrease after a send): the balance then shown no *)
(* longer counts the cells of the transfer that was waited for.            *)
BalanceShowsTheTransfer ==
    balance.status = "shown" =>
        \A p \in balance.after :
            outcome[p] \in {"pending", "committed"} => tx[p].inputs \cap balance.cells = {}
==============================================================================
