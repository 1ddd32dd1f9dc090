# TLA+ models of the ckb-pq-dillithium lock, SDK and `bytes` patch

Specifications of the repository's code, model-checked with TLC and, for the
parts that matter most, proved with TLAPS. Paths below are relative to the
repository. Every definition's source lines are in `PROJECT.json` under `map`.

## The system

| Part | Code | State | What makes it hard |
|---|---|---|---|
| Lock script | `contracts/dillithium-lock/src/main.rs` | one run of `program_entry` | arbitrary witness bytes, order of checks, error codes |
| Witness format | `sdk/src/witness.ts`, `parse_witness` | none | two parsers, two languages, length fields |
| Transfer builder | `sdk/src/wallet.ts` | selection loop | dust, fee that depends on the selection, early failure |
| Sealing | `sealTransaction` | none | witness of input 0 against "first of the group" |
| RPC client | `CkbRpcClient` | cursor of a query | an indexer that moves between pages and undoes blocks |
| Waits | `waitForTransactionConfirmation`, `waitForBalance` | clock, attempts | deadline looked at only after an answer |
| CLI | `sdk/src/cli.ts` | several processes on one key | stale cells, lost replies, repeats |
| Wasm bridge | `sdk/src/crypto.ts` | shared instance, its memory | concurrent first calls, reused buffers, growth of memory |
| Addresses, amounts | `sdk/src/address.ts`, `parseCkbAmount`, `formatCkb` | none | padding bits, slips in copying, cut-off fractions |
| `Bytes` | `patches/bytes/src/bytes.rs` | reference counts | promotion and last drop between threads, limit of the count |
| `BytesMut` | `patches/bytes/src/bytes_mut.rs` | windows on allocations | capacity given away and taken back |
| `Buf`, `BufMut`, adapters | `patches/bytes/src/buf/` | nested cursors | values across chunks, limits, lengths past `usize`, unsafe `advance_mut` |

How they interact: the SDK asks an indexer for the live cells of its lock
(cell query), builds and seals a transaction (builder, wasm bridge, witness
format), sends it to a node (CLI) and polls (waits). The node runs the lock
script on it, whose input is the witness the SDK wrote. `bytes` is the library
the contract's molecule types are built on; the repository patches it to run
on CKB-VM without atomics.

## Modules

The MC module of a specification gives its constants small values; a `Proofs`
module extends it with theorems.

**`Witness`** has `buildWitnessLock`, `parseWitnessLock` and `parse_witness` as
operators on byte strings. The number of byte values is a parameter, so that
TLC can enumerate *all* byte strings of a small instance while the proofs cover
256.

**`DillithiumLock`** is `program_entry`: `pc` is the next check, each check is an
action that goes on or returns its code, and the syscalls' results are chosen
in `Init`. **`LockPolicy`** is the promise it implements: decide once, unlock
exactly what is authorised.

**`SealedTransfer`** composes the lock script with where transactions come from:
`sealTransaction`, with any content of the key file that `readKeypair` accepts (a
public key may be any bytes of the right length, related to the secret key or
not) and any mix of own and other inputs (`SealedBySdk`), or somebody else, with any
lock field, args and hash (`MadeByOthers`).

**`TxSize`** gives lengths of molecule encodings and the fee; **`TransferBuilder`** is
`validateTransferRequest` and `buildTransferTransaction`, one step per cell of
the selection loop.

**`CellPagination`** is `getCells` against a moving indexer (external:
`FollowChain` adds a block, `Rollback` undoes one, `get_cells` is described by
what it promises: the first cells after the cursor, in order, as many as fit);
**`FundingWait`** repeats it as `waitForBalance` does. The two are checked together.

**`ConfirmationWait`** is `waitForTransactionConfirmation` with a clock that runs
while a request is under way and while the wallet sleeps.

**`WalletNetwork`** runs CLI commands as processes on one key, with a node (pool and
chain) and an indexer that trails it, both external and modelled from how the
wallet uses them. A transaction is what its hash covers.

**`WasmBridge`** has concurrent SDK calls, the promise of the instance and the
blocks each call holds. Each caller has a buffer, which it may change while it
waits, and passes it as one of the three types of `ByteLike`: `toBytes` copies a
`Uint8Array` or an array, and makes a view of an `ArrayBuffer`, through which the
later change is seen. The wasm module is external: an allocation may trap or
grow the memory, an export returns any status.

**`CkbAddress`** follows an address from the wallet that writes it to the wallet that
pays it, with slips in between. Texts are sequences of code points, because
the properties are about characters; a checksum is its six 5-bit digits, so that
the shift and the exclusive-or of `polymod` work digit by digit.
**`CkbAmount`** has the reading and printing of amounts as operators.
**`TransferArguments`** composes the two as `runTransfer` does: the address first,
then the amount, which the summary prints and the next call may take up.

**`BytesShared`** has one step per atomic operation on a data word or a count.
Rust's borrow rules are the `owners` of a handle: any owner may use it by shared
reference, only a sole owner by value or mutably. Memory orderings are not
modelled. **`BytesMut`** has one step per call; every byte written is a new number,
so that a byte in the wrong place shows.

The traits of `patches/bytes/src/buf/` are operators on nested records: **`Buf`** has
the cursors, their adapters and the default methods, **`BufGet`** the typed getters,
**`BufMut`** the writing side, **`IntBytes`** integers as bytes. An outcome is a value,
an error, a panic, or a loop that stands still, each with the buffer as the call
leaves it: what a call had consumed before it failed is gone.
**`BufStream`** is a program that makes these calls: it writes typed values into a
buffer, makes the memory readable and reads, or reads a buffer it was given.
**`FlatStream`** is the promise they implement: one sequence of bytes, room for some
more, and a quota, with no chunks in it. A call that fails consumes nothing and
writes nothing, but for an `advance` that panics, which may have consumed some;
whether `get_int` of no bytes panics is left open, since its documentation does not
say. `BufStream` refines it by forgetting how the buffers are nested.

## Runs

| Run | Shows | Bounds |
|---|---|---|
| `lock` | each code returned exactly when its check is the first to fail, so no panic either; contract and SDK read a witness alike; implements `LockPolicy`; what the SDK seals with a matching pair, own input first, is unlocked, and other seals are refused for their own reason | two byte values; two secret keys, four public keys of which two belong to them, two hashes and seeds, up to three inputs; every lock field up to 13 bytes (a well-formed one has 12), so every length field and every truncation occurs |
| `builder` | outputs balance, no dust, smallest own cells and each once, first fit, failures genuine, fee as documented in the code | three cells of four sizes around the dust and fee boundaries, real encoding lengths |
| `confirmation` | no stable acceptance missed, bounded overrun, spaced attempts, the wait ends | timeout 5, interval 2, latency 2, jitter 1: requests begin before, at and after the deadline |
| `funding` | duplicates only through a rollback, all stable cells found; reports and timeouts tell the truth about the last round; funds that stay end the wait | three cells, pages of two, two blocks, one rollback, four thresholds |
| `network` | transfers built from one view never pay twice | two processes, two cells, two amounts |
| `wasm` | a copied input is the one given, a viewed one is of one moment; no block left, every call settles | two callers, all five operations, three types of input, two buffer contents (one of a wrong length) |
| `arguments` | addresses: round trip, one or two wrong characters always noticed, one spelling per script, no payment across the mainnet border; amounts: the one typed, cut off at a shannon, printed as a text that reads back | one-byte code hash, up to two bytes of args (all lengths of padding), two slips from three characters (separator, another prefix, other case); two decimals, fractions of up to three digits |
| `bytes_shared` | nothing freed early, twice, never, or with another size; counts exact; `try_into_mut` never copies | two threads, three handles, three bytes, counts to 7 (limit 3) |
| `bytes_mut` | every handle keeps its bytes; no two can write one place; counts and capacities right; `reserve` delivers | five calls, three handles, two allocations, two bytes written |
| `buf` | every call on nested buffers behaves as on one flat sequence, failing calls included; chunks and vectored chunks are its front; values come back as written; writes fill exactly what they advance over | a byte is a bit, so that 16-byte integers fit; 13 sources and 11 sinks, chains of three levels, two of them longer than `usize` (55 here); two writes, any number of reads |

Two runs check a statement made in the repository that the code does not keep
(`findings` in `PROJECT.json` quotes each):

| Run | The statement | The code |
|---|---|---|
| `network_balance` | `transfer --wait`, then `balance --wait` (`README.md:479-482`) | can print the balance from before |
| `buf_int` | `try_get_int` "Gets a signed n-byte integer" (`patches/bytes/src/buf/buf_impl.rs:2053`) | zeros, not the sign, fill the missing bytes; `get_int` extends the sign |

Seven more differences between a statement and the code were met while
modelling and have no run:

- SDK and contract "share the same canonical formats" (`README.md:76-80`), yet
  `parse_witness` accepts bytes after the signature and `parseWitnessLock` does
  not. Where both accept they agree (`ReadsLikeTheSdk`, `ContractReadsLikeSdk`).
- The CLI "supports plain CKB only" (`README.md:463`), yet the selection looks
  only at locks, so that cells with a type script or data are spent too.
- "the offset must be 0" (`patches/bytes/src/bytes.rs:1219`), yet `advance` moves
  the start of an unshared handle; the code below the comment copes.
- `owned_drop_impl` asserts a count of at most half of `usize`
  (`patches/bytes/src/bytes.rs:1158`), yet `owned_clone` lets it reach one more.
- `--fee-rate` is shannons per kB (`sdk/src/cli.ts:582`), yet the fee is computed
  before the change output is added (`sdk/src/wallet.ts:533`), which is not paid
  for. What the fee does pay is `FeePaysForAllButChange`.
- `get_int` panics if data is missing or `nbytes` is over 8
  (`patches/bytes/src/buf/buf_impl.rs:944`); for `nbytes` 0 the shift by 64 bits
  panics too, as the release profile has `overflow-checks` on.
- `chunks_vectored` gives slices "starting at `self`'s current position"
  (`patches/bytes/src/buf/buf_impl.rs:178`), yet a `Take` of more than 16 slices
  in front of another buffer of a `Chain` is cut short and the other buffer
  follows at once. `VectoredIsPrefix` excepts this case (`CutTake`).

Two behaviours of which no document speaks are excepted by name in the properties:

- `Chain::advance` consumes its first buffer before the second one panics
  (`patches/bytes/src/buf/chain.rs:157-162`); the trait says only that `advance` may
  panic (`buf_impl.rs:241`). `RefinesFlat` allows a part to be consumed for an
  `advance` that panics, and for no other call.
- An `ArrayBuffer` is not copied (`sdk/src/util.ts:7-9`), so that a call works on
  what the caller left in it, and on another length than was checked if it was
  resized or detached. `WorksOnTheBytesGiven` promises the bytes given for
  the other two types only.

Deadlock checking is off where the system stops for good: a script that has
returned, a wait that has ended, a chain at its bound, calls used up.

### Why these bounds

The properties compare two or three things (two pages, two clones of one
handle, a request and a deadline), and each bound leaves room for one more than
that. Lengths, radix, decimals, timings, count limits and code hash length are
parameters so that boundaries are reached. What is proved does not depend on
them.

In `buf` the nestings are chosen, not enumerated: each adapter occurs around a
leaf, around a chain and inside one, with chunk ends inside, at and between
values, empty buffers in front, a cursor behind its end and a `Take` of more
slices than it has room for (2 here, 16 in the code). Lengths stay more than
`Growth` (64 in the code) below the largest `isize`: nearer to it a `Vec` panics
because it cannot grow, which needs 2^63 bytes.

### Fairness

`ConfirmationWait`: weak fairness of the loop's own step and of the clock, since
the event loop resumes a settled promise and time passes. `FundingWait`
(with `CellPagination`): weak fairness of the client alone, so the indexer owes nothing
but an answer, or an error, to each request; a call of `getCells` ends in
the model because the chain is finite and the cursor only moves forward.
`WasmBridge`: loading settles one way or the other, and a call that can go on
does. No model assumes strong fairness, or any of node, chain or other
processes.

## Proofs

Checked by TLAPS with Z3, Zenon and LS4, for every value of the constants that
meets the named assumptions.

- **`DillithiumLockProofs`**, on the witness format: `ParseIsTotal` (no index
  leaves the buffer), `ContractReadsLikeSdk`, `RoundTrip`, and its converse
  `ParsedIsRebuilt`: what `parseWitnessLock` accepts is what `buildWitnessLock`
  makes of the parts. They rest on lemmas about four-digit little-endian numbers
  (`DigitLemma`, `ReadOfWrite`) and slices.
  On the script: `TypeCorrect`, `PanicFreedom`, `ImplementsPolicy`,
  `ExitCodesAreExact` (`ExitCodeMeaning`) and `ContractAgreesWithSdk`
  (`ReadsLikeTheSdk`, from the theorems on parsers and builder). The invariant
  `PassedChecks` says that at each `pc` all earlier checks have succeeded;
  without it a return code says nothing about the transaction. Each failing
  check refutes `Authorized`, and passing all of them establishes it.
  On sealing: `SealedTransactionsUnlock` and `BadSealsAreRefused`
  (`BadSealIsRefused`). The seal's transaction is authorised from the start
  (`SealInv`), by `RoundTrip` and the assumption that a signature verifies under
  the key it was made for; with the invariant of the lock script it is unlocked.
  For a bad seal, `SealFacts` says which checks the transaction passes whatever
  the key file and the order of inputs, so that only the one check is left to
  fail; that it does fail for a public key other than the secret key's own needs the
  assumption that no signature verifies under such a key; if the bytes are no key
  at all, decoding fails before that, and the theorem says which of the two it is.
- **`FiniteSums`** has what the other proofs need of sums over finite sets: every
  computation of a sum, in any order, gives the same number (`SumIsUnique`), which
  takes one element at a time (`SumLaws`), grows with the set, and over a list is at
  least the sum over its elements, with equality if none occurs twice
  (`SumOfImage`). The library's induction theorems cannot be used, so the induction
  is by a smallest counterexample: a set of numbers has a least element
  (`LeastNumber`), a set of finite sets a smallest one (`SmallestSet`).
- **`TransferBuilderProofs`**: `TypeCorrect`, `CapacityIsConserved`,
  `InputsAreDistinct`, `SelectionIsSmallestFirst`, `FeeIsExact`,
  `SelectionIsFirstFit` (`FirstFit`) and `FailuresAreGenuine` (`FailureIsGenuine`).
  `SelectionInv` ties the selected cells to the part of the sorted list already
  seen: own cells of it, all of them, in order. It is needed because the
  properties speak of the result and the loop only of its next cell. `SumInv`
  adds that `inputCapacity` is the capacity of the selected cells, that no
  shorter prefix paid, and that a failure has looked at all of the sender's cells.
  That no *other* choice of cells would have paid needs one fact more: a cell
  added to a selection brings at least the fee its input costs
  (`MoreLeavesMore`). This is the hypothesis `CellsAreWorthTheirInput` of the
  theorem. The code does not check it; on CKB a cell holds a CKB for each of its
  bytes, which covers its input at any usual fee rate. TLC evaluates it on the
  run's cells and rates.
- **`WaitProofs`**, on `ConfirmationWait`: `NothingStableIsMissed`, `OverrunBound`,
  `AttemptsBound`. `ClockInv` bounds the clock in each phase, `SpacingInv` counts
  attempts against it, `SightInv` says that an acceptance the last answer missed
  began after that request.
  On `CellPagination` under `FundingWait`: `PagesOverlapOnlyByRollback`
  (`DuplicateOnlyByRollback`), `PagesCoverStableCells` (`CollectsTheStableCells`) and
  `AnswersMeanFunds` (`AnswerMeansFunds`), for any cells, capacities, page size,
  number of blocks and rollbacks. `PagingInv` says where a call stands between two
  pages: every cell that stayed live and lies up to the cursor is collected, and
  unless a block was undone only cells up to the cursor are. A cell that stays live
  keeps its place, also through a rollback, which is why nothing stable is missed; a
  cell that was undone may be created again further on, which is how one comes to be
  listed twice. `AnswersMeanFunds` compares what `getBalanceSummary` adds up over the
  list with the capacity of the set of cells, by `SumOfImage`.
- **`SdkProofs`**, on `WalletNetwork`: `OneViewOnePayment` (`OneViewPaysOnce`), for any number of
  commands, amounts and cells. `LedgerInv` says that no two committed transactions,
  and no two pooled ones, spend one cell, and that the inputs of the pooled ones
  are live; `CommandInv` that every transaction built spends the foremost of the
  cells it was built from, smallest first and of equal ones the oldest. The order
  among the cells of a command does not change when the chain grows (`CommitBorn`),
  so two commands with the same cells spend the same foremost one.
  On `WasmBridge`: `BlocksAreReturned` (`NoBlockIsLeft`) and
  `BytesAreTheCallers` (`WorksOnTheBytesGiven`), for any set of callers. That no
  block is left between calls follows only from knowing whose block each one is
  (`LiveIsHeld`), and that in turn from the order in which a call takes its
  blocks (`BlockOrder`): the finally clauses run when all outputs are there.
  `Seen` says what a call has handed to the instance while it runs: through a copy
  the bytes given, through a view the buffer as it is, which nobody changes until
  the call ends, because the instance is entered and left without an await.
- **`BytesSharedProofs`**: `CountsAreExact` (`CountIsExact`), `NothingIsDangling`
  (`NothingDangles`), `CapacityReturns` (`CapacityIsRemembered`), `AllIsGivenBack`
  (`NothingLeaks`) and `ConversionsReuse` (`TryIntoMutReuses`), for any finite sets
  of threads and handles, any number of leaked handles, and any capacity. `Structure`
  has the two phases of a buffer: before a promotion is published one handle whose
  view ends where the buffer ends (`VecIsAlone`), then one block that all handles
  and all operations under way refer to (`OneBlock`); and that a thread owns the
  handle it is using (`UsersOwn`), so that nobody else drops it meanwhile. The count
  is exact only as long as it does not wrap. `CountIsBounded` gives that: a thread
  that counted beyond half of `usize` is yet to check and abort, and
  `CountAssumption` has fewer threads than values in the upper half. `OneFrees`
  says that a count of 0 belongs to the one thread about to free, and
  `BufferIsHeld` who is responsible for a live buffer. The laws of
  `Cardinality` that the steps need are a conjunct of the invariant
  (`CardinalityLaws`), proved once from the library. The atomics are sequentially
  consistent, as in the model.
- **`BytesMutProofs`**: `WritablePrivate` (`WritableIsPrivate`), `TextKept`
  (`TextIsKept`), `HandlesMatch` (`HandlesMatchAllocation`) and `RoomIsMade`
  (`ReserveMakesRoom`), for any finite set of handles and any allocations,
  capacities, widths and numbers of bytes and calls. All rest on
  `LayoutIsConsistent`. Its invariant `Consistent` is stated of a layout (handles,
  allocations, texts) rather than of the variables, because one call is several
  operations one after the other, and each must find what the one before it left:
  `put` reserves, appends and drops its source. A layout is consistent if every
  window lies in its allocation, and that of a `Vec` ends with it (`Fitted`); if the
  memory under it is the text its holder put there (`Shown`); if of two handles of
  one allocation both are counted, and what one may write the other does not
  reach (`Compatible`); and if the count is the number of handles, and an allocation
  without any was freed (`Counted`). None of the four properties is inductive
  alone: that `reserve` may take back the front of an allocation needs a count of 1
  to mean a single handle, that `unsplit` may join two windows needs them to be
  apart and adjacent, and that a text survives a write needs the writer's window
  to be private. **`BytesMutLayout`** has a lemma for each part of an operation:
  advancing, reserving (`ReserveVec`, `ReserveUnique`, `ReserveShared`), extending,
  cloning, splitting, joining. `BytesMutProofs` adds the conversions and then takes
  the calls one by one.

Assumptions on constants are the `ASSUME`s of the modules: times are natural
numbers, capacities natural numbers, sizes positive, sets of cells finite,
requests well typed, that powers of two are positive numbers
(`WidthAssumption` of `BytesMut`: the provers have no laws of exponents), and for `SealedTransfer` the correctness of ML-DSA signing with one idealisation of it
(`OtherKeysAssumption`, above). TLC evaluates all of them.

Only model-checked: all liveness (`WaitEnds`, `FundingEndsTheWait`,
`EveryCallSettles`), which is outside what TLAPS proves
here; everything in
`BufStream` (its buffers are nested, so its operators are recursive); and
the codecs `CkbAddress` and `CkbAmount` with `TransferArguments`
over them, whose loops are recursive over the text (`CkbAddress` also uses
`Bitwise`).

Type invariants: those of `DillithiumLock` and `TransferBuilder` are proved
(`TypeCorrect` in each proof module), that of `ConfirmationWait` is part of its
inductive invariant, and so are those of `WasmBridge` and `BytesShared`
(in `SdkProofs` and `BytesSharedProofs`). The proofs on
`CellPagination`, `WalletNetwork` and `BytesMut` carry the types they need in their
own invariants (`PagingType`, `LedgerInv`, `CommandInv`, `Consistent`). The other modules state none.

## Not modelled

- ML-DSA, BLAKE2b and the wasm module: constant operators or external actions.
- JSON shapes of the RPC, option parsing, printed diagnostics, `check-outpoint`,
  `keygen`: they keep no state that a later step depends on.
- Formatting and serde of `bytes`; accessors of the adapters that hand out a
  reference to the inner buffer, through which a program may change it.
- Lengths near `usize` in `BytesMut`: the panics of `reserve_inner` when `len +
  additional` overflows (`patches/bytes/src/bytes_mut.rs:678-702`), and the abort of
  `increment_shared` at half of `usize` (`1445-1451`). Requests are small numbers in
  the model, and counts are numbers of handles, none of which is forgotten. The
  abort of `Bytes` is modelled, in `BytesShared`.
- A negative `--fee-rate`: `sdk/src/cli.ts:284` makes a `BigInt` of the text and
  nothing refuses a sign. Rates are natural numbers here (`RequestAssumption`).
- Secret keys that have the right length and are no key: signing fails with a
  status, before there is a transaction.
- An indexer that adds cells for ever as fast as `getCells` reads them: the chain
  of the model is finite, so every call of `getCells` ends.
- A transfer run again after its reply was lost and the indexer has caught up: it
  sees other cells and is another payment. `OneViewPaysOnce` is about commands that
  see the same cells.
- Memory orderings of `Bytes`: atomics are sequentially consistent here.
- `loom.rs` for riscv64: plain cells, right only for one thread. A call of it is
  one step of `BytesShared` when a single thread runs.
- Tests, build scripts, `sdk/dist` (compiled from `sdk/src`), deployment files.

## Plan

Done, in this order: lock script and witness format with proofs; builder with
proofs; sealing composed with the script, with proofs; waits, queries against a moving
indexer and CLI processes, with proofs; `Bytes` and `BytesMut`, with proofs; wasm bridge with
proofs; codecs; `Buf` and
`BufMut` with their adapters against a flat stream.

Next, most important first:

1. An abstract ledger that `WalletNetwork` is shown to implement.
2. `check-outpoint` and the balance diagnostics of the CLI, which compare answers
   of a node and an indexer read at different times.
