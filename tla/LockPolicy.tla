------------------------------ MODULE LockPolicy ------------------------------
(***************************************************************************)
(* What a lock script promises the chain: it looks at the transaction it   *)
(* is run for, which it cannot change, decides exactly once, and unlocks   *)
(* the group's cells exactly when the transaction is authorised.           *)
(***************************************************************************)
CONSTANTS
    Transactions,       \* what the script can see of a transaction
    Authorized(_)       \* the transactions the owner of the cells authorised

VARIABLES
    transaction,
    verdict             \* "undecided", "unlock" or "refuse"

Init ==
    /\ transaction \in Transactions
    /\ verdict = "undecided"

Decide ==
    /\ verdict = "undecided"
    /\ verdict' = IF Authorized(transaction) THEN "unlock" ELSE "refuse"
    /\ UNCHANGED transaction

Spec == Init /\ [][Decide]_<<transaction, verdict>>
==============================================================================
