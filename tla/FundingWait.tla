----------------------------- MODULE FundingWait -----------------------------
(***************************************************************************)
(* waitForBalance (sdk/src/wallet.ts): getCells over and over, with a      *)
(* sleep in between, until the cells it returns hold the capacity waited   *)
(* for or the time is up.  Each round is a call of CellPagination against  *)
(* the same moving indexer.                                                *)
(*                                                                         *)
(* Of the time only this matters here: whether the timeout has passed when *)
(* a round is decided (ConfirmationWait has the same loop with its clock). *)
(***************************************************************************)
EXTENDS CellPagination

CONSTANTS
    capacity(_),        \* shannons of a cell
    minCapacities       \* thresholds: the option, or the minimum of a cell

ASSUME FundsAssumption ==
    /\ \A c \in Cells : capacity(c) \in Nat
    /\ minCapacities \subseteq Nat

VARIABLES
    threshold,
    wait,               \* "poll", "sleep", or how the call ended
    expired             \* Date.now() - start >= timeoutMs

waitVars == <<threshold, wait, expired>>
allVars == <<pagingVars, waitVars>>

Ended == {"ok", "balance_wait_timeout", "indexer_unavailable"}

WaitInit ==
    /\ PagingInit
    /\ threshold \in minCapacities
    /\ wait = "poll"
    /\ expired = FALSE

Expire ==
    /\ ~expired
    /\ expired' = TRUE
    /\ UNCHANGED <<pagingVars, threshold, wait>>

Poll ==
    /\ wait = "poll"
    /\ getCells
    /\ UNCHANGED waitVars

(* getBalanceSummary: every element of the list counts.                    *)
totalCapacity == FoldFunction(LAMBDA c, sum : capacity(c) + sum, 0, objects)
liveCells == Len(objects)

Settle(w) ==
    /\ wait' = w
    /\ UNCHANGED <<pagingVars, threshold, expired>>

Funded == totalCapacity >= threshold /\ liveCells > 0

Report == wait = "poll" /\ paging = "done" /\ Funded /\ Settle("ok")

BalanceTimeOut_First == wait = "poll" /\ paging = "done" /\ expired /\ Settle("balance_wait_timeout")
BalanceTimeOut == wait = "poll" /\ paging = "done" /\ ~Funded /\ expired /\ Settle("balance_wait_timeout")

Pause ==
    /\ wait = "poll" /\ paging = "done"
    /\ ~Funded /\ ~expired
    /\ Settle("sleep")

(* The timer fires; the next round starts from nothing.                    *)
Resume_UnlessExpired ==
    /\ wait = "sleep" /\ ~expired
    /\ wait' = "poll"
    /\ Start
    /\ UNCHANGED <<threshold, expired>>
Resume ==
    /\ wait = "sleep"
    /\ wait' = "poll"
    /\ Start
    /\ UNCHANGED <<threshold, expired>>

(* getCells throws: so does the wait.                                      *)
Fail == wait = "poll" /\ paging = "failed" /\ Settle("indexer_unavailable")

Page == (NextPage \/ PageFails) /\ UNCHANGED waitVars
World == (FollowChain \/ Rollback) /\ UNCHANGED waitVars

Client == Poll \/ Page \/ Report \/ BalanceTimeOut \/ Pause \/ Resume \/ Fail

WaitNext == World \/ Expire \/ Client

(* The event loop runs the client; time may stand still for ever here.     *)
WaitSpec == WaitInit /\ [][WaitNext]_allVars /\ WF_allVars(Client)

-----------------------------------------------------------------------------
CapacityHeld(S) == MapThenSumSet(capacity, S)

(* The answer says what was there.  After a timeout the cells live all     *)
(* through the last round do not reach the threshold (or there are none).  *)
(* When funding is reported, those live at some time of the last round     *)
(* hold the threshold, unless a reorganisation made the indexer return one *)
(* of them twice.                                                          *)
AnswerMeansFunds ==
    /\ wait = "balance_wait_timeout" => CapacityHeld(stable) < threshold \/ stable = {}
    /\ wait = "ok" => (CapacityHeld(touched) >= threshold /\ touched # {}) \/ undone

(* Funds that come to stay end the wait, also if the time never runs out.  *)
FundingEndsTheWait ==
    <>[](CapacityHeld(Live) >= threshold /\ Live # {}) => <>(wait \in Ended)
==============================================================================
