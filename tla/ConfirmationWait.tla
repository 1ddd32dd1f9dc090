--------------------------- MODULE ConfirmationWait ---------------------------
(***************************************************************************)
(* waitForTransactionConfirmation (sdk/src/wallet.ts) against a node whose *)
(* view of the transaction changes while the wallet asks and sleeps.       *)
(*                                                                         *)
(* Time is a count of milliseconds since the call.  It passes while a      *)
(* request is under way and while the wallet sleeps, never between the     *)
(* answer and the decision.  A request takes at most MaxLatency (fetch     *)
(* gives up in the end); a timer fires no earlier than asked and at most   *)
(* MaxJitter late.                                                         *)
(***************************************************************************)
EXTENDS Integers

CONSTANTS
    timeoutMs, intervalMs,
    MaxLatency,         \* longest a request takes
    MaxJitter,          \* how late a timer fires at most
    AcceptedStatuses,   \* values of the acceptedStatuses option
    RawStatuses,        \* what get_transaction can say of a transaction
    NodeSteps           \* pairs of these: how the node's view can change

ASSUME TimesAssumption ==
    /\ timeoutMs \in Nat /\ intervalMs \in Nat
    /\ MaxLatency \in Nat /\ MaxJitter \in Nat
ASSUME NodeAssumption == NodeSteps \subseteq RawStatuses \X RawStatuses

VARIABLES
    node,           \* the node's view of the transaction
    accepted,       \* the statuses the caller waits for
    now,            \* Date.now() - start
    phase,          \* where the loop stands
    asked,          \* when the request under way was sent
    wake,           \* when the timer is due
    attempts,
    status,         \* transactionStatus of the last answer
    result,         \* "none", "ok", "timeout" or "error"
    acceptedSince   \* history: since when the node's view is an accepted one (-1: it is not)

vars == <<node, accepted, now, phase, asked, wake, attempts, status, result, acceptedSince>>

Statuses == {"unknown", "pending", "proposed", "committed", "rejected"}

(* An answer that is not an object counts as unknown, one without a        *)
(* status string as pending.                                               *)
transactionStatus(raw) ==
    IF raw = "no_status" THEN "pending"
    ELSE IF raw \in Statuses THEN raw
    ELSE "unknown"

Init ==
    /\ node \in RawStatuses
    /\ accepted \in AcceptedStatuses
    /\ now = 0
    /\ phase = "ask"
    /\ asked = 0
    /\ wake = 0
    /\ attempts = 0
    /\ status = "unknown"
    /\ result = "none"
    /\ acceptedSince = IF transactionStatus(node) \in accepted THEN 0 ELSE -1

-----------------------------------------------------------------------------
(* The world.                                                              *)

Tick ==
    /\ \/ phase \in {"request", "answered"} /\ now < asked + MaxLatency
       \/ phase = "sleep" /\ now < wake + MaxJitter
    /\ now' = now + 1
    /\ UNCHANGED <<node, accepted, phase, asked, wake, attempts, status, result, acceptedSince>>

NodeStep ==
    /\ phase # "done"
    /\ \E raw \in RawStatuses :
         /\ <<node, raw>> \in NodeSteps
         /\ node' = raw
    /\ acceptedSince' = IF transactionStatus(node') \notin accepted THEN -1
                        ELSE IF acceptedSince = -1 THEN now
                        ELSE acceptedSince
    /\ UNCHANGED <<accepted, now, phase, asked, wake, attempts, status, result>>

-----------------------------------------------------------------------------
(* The call.                                                               *)

Return(r) ==
    /\ phase' = "done"
    /\ result' = r
    /\ UNCHANGED <<node, accepted, now, asked, wake, attempts, status, acceptedSince>>

Ask ==
    /\ phase = "ask"
    /\ phase' = "request"
    /\ asked' = now
    /\ attempts' = attempts + 1
    /\ UNCHANGED <<node, accepted, now, wake, status, result, acceptedSince>>

(* The node looks at the transaction, then its answer travels back.        *)
Answer ==
    /\ phase = "request"
    /\ phase' = "answered"
    /\ status' = transactionStatus(node)
    /\ UNCHANGED <<node, accepted, now, asked, wake, attempts, result, acceptedSince>>
Receive ==
    /\ phase = "answered"
    /\ phase' = "decide"
    /\ UNCHANGED <<node, accepted, now, asked, wake, attempts, status, result, acceptedSince>>

(* fetch rejects, the response is not ok or holds an error: it is thrown.  *)
RequestFails ==
    /\ phase \in {"request", "answered"}
    /\ Return("error")

Accept ==
    /\ phase = "decide"
    /\ status \in accepted
    /\ Return("ok")

TimeOut_First ==
    /\ phase = "decide"
    /\ now >= timeoutMs
    /\ Return("timeout")
TimeOut_UnlessRejected ==
    /\ phase = "decide"
    /\ status \notin accepted \cup {"rejected"}
    /\ now >= timeoutMs
    /\ Return("timeout")
TimeOut ==
    /\ phase = "decide"
    /\ status \notin accepted
    /\ now >= timeoutMs
    /\ Return("timeout")

Sleep_OneMore ==
    /\ phase = "decide"
    /\ status \notin accepted
    /\ now <= timeoutMs
    /\ wake' = now + intervalMs
    /\ phase' = "sleep"
    /\ UNCHANGED <<node, accepted, now, asked, attempts, status, result, acceptedSince>>
Sleep_NotAwaited ==
    /\ phase = "decide"
    /\ status \notin accepted
    /\ now < timeoutMs
    /\ attempts < timeoutMs + 3
    /\ phase' = "ask"
    /\ UNCHANGED <<node, accepted, now, asked, wake, attempts, status, result, acceptedSince>>
Sleep ==
    /\ phase = "decide"
    /\ status \notin accepted
    /\ now < timeoutMs
    /\ wake' = now + intervalMs
    /\ phase' = "sleep"
    /\ UNCHANGED <<node, accepted, now, asked, attempts, status, result, acceptedSince>>

Wake ==
    /\ phase = "sleep"
    /\ now >= wake
    /\ phase' = "ask"
    /\ UNCHANGED <<node, accepted, now, asked, wake, attempts, status, result, acceptedSince>>

Step == Ask \/ Answer \/ Receive \/ RequestFails \/ Accept \/ TimeOut \/ Sleep \/ Wake

Next == Tick \/ NodeStep \/ Step

Spec == Init /\ [][Next]_vars

(* The event loop runs what it can, a request ends in an answer or an      *)
(* error, and time passes.                                                 *)
FairSpec == Spec /\ WF_vars(Step) /\ WF_vars(Tick)

-----------------------------------------------------------------------------
(* Type invariant.                                                         *)
TypeOK ==
    /\ node \in RawStatuses
    /\ accepted \in AcceptedStatuses
    /\ now \in Nat /\ asked \in Nat /\ wake \in Nat /\ attempts \in Nat
    /\ phase \in {"ask", "request", "answered", "decide", "sleep", "done"}
    /\ status \in Statuses
    /\ result \in {"none", "ok", "timeout", "error"}
    /\ acceptedSince \in Nat \cup {-1}

(* The wait reports a timeout only when there was nothing to see: if the   *)
(* node has been showing an accepted status since MaxLatency before the    *)
(* deadline, the last request found it, however the requests fell.         *)
StableAcceptanceIsSeen ==
    (result = "timeout" /\ acceptedSince # -1) => acceptedSince + MaxLatency >= timeoutMs

(* The call outlives its timeout by one sleep and one request at most: the *)
(* deadline is looked at after every answer, though only then.             *)
OverrunIsBounded ==
    \/ now <= MaxLatency
    \/ now < timeoutMs + intervalMs + MaxJitter + MaxLatency

(* The wallet asks at most once per interval: all attempts but the last    *)
(* two fit into the time before the deadline.                              *)
AttemptsAreSpaced ==
    /\ (attempts - 1) * intervalMs <= now
    /\ attempts > 1 => (attempts - 2) * intervalMs < timeoutMs

(* A wait ends, with an accepted status, a timeout or an error, also when  *)
(* the transaction is rejected or never heard of.                          *)
WaitEnds == <>(phase = "done")
==============================================================================
