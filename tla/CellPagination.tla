---------------------------- MODULE CellPagination ----------------------------
(***************************************************************************)
(* CkbRpcClient.getCells (sdk/src/wallet.ts): the live cells of a lock,    *)
(* read page by page from an indexer that goes on following the chain      *)
(* between two pages.                                                      *)
(*                                                                         *)
(* The indexer is external: it holds the blocks it has followed, answers a *)
(* page from the cells live in them, in the order of the chain, after the  *)
(* cursor, and undoes a block when the chain is reorganised.  A block      *)
(* spends some of the lock's cells and creates others; a cell created in a *)
(* block that was undone may be created again in a later one.              *)
(***************************************************************************)
EXTENDS Naturals, Sequences, FiniteSetsExt

CONSTANTS
    Cells,          \* out points of the lock, numbered by their place in a block
    limit,          \* cells per page
    MaxHeight,      \* blocks the chain grows to
    MaxRollbacks    \* blocks undone

ASSUME PageAssumption == limit \in Nat \ {0}
ASSUME CellsAssumption == Cells \subseteq Nat /\ IsFiniteSet(Cells)

VARIABLES
    height,         \* of the indexer
    createdAt,      \* the block that creates a cell, 0 if none has yet
    spentAt,        \* the block that spends it
    rollbacks,
    paging,         \* "idle", "ask", "done" or "failed"
    objects,        \* the cells collected so far
    cursor,         \* position of the last cell collected, 0 before the first
    stable,         \* history: cells live ever since the call began
    touched,        \* history: cells live at some time of the call
    undone          \* history: a block was undone during the call

indexer == <<height, createdAt, spentAt, rollbacks>>
call == <<paging, objects, cursor>>
history == <<stable, touched, undone>>
pagingVars == <<indexer, call, history>>

-----------------------------------------------------------------------------
(* The indexer.                                                            *)

Live == {c \in Cells : createdAt[c] # 0 /\ spentAt[c] = 0}

(* Where get_cells finds a cell: by block, then by its place in the block. *)
Width == Max(Cells) + 1
Position(c) == createdAt[c] * Width + c
InOrder(page) == \A i, j \in DOMAIN page : i < j => Position(page[i]) < Position(page[j])
LastCell(page) == page[Len(page)]

Watch ==
    /\ stable' = IF paging = "ask" THEN stable \cap Live' ELSE stable
    /\ touched' = IF paging = "ask" THEN touched \cup Live' ELSE touched

FollowChain ==
    /\ height < MaxHeight
    /\ height' = height + 1
    /\ \E spent \in SUBSET Live, created \in SUBSET {c \in Cells : createdAt[c] = 0} :
         /\ spentAt' = [c \in Cells |-> IF c \in spent THEN height' ELSE spentAt[c]]
         /\ createdAt' = [c \in Cells |-> IF c \in created THEN height' ELSE createdAt[c]]
    /\ Watch
    /\ UNCHANGED <<rollbacks, call, undone>>

Rollback ==
    /\ rollbacks < MaxRollbacks
    /\ height > 0
    /\ height' = height - 1
    /\ spentAt' = [c \in Cells |-> IF spentAt[c] = height THEN 0 ELSE spentAt[c]]
    /\ createdAt' = [c \in Cells |-> IF createdAt[c] = height THEN 0 ELSE createdAt[c]]
    /\ rollbacks' = rollbacks + 1
    /\ undone' = (undone \/ paging = "ask")
    /\ Watch
    /\ UNCHANGED call

(* The page after a cursor: the first cells found, as many as there are or *)
(* fit.  The set has one element.                                          *)
get_cells(after) ==
    LET found == {c \in Live : Position(c) > after}
    IN  {page \in UNION {[1..n -> found] : n \in 0..limit} :
           /\ InOrder(page)
           /\ Range(page) = found \/ Len(page) = limit
           /\ \A c \in found \ Range(page) : Position(LastCell(page)) < Position(c)}

-----------------------------------------------------------------------------
(* The client.                                                             *)

PagingInit ==
    /\ height = 0
    /\ createdAt = [c \in Cells |-> 0]
    /\ spentAt = [c \in Cells |-> 0]
    /\ rollbacks = 0
    /\ paging = "idle"
    /\ objects = <<>>
    /\ cursor = 0
    /\ stable = {}
    /\ touched = {}
    /\ undone = FALSE

Start ==
    /\ paging' = "ask"
    /\ objects' = <<>>
    /\ cursor' = 0
    /\ stable' = Live
    /\ touched' = Live
    /\ undone' = FALSE
    /\ UNCHANGED indexer

getCells == paging = "idle" /\ Start

NextPage_FirstOfPage ==
    /\ paging = "ask"
    /\ \E page \in get_cells(cursor) :
         /\ objects' = objects \o page
         /\ IF page = <<>>
            THEN paging' = "done" /\ UNCHANGED cursor
            ELSE cursor' = Position(Head(page)) /\ UNCHANGED paging
    /\ UNCHANGED <<indexer, history>>
NextPage_Overwrites ==
    /\ paging = "ask"
    /\ \E page \in get_cells(cursor) :
         IF page = <<>>
         THEN paging' = "done" /\ UNCHANGED <<objects, cursor>>
         ELSE objects' = page /\ cursor' = Position(LastCell(page)) /\ UNCHANGED paging
    /\ UNCHANGED <<indexer, history>>
(* A page that is not empty moves the cursor; the loop ends on an empty    *)
(* one, or one that leaves the cursor where it was.                        *)
NextPage ==
    /\ paging = "ask"
    /\ \E page \in get_cells(cursor) :
         /\ objects' = objects \o page
         /\ IF page = <<>> \/ Position(LastCell(page)) = cursor
            THEN paging' = "done" /\ UNCHANGED cursor
            ELSE cursor' = Position(LastCell(page)) /\ UNCHANGED paging
    /\ UNCHANGED <<indexer, history>>

(* The request fails: wrapIndexerError, and what was collected is dropped. *)
PageFails ==
    /\ paging = "ask"
    /\ paging' = "failed"
    /\ objects' = <<>>
    /\ UNCHANGED <<cursor, indexer, history>>

-----------------------------------------------------------------------------
(* A cell is collected twice only if the chain was reorganised under the   *)
(* call: blocks that arrive between two pages shift nothing.               *)
DuplicateOnlyByRollback == IsInjective(objects) \/ undone

(* getCells returns at least the cells that were live all along, and       *)
(* nothing that was not live at some time of the call.                     *)
CollectsTheStableCells ==
    paging = "done" => stable \subseteq Range(objects) /\ Range(objects) \subseteq touched

==============================================================================
