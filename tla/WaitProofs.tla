----------------------------- MODULE WaitProofs ------------------------------
(***************************************************************************)
(* The wallet's two waits: waitForTransactionConfirmation for any timeout, *)
(* interval, latency and jitter and any behaviour of the node, and         *)
(* waitForBalance with getCells, page by page, for any number of cells,    *)
(* any page size and any behaviour of the chain.                           *)
(***************************************************************************)
EXTENDS ConfirmationWait, FundingWait, FiniteSums

USE ZenonT(30)

-----------------------------------------------------------------------------
(* waitForTransactionConfirmation.                                         *)

InRequest == {"request", "answered", "decide"}

(* Where the clock can be at each place of the loop.                       *)
ClockInv ==
    /\ phase # "done" => result = "none"
    /\ phase = "ask" =>
         /\ attempts = 0 => now = 0
         /\ attempts > 0 => now < timeoutMs + intervalMs + MaxJitter
    /\ phase \in InRequest =>
         /\ attempts > 0
         /\ asked <= now /\ now <= asked + MaxLatency
         /\ asked = 0 \/ asked < timeoutMs + intervalMs + MaxJitter
    /\ phase = "sleep" =>
         /\ attempts > 0
         /\ wake < timeoutMs + intervalMs
         /\ now <= wake + MaxJitter
    /\ OverrunIsBounded

(* A sleep separates two attempts, and is only begun before the deadline.  *)
SpacingInv ==
    /\ phase = "ask" => attempts * intervalMs <= now
    /\ phase = "sleep" => attempts * intervalMs <= wake
    /\ phase \in {"ask", "sleep"} /\ attempts > 0 => (attempts - 1) * intervalMs < timeoutMs
    /\ AttemptsAreSpaced

(* What the last answer missed came after the request was sent.            *)
SightInv ==
    /\ acceptedSince # -1 <=> transactionStatus(node) \in accepted
    /\ acceptedSince <= now
    /\ (phase \in {"answered", "decide"} /\ status \notin accepted /\ acceptedSince # -1)
          => acceptedSince >= asked
    /\ StableAcceptanceIsSeen

IndInv == TypeOK /\ ClockInv /\ SpacingInv /\ SightInv

(* Products with the number of attempts and with its neighbours.           *)
LEMMA Products ==
    ASSUME NEW a \in Nat, NEW i \in Nat
    PROVE  /\ a * i \in Nat /\ (a - 1) * i \in Int /\ (a - 1) * i = a * i - i
           /\ (a + 1) * i = a * i + i
           /\ (a + 1 - 1) * i = a * i /\ (a + 1 - 2) * i = (a - 1) * i
           /\ (a - 2) * i \in Int
BY SMTT(30)

(* Whatever the node answers is read as one of the statuses.               *)
LEMMA StatusType == \A raw : transactionStatus(raw) \in Statuses
BY DEF transactionStatus, Statuses

(* The wait begins with its clock and its attempts at zero.                *)
LEMMA InitIndInv == Init => IndInv
<1> SUFFICES ASSUME Init PROVE IndInv
  OBVIOUS
<1>1. TypeOK
  BY DEF Init, TypeOK, Statuses
<1>2. ClockInv /\ SightInv
  BY TimesAssumption, SMTT(30) DEF Init, ClockInv, SightInv, InRequest, OverrunIsBounded,
     StableAcceptanceIsSeen
<1>3. SpacingInv
  BY TimesAssumption, SMTT(30) DEF Init, SpacingInv, AttemptsAreSpaced
<1> QED
  BY <1>1, <1>2, <1>3 DEF IndInv

(* Each step of the wait, of the node and of the clock keeps the invariant.*)
LEMMA StepIndInv == IndInv /\ [Next]_vars => IndInv'
<1> SUFFICES ASSUME IndInv, [Next]_vars PROVE IndInv'
  OBVIOUS
<1> USE TimesAssumption
<1>0. /\ TypeOK /\ ClockInv /\ SpacingInv /\ SightInv
      /\ attempts * intervalMs \in Nat /\ (attempts - 1) * intervalMs \in Int
      /\ (attempts - 2) * intervalMs \in Int
  BY Products DEF IndInv, TypeOK
<1>1. CASE Tick
  <2>1. TypeOK'
    BY <1>0, <1>1, SMTT(30) DEF Tick, TypeOK
  <2>2. ClockInv'
    BY <1>0, <1>1, SMTT(30) DEF Tick, TypeOK, ClockInv, InRequest, OverrunIsBounded
  <2>3. SpacingInv'
    BY <1>0, <1>1, SMTT(30) DEF Tick, TypeOK, SpacingInv, AttemptsAreSpaced
  <2>4. SightInv'
    BY <1>0, <1>1, SMTT(30) DEF Tick, TypeOK, SightInv, StableAcceptanceIsSeen, transactionStatus
  <2> QED
    BY <2>1, <2>2, <2>3, <2>4 DEF IndInv
<1>2. CASE NodeStep
  <2>1. TypeOK'
    BY <1>0, <1>2 DEF NodeStep, TypeOK
  <2>2. ClockInv'
    BY <1>0, <1>2 DEF NodeStep, TypeOK, ClockInv, InRequest, OverrunIsBounded
  <2>3. SpacingInv'
    BY <1>0, <1>2 DEF NodeStep, TypeOK, SpacingInv, AttemptsAreSpaced
  <2>4. SightInv'
    <3>1. result = "none"
      BY <1>0, <1>2 DEF NodeStep, ClockInv
    <3> QED
      BY <1>0, <1>2, <3>1, SMTT(30) DEF NodeStep, TypeOK, SightInv, StableAcceptanceIsSeen, ClockInv, InRequest
  <2> QED
    BY <2>1, <2>2, <2>3, <2>4 DEF IndInv
<1>3. CASE Ask
  <2>1. TypeOK'
    BY <1>0, <1>3, SMTT(30) DEF Ask, TypeOK
  <2>2. ClockInv'
    BY <1>0, <1>3, SMTT(30) DEF Ask, TypeOK, ClockInv, InRequest, OverrunIsBounded
  <2>3. SpacingInv'
    <3>1. /\ attempts \in Nat /\ attempts' = attempts + 1 /\ now' = now /\ now \in Nat
          /\ phase = "ask" /\ phase' = "request"
      BY <1>0, <1>3 DEF Ask, TypeOK
    <3>2. (attempts' - 1) * intervalMs = attempts * intervalMs
          /\ (attempts' - 2) * intervalMs = (attempts - 1) * intervalMs
      BY <3>1, Products, SMTT(30)
    <3>3. attempts * intervalMs <= now /\ (attempts > 0 => (attempts - 1) * intervalMs < timeoutMs)
      BY <1>0, <3>1 DEF SpacingInv
    <3> QED
      BY <1>0, <3>1, <3>2, <3>3, SMTT(30) DEF SpacingInv, AttemptsAreSpaced
  <2>4. SightInv'
    BY <1>0, <1>3 DEF Ask, TypeOK, SightInv, StableAcceptanceIsSeen
  <2> QED
    BY <2>1, <2>2, <2>3, <2>4 DEF IndInv
<1>4. CASE Answer
  <2>1. TypeOK'
    BY <1>0, <1>4, StatusType DEF Answer, TypeOK
  <2>2. ClockInv'
    BY <1>0, <1>4 DEF Answer, TypeOK, ClockInv, InRequest, OverrunIsBounded
  <2>3. SpacingInv'
    BY <1>0, <1>4 DEF Answer, TypeOK, SpacingInv, AttemptsAreSpaced
  <2>4. SightInv'
    BY <1>0, <1>4 DEF Answer, TypeOK, SightInv, StableAcceptanceIsSeen, ClockInv, InRequest
  <2> QED
    BY <2>1, <2>2, <2>3, <2>4 DEF IndInv
<1>5. CASE Receive
  <2>1. TypeOK'
    BY <1>0, <1>5, StatusType DEF Receive, TypeOK
  <2>2. ClockInv'
    BY <1>0, <1>5 DEF Receive, TypeOK, ClockInv, InRequest, OverrunIsBounded
  <2>3. SpacingInv'
    BY <1>0, <1>5 DEF Receive, TypeOK, SpacingInv, AttemptsAreSpaced
  <2>4. SightInv'
    BY <1>0, <1>5 DEF Receive, TypeOK, SightInv, StableAcceptanceIsSeen, ClockInv, InRequest
  <2> QED
    BY <2>1, <2>2, <2>3, <2>4 DEF IndInv
<1>6. ASSUME NEW r \in {"ok", "timeout", "error"}, Return(r),
             phase \in InRequest,
             r = "timeout" => phase = "decide" /\ status \notin accepted /\ now >= timeoutMs
      PROVE  IndInv'
  <2>1. TypeOK'
    BY <1>0, <1>6 DEF Return, TypeOK
  <2>2. ClockInv'
    BY <1>0, <1>6 DEF Return, TypeOK, ClockInv, InRequest, OverrunIsBounded
  <2>3. SpacingInv'
    BY <1>0, <1>6 DEF Return, TypeOK, SpacingInv, AttemptsAreSpaced
  <2>4. SightInv'
    BY <1>0, <1>6, SMTT(30) DEF Return, TypeOK, SightInv, StableAcceptanceIsSeen, ClockInv, InRequest
  <2> QED
    BY <2>1, <2>2, <2>3, <2>4 DEF IndInv
<1>7. CASE RequestFails \/ Accept \/ TimeOut
  BY <1>6, <1>7 DEF RequestFails, Accept, TimeOut, InRequest
<1>8. CASE Sleep
  <2>1. TypeOK'
    BY <1>0, <1>8, SMTT(30) DEF Sleep, TypeOK
  <2>2. ClockInv'
    BY <1>0, <1>8, SMTT(30) DEF Sleep, TypeOK, ClockInv, InRequest, OverrunIsBounded
  <2>3. SpacingInv'
    <3>1. attempts \in Nat /\ now \in Nat /\ attempts * intervalMs = (attempts - 1) * intervalMs + intervalMs
      BY <1>0, Products, SMTT(30) DEF TypeOK
    <3> QED
      BY <1>0, <1>8, <3>1, SMTT(30) DEF Sleep, SpacingInv, AttemptsAreSpaced
  <2>4. SightInv'
    BY <1>0, <1>8 DEF Sleep, TypeOK, SightInv, StableAcceptanceIsSeen
  <2> QED
    BY <2>1, <2>2, <2>3, <2>4 DEF IndInv
<1>9. CASE Wake
  <2>1. TypeOK'
    BY <1>0, <1>9, StatusType DEF Wake, TypeOK
  <2>2. ClockInv'
    BY <1>0, <1>9, SMTT(30) DEF Wake, TypeOK, ClockInv, InRequest, OverrunIsBounded
  <2>3. SpacingInv'
    BY <1>0, <1>9, SMTT(30) DEF Wake, TypeOK, SpacingInv, AttemptsAreSpaced
  <2>4. SightInv'
    BY <1>0, <1>9 DEF Wake, TypeOK, SightInv, StableAcceptanceIsSeen, ClockInv, InRequest
  <2> QED
    BY <2>1, <2>2, <2>3, <2>4 DEF IndInv
<1>10. CASE UNCHANGED vars
  BY <1>0, <1>10, SMTT(30) DEF vars, IndInv, TypeOK, ClockInv, SpacingInv, SightInv, InRequest,
     OverrunIsBounded, AttemptsAreSpaced, StableAcceptanceIsSeen
<1> QED
  BY <1>1, <1>2, <1>3, <1>4, <1>5, <1>7, <1>8, <1>9, <1>10 DEF Next, Step

(* The bounds on clock, attempts and sight hold all along the wait.        *)
LEMMA Invariance == Spec => []IndInv
BY InitIndInv, StepIndInv, PTL DEF Spec

(* waitForTransactionConfirmation times out only if the node showed no     *)
(* accepted status early enough for the last request to find it.           *)
THEOREM NothingStableIsMissed == Spec => []StableAcceptanceIsSeen
<1>1. IndInv => StableAcceptanceIsSeen
  BY DEF IndInv, SightInv
<1> QED
  BY <1>1, Invariance, PTL

(* waitForTransactionConfirmation lasts at most one interval and one       *)
(* request longer than its timeout.                                        *)
THEOREM OverrunBound == Spec => []OverrunIsBounded
<1>1. IndInv => OverrunIsBounded
  BY DEF IndInv, ClockInv
<1> QED
  BY <1>1, Invariance, PTL

(* waitForTransactionConfirmation makes at most one request per interval.  *)
THEOREM AttemptsBound == Spec => []AttemptsAreSpaced
<1>1. IndInv => AttemptsAreSpaced
  BY DEF IndInv, SpacingInv
<1> QED
  BY <1>1, Invariance, PTL

-----------------------------------------------------------------------------
(* getCells.                                                               *)

PagingType ==
    /\ height \in Nat
    /\ createdAt \in [Cells -> Nat] /\ spentAt \in [Cells -> Nat]
    /\ paging \in {"idle", "ask", "done", "failed"}
    /\ objects \in Seq(Cells) /\ cursor \in Nat
    /\ stable \subseteq Cells /\ touched \subseteq Cells
    /\ undone \in BOOLEAN

(* What a call of getCells has when it asks for the next page: all cells   *)
(* up to the cursor that stayed live and, as long as no block was undone,  *)
(* only cells up to the cursor.                                            *)
PagingInv ==
    /\ PagingType
    /\ paging = "ask" =>
         /\ stable \subseteq Live /\ Live \subseteq touched
         /\ \A c \in stable : Position(c) <= cursor => c \in Range(objects)
         /\ ~undone => \A c \in Range(objects) : createdAt[c] # 0 /\ Position(c) <= cursor
    /\ Range(objects) \subseteq touched
    /\ DuplicateOnlyByRollback
    /\ CollectsTheStableCells

(* Positions are numbers, that of a created cell is positive.              *)
LEMMA PositionType ==
    ASSUME PagingType, NEW c \in Cells
    PROVE  Position(c) \in Nat /\ (createdAt[c] # 0 => Position(c) > 0)
<1>1. PICK n \in Cells : \A m \in Cells : m <= n
  BY CellsAssumption, GreatestNumber
<1>2. \A m \in Cells : n >= m
  BY <1>1, CellsAssumption
<1>3. Max(Cells) \in Nat
  BY <1>2, CellsAssumption DEF Max
<1>4. Width \in Nat \ {0}
  <2>1. PICK k \in Nat : k = Max(Cells)
    BY <1>3
  <2>2. Width = k + 1
    BY <2>1 DEF Width
  <2> QED
    BY <2>2, SMTT(30)
<1>5. createdAt[c] \in Nat /\ c \in Nat
  BY CellsAssumption DEF PagingType
<1>6. createdAt[c] * Width \in Nat /\ (createdAt[c] # 0 => createdAt[c] * Width > 0)
  BY <1>4, <1>5, SMTT(30)
<1> QED
  BY <1>5, <1>6, SMTT(30) DEF Position

(* What get_cells answers: live cells after the cursor, in their order,    *)
(* and none is skipped.                                                    *)
LEMMA PageCells ==
    ASSUME PagingType, NEW page \in get_cells(cursor)
    PROVE  /\ page \in Seq(Cells) /\ DOMAIN page = 1 .. Len(page) /\ Len(page) \in Nat
           /\ \A i \in DOMAIN page : page[i] \in Live /\ Position(page[i]) > cursor
           /\ InOrder(page)
           /\ page = <<>> => \A c \in Live : ~(Position(c) > cursor)
           /\ page # <<>> =>
                /\ LastCell(page) \in Live /\ Position(LastCell(page)) > cursor
                /\ \A i \in DOMAIN page : Position(page[i]) <= Position(LastCell(page))
                /\ \A c \in Live : /\ Position(c) > cursor
                                   /\ Position(c) <= Position(LastCell(page))
                                   => c \in Range(page)
<1> DEFINE found == {c \in Live : Position(c) > cursor}
<1>1. PICK m \in Nat : page \in [1 .. m -> found]
  BY PageAssumption, SMTT(30) DEF get_cells
<1>2. /\ InOrder(page)
      /\ Range(page) = found \/ Len(page) = limit
      /\ \A c \in found \ Range(page) : Position(LastCell(page)) < Position(c)
  BY DEF get_cells
<1>3. found \subseteq Live /\ Live \subseteq Cells
  BY DEF Live
<1>4. page \in Seq(Cells) /\ Len(page) = m /\ DOMAIN page = 1 .. m
  BY <1>1, <1>3, SMTT(30)
<1>5. \A i \in DOMAIN page : page[i] \in Live /\ Position(page[i]) > cursor
  BY <1>1
<1>6. ASSUME page = <<>> PROVE \A c \in Live : ~(Position(c) > cursor)
  <2>1. Len(page) = 0 /\ Range(page) = {}
    BY <1>6, SMTT(30) DEF Range
  <2>2. found = {}
    BY <1>2, <2>1, PageAssumption
  <2> QED
    BY <2>2
<1>7. ASSUME page # <<>>
      PROVE  /\ LastCell(page) \in Live /\ Position(LastCell(page)) > cursor
             /\ \A i \in DOMAIN page : Position(page[i]) <= Position(LastCell(page))
             /\ \A c \in Live : /\ Position(c) > cursor
                                /\ Position(c) <= Position(LastCell(page))
                                => c \in Range(page)
  <2>1. m \in DOMAIN page /\ LastCell(page) = page[m]
    BY <1>4, <1>7, SMTT(30) DEF LastCell
  <2>2. \A c \in Live : Position(c) \in Nat
    BY <1>3, PositionType
  <2>3. ASSUME NEW i \in DOMAIN page PROVE Position(page[i]) <= Position(LastCell(page))
    <3>1. i < m \/ i = m
      BY <1>4, SMTT(30)
    <3> QED
      BY <1>2, <1>5, <2>1, <2>2, <3>1, SMTT(30) DEF InOrder
  <2>4. ASSUME NEW c \in Live, Position(c) > cursor, Position(c) <= Position(LastCell(page))
        PROVE  c \in Range(page)
    BY <1>2, <1>5, <2>1, <2>2, <2>4, SMTT(30)
  <2> QED
    BY <1>5, <2>1, <2>3, <2>4
<1> QED
  BY <1>2, <1>4, <1>5, <1>6, <1>7

(* A block arrives or is undone: cells that stay live keep their places,   *)
(* and so do all created ones unless a block is undone.                    *)
LEMMA WorldPaging ==
    ASSUME PagingInv, FollowChain \/ Rollback
    PROVE  PagingInv'
<1>1. PagingType
  BY DEF PagingInv
<1>2. UNCHANGED <<paging, objects, cursor>> /\ Watch
  BY DEF FollowChain, Rollback, call
<1>3. height' \in Nat /\ createdAt' \in [Cells -> Nat] /\ spentAt' \in [Cells -> Nat]
  <2>1. CASE FollowChain
    BY <1>1, <2>1, SMTT(30) DEF FollowChain, PagingType
  <2>2. CASE Rollback
    BY <1>1, <2>2, SMTT(30) DEF Rollback, PagingType
  <2> QED
    BY <2>1, <2>2
<1>4. undone' \in BOOLEAN /\ (undone => undone')
      /\ (paging = "ask" /\ ~undone' => \A c \in Cells : createdAt[c] # 0 => createdAt'[c] = createdAt[c])
  <2>1. CASE FollowChain
    BY <1>1, <2>1 DEF FollowChain, PagingType
  <2>2. CASE Rollback
    BY <1>1, <2>2 DEF Rollback, PagingType
  <2> QED
    BY <2>1, <2>2
<1>5. \A c \in Cells : c \in Live /\ c \in Live' => createdAt'[c] = createdAt[c]
  <2>1. CASE FollowChain
    BY <1>1, <2>1 DEF FollowChain, Live, PagingType
  <2>2. CASE Rollback
    BY <1>1, <2>2 DEF Rollback, Live, PagingType
  <2> QED
    BY <2>1, <2>2
<1>6. \A c \in Cells : createdAt'[c] = createdAt[c] => Position(c)' = Position(c)
  BY DEF Position
<1>7. stable' \subseteq stable /\ touched \subseteq touched' /\ touched' \subseteq Cells
  <2>1. Live' \subseteq Cells
    BY DEF Live
  <2>2. stable' \in {stable, stable \cap Live'} /\ touched' \in {touched, touched \cup Live'}
    BY <1>2 DEF Watch
  <2> QED
    BY <1>1, <2>1, <2>2 DEF PagingType
<1>8. PagingType'
  BY <1>1, <1>2, <1>3, <1>4, <1>7 DEF PagingType
<1>9. ASSUME paging' = "ask"
      PROVE  /\ stable' \subseteq Live' /\ Live' \subseteq touched'
             /\ \A c \in stable' : Position(c)' <= cursor' => c \in Range(objects')
             /\ ~undone' => \A c \in Range(objects') : createdAt'[c] # 0 /\ Position(c)' <= cursor'
  <2>1. stable' = stable \cap Live' /\ Live' \subseteq touched' /\ stable \subseteq Live
    BY <1>2, <1>9 DEF Watch, PagingInv
  <2>2. ASSUME NEW c \in stable', Position(c)' <= cursor' PROVE c \in Range(objects')
    <3>1. c \in Cells /\ c \in Live /\ c \in Live' /\ c \in stable
      BY <2>1 DEF Live
    <3>2. Position(c)' = Position(c)
      BY <1>5, <1>6, <3>1
    <3> QED
      BY <1>2, <1>9, <2>2, <3>1, <3>2 DEF PagingInv
  <2>3. ASSUME ~undone', NEW c \in Range(objects')
        PROVE  createdAt'[c] # 0 /\ Position(c)' <= cursor'
    <3>1. c \in Cells /\ createdAt[c] # 0 /\ Position(c) <= cursor
      BY <1>1, <1>2, <1>4, <1>9, <2>3 DEF PagingInv, PagingType, Range
    <3> QED
      BY <1>2, <1>4, <1>6, <1>9, <2>3, <3>1
  <2> QED
    BY <2>1, <2>2, <2>3
<1>10. Range(objects') \subseteq touched' /\ DuplicateOnlyByRollback'
  BY <1>2, <1>4, <1>7 DEF PagingInv, DuplicateOnlyByRollback
<1>11. CollectsTheStableCells'
  BY <1>2, <1>7 DEF PagingInv, CollectsTheStableCells
<1> QED
  BY <1>8, <1>9, <1>10, <1>11 DEF PagingInv

(* A page is added to what was collected.                                  *)
LEMMA NextPagePaging ==
    ASSUME PagingInv, NextPage
    PROVE  PagingInv'
<1>1. PagingType /\ paging = "ask"
  BY DEF PagingInv, NextPage
<1>2. PICK page \in get_cells(cursor) :
        /\ objects' = objects \o page
        /\ IF page = <<>> \/ Position(LastCell(page)) = cursor
           THEN paging' = "done" /\ UNCHANGED cursor
           ELSE cursor' = Position(LastCell(page)) /\ UNCHANGED paging
  BY DEF NextPage
<1>3. UNCHANGED <<height, createdAt, spentAt, stable, touched, undone>>
  BY DEF NextPage, indexer, history
<1>4. /\ page \in Seq(Cells) /\ DOMAIN page = 1 .. Len(page) /\ Len(page) \in Nat
      /\ \A i \in DOMAIN page : page[i] \in Live /\ Position(page[i]) > cursor
      /\ InOrder(page)
  BY <1>1, PageCells
<1>5. /\ page = <<>> => \A c \in Live : ~(Position(c) > cursor)
      /\ page # <<>> =>
           /\ LastCell(page) \in Live /\ Position(LastCell(page)) > cursor
           /\ \A i \in DOMAIN page : Position(page[i]) <= Position(LastCell(page))
           /\ \A c \in Live : /\ Position(c) > cursor
                              /\ Position(c) <= Position(LastCell(page))
                              => c \in Range(page)
  BY <1>1, PageCells
<1>6. cursor \in Nat /\ Live \subseteq Cells /\ \A c \in Cells : Position(c) \in Nat
  BY <1>1, PositionType DEF PagingType, Live
<1>7. /\ Live' = Live /\ \A c \in Cells : Position(c)' = Position(c)
      /\ \A c \in Cells : createdAt'[c] = createdAt[c]
  BY <1>3 DEF Live, Position
<1>8. /\ objects \in Seq(Cells) /\ Len(objects) \in Nat /\ DOMAIN objects = 1 .. Len(objects)
      /\ objects' \in Seq(Cells) /\ DOMAIN objects' = 1 .. (Len(objects) + Len(page))
      /\ \A i \in 1 .. Len(objects) : objects'[i] = objects[i]
      /\ \A i \in 1 .. Len(page) : objects'[Len(objects) + i] = page[i]
  BY <1>1, <1>2, <1>4, SMTT(30) DEF PagingType
<1>9. ASSUME NEW k \in DOMAIN objects'
      PROVE  \/ k \in DOMAIN objects /\ objects'[k] = objects[k]
             \/ \E i \in DOMAIN page : k = Len(objects) + i /\ objects'[k] = page[i]
  <2>1. CASE k <= Len(objects)
    BY <1>8, <2>1, SMTT(30)
  <2>2. CASE ~(k <= Len(objects))
    <3>1. k - Len(objects) \in 1 .. Len(page) /\ k = Len(objects) + (k - Len(objects))
      BY <1>4, <1>8, <2>2, SMTT(30)
    <3> QED
      BY <1>4, <1>8, <3>1
  <2> QED
    BY <2>1, <2>2
<1>10. Range(objects') = Range(objects) \cup Range(page)
  <2>1. Range(objects') \subseteq Range(objects) \cup Range(page)
    BY <1>9 DEF Range
  <2>2. \A i \in DOMAIN objects : i \in DOMAIN objects'
    BY <1>4, <1>8, SMTT(30)
  <2>3. \A i \in DOMAIN page : Len(objects) + i \in DOMAIN objects'
    BY <1>4, <1>8, SMTT(30)
  <2>4. Range(objects) \subseteq Range(objects')
    BY <1>8, <2>2 DEF Range
  <2>5. Range(page) \subseteq Range(objects')
    BY <1>4, <1>8, <2>3, SMTT(30) DEF Range
  <2> QED
    BY <2>1, <2>4, <2>5
<1>11. CASE page = <<>>
  <2>1. paging' = "done" /\ cursor' = cursor /\ Range(page) = {} /\ Len(page) = 0
    BY <1>2, <1>11, SMTT(30) DEF Range
  <2>2. PagingType'
    BY <1>1, <1>3, <1>8, <2>1 DEF PagingType
  <2>3. stable \subseteq Range(objects)
    BY <1>1, <1>5, <1>6, <1>11, SMTT(30) DEF PagingInv
  <2>4. objects' = objects
    BY <1>2, <1>8, <1>11, SMTT(30)
  <2> QED
    BY <1>3, <2>1, <2>2, <2>3, <2>4 DEF PagingInv, DuplicateOnlyByRollback, CollectsTheStableCells
<1>12. CASE page # <<>>
  <2>1. Position(LastCell(page)) # cursor /\ Position(LastCell(page)) \in Nat
    BY <1>5, <1>6, <1>12, SMTT(30)
  <2>2. paging' = "ask" /\ cursor' = Position(LastCell(page)) /\ cursor' > cursor
    BY <1>1, <1>2, <1>5, <1>12, <2>1
  <2>3. PagingType'
    BY <1>1, <1>3, <1>8, <2>1, <2>2 DEF PagingType
  <2>4. stable' \subseteq Live' /\ Live' \subseteq touched'
    BY <1>1, <1>3, <1>7 DEF PagingInv
  <2>5. ASSUME NEW c \in stable', Position(c)' <= cursor' PROVE c \in Range(objects')
    <3>1. c \in stable /\ c \in Live /\ c \in Cells /\ Position(c)' = Position(c)
      BY <1>3, <1>6, <1>7, <2>4
    <3>2. CASE Position(c) > cursor
      BY <1>5, <1>10, <1>12, <2>2, <2>5, <3>1, <3>2
    <3>3. CASE ~(Position(c) > cursor)
      <4>1. Position(c) <= cursor
        BY <1>6, <3>1, <3>3, SMTT(30)
      <4> QED
        BY <1>1, <1>10, <3>1, <4>1 DEF PagingInv
    <3> QED
      BY <3>2, <3>3
  <2>6. ASSUME ~undone', NEW c \in Range(objects')
        PROVE  createdAt'[c] # 0 /\ Position(c)' <= cursor'
    <3>1. CASE c \in Range(objects)
      <4>1. c \in Cells /\ createdAt[c] # 0 /\ Position(c) <= cursor
        BY <1>1, <1>3, <2>6, <3>1 DEF PagingInv, PagingType, Range
      <4> QED
        BY <1>6, <1>7, <2>1, <2>2, <4>1, SMTT(30)
    <3>2. CASE c \in Range(page)
      <4>1. PICK i \in DOMAIN page : c = page[i]
        BY <3>2 DEF Range
      <4> QED
        BY <1>4, <1>5, <1>6, <1>7, <1>12, <2>2, <4>1 DEF Live
    <3> QED
      BY <1>10, <3>1, <3>2
  <2>7. Range(objects') \subseteq touched'
    <3>1. Range(page) \subseteq Live
      BY <1>4 DEF Range
    <3> QED
      BY <1>1, <1>3, <1>10, <3>1 DEF PagingInv
  <2>8. DuplicateOnlyByRollback'
    <3> SUFFICES ASSUME ~undone', NEW a \in DOMAIN objects', NEW b \in DOMAIN objects',
                        objects'[a] = objects'[b]
                 PROVE  a = b
      BY DEF DuplicateOnlyByRollback, IsInjective
    <3>1. /\ \A i, j \in DOMAIN objects : objects[i] = objects[j] => i = j
          /\ \A i \in DOMAIN objects : objects[i] \in Cells /\ Position(objects[i]) <= cursor
      BY <1>1, <1>3, <1>8, SMTT(30) DEF PagingInv, DuplicateOnlyByRollback, IsInjective, Range
    <3>2. \A i, j \in DOMAIN page : page[i] = page[j] => i = j
      <4> SUFFICES ASSUME NEW i \in DOMAIN page, NEW j \in DOMAIN page, page[i] = page[j]
                   PROVE  i = j
        OBVIOUS
      <4>1. Position(page[i]) = Position(page[j]) /\ Position(page[i]) \in Nat
        BY <1>4, <1>6
      <4>2. ~(i < j) /\ ~(j < i)
        BY <1>4, <4>1, SMTT(30) DEF InOrder
      <4> QED
        BY <1>4, <4>2, SMTT(30)
    <3>3. \A i \in DOMAIN objects, j \in DOMAIN page : objects[i] # page[j]
      <4> SUFFICES ASSUME NEW i \in DOMAIN objects, NEW j \in DOMAIN page, objects[i] = page[j]
                   PROVE  FALSE
        OBVIOUS
      <4>1. Position(objects[i]) <= cursor /\ Position(objects[i]) > cursor /\ Position(objects[i]) \in Nat
        BY <1>4, <1>6, <3>1
      <4> QED
        BY <1>6, <4>1, SMTT(30)
    <3> QED
      BY <1>9, <3>1, <3>2, <3>3
  <2>9. CollectsTheStableCells'
    BY <2>2 DEF CollectsTheStableCells
  <2> QED
    BY <2>3, <2>4, <2>5, <2>6, <2>7, <2>8, <2>9 DEF PagingInv
<1> QED
  BY <1>11, <1>12

(* A call begins with nothing, the first position is still to come.        *)
LEMMA StartPaging ==
    ASSUME PagingInv, Start
    PROVE  PagingInv'
<1>1. /\ PagingType /\ paging' = "ask" /\ objects' = <<>> /\ cursor' = 0
      /\ stable' = Live /\ touched' = Live /\ undone' = FALSE
      /\ UNCHANGED <<height, createdAt, spentAt>>
  BY DEF PagingInv, Start, indexer
<1>2. Live' = Live /\ Live \subseteq Cells /\ \A c \in Cells : Position(c)' = Position(c)
  BY <1>1 DEF Live, Position
<1>3. Range(objects') = {} /\ IsInjective(objects')
  BY <1>1, SMTT(30) DEF Range, IsInjective
<1>4. \A c \in Live : ~(Position(c) <= 0)
  BY <1>1, <1>2, PositionType, SMTT(30) DEF Live
<1>5. PagingType'
  <2>1. objects' \in Seq(Cells)
    BY <1>1, SMTT(30)
  <2>2. Live \in SUBSET Cells /\ stable' = Live /\ touched' = Live
    BY <1>1, <1>2
  <2> QED
    BY <1>1, <2>1, <2>2 DEF PagingType
<1>6. /\ stable' \subseteq Live' /\ Live' \subseteq touched'
      /\ \A c \in stable' : Position(c)' <= cursor' => c \in Range(objects')
  BY <1>1, <1>2, <1>4
<1>7. DuplicateOnlyByRollback' /\ CollectsTheStableCells'
  BY <1>1, <1>3 DEF DuplicateOnlyByRollback, CollectsTheStableCells
<1> QED
  BY <1>3, <1>5, <1>6, <1>7 DEF PagingInv

(* A request that fails drops what was collected.                          *)
LEMMA FailPaging ==
    ASSUME PagingInv, PageFails
    PROVE  PagingInv'
<1>1. /\ PagingType /\ paging' = "failed" /\ objects' = <<>>
      /\ UNCHANGED <<cursor, height, createdAt, spentAt, stable, touched, undone>>
  BY DEF PagingInv, PageFails, indexer, history
<1>2. Range(objects') = {} /\ IsInjective(objects')
  BY <1>1, SMTT(30) DEF Range, IsInjective
<1>3. PagingType'
  BY <1>1, SMTT(30) DEF PagingType
<1> QED
  BY <1>1, <1>2, <1>3 DEF PagingInv, DuplicateOnlyByRollback, CollectsTheStableCells

(* The wait leaves the pages alone.                                        *)
LEMMA UnchangedPaging ==
    ASSUME PagingInv, UNCHANGED pagingVars
    PROVE  PagingInv'
<1>1. UNCHANGED <<height, createdAt, spentAt, paging, objects, cursor, stable, touched, undone>>
  BY DEF pagingVars, indexer, call, history
<1>2. Live' = Live /\ \A c \in Cells : Position(c)' = Position(c)
  BY <1>1 DEF Live, Position
<1>3. PagingType' /\ stable \subseteq Cells
  BY <1>1 DEF PagingInv, PagingType
<1>4. \A c \in Range(objects) : c \in Cells
  BY DEF PagingInv, PagingType, Range
<1> QED
  BY <1>1, <1>2, <1>3, <1>4 DEF PagingInv, DuplicateOnlyByRollback, CollectsTheStableCells

(* Before the call nothing is collected.                                   *)
LEMMA InitPaging == WaitInit => PagingInv
<1> SUFFICES ASSUME WaitInit PROVE PagingInv
  OBVIOUS
<1>1. PagingInit
  BY DEF WaitInit
<1>2. Range(objects) = {} /\ IsInjective(objects)
  BY <1>1, SMTT(30) DEF PagingInit, Range, IsInjective
<1>3. PagingType
  <2>1. objects \in Seq(Cells) /\ cursor \in Nat /\ height \in Nat
    BY <1>1, SMTT(30) DEF PagingInit
  <2>2. /\ createdAt \in [Cells -> Nat] /\ spentAt \in [Cells -> Nat]
        /\ stable \subseteq Cells /\ touched \subseteq Cells
    BY <1>1 DEF PagingInit
  <2>3. undone \in BOOLEAN /\ paging \in {"idle", "ask", "done", "failed"}
    BY <1>1 DEF PagingInit
  <2> QED
    BY <2>1, <2>2, <2>3 DEF PagingType
<1>4. paging = "idle"
  BY <1>1 DEF PagingInit
<1>5. DuplicateOnlyByRollback /\ CollectsTheStableCells
  BY <1>2, <1>4 DEF DuplicateOnlyByRollback, CollectsTheStableCells
<1> QED
  BY <1>2, <1>3, <1>4, <1>5 DEF PagingInv

(* Every step of the wait and of its surroundings keeps the invariant.     *)
LEMMA StepPaging == PagingInv /\ [WaitNext]_allVars => PagingInv'
<1> SUFFICES ASSUME PagingInv, [WaitNext]_allVars PROVE PagingInv'
  OBVIOUS
<1>1. CASE World
  BY <1>1, WorldPaging DEF World
<1>2. CASE Page
  BY <1>2, NextPagePaging, FailPaging DEF Page
<1>3. CASE Poll \/ Resume
  BY <1>3, StartPaging DEF Poll, getCells, Resume
<1>4. CASE Expire \/ Report \/ BalanceTimeOut \/ Pause \/ Fail \/ UNCHANGED allVars
  <2>1. UNCHANGED pagingVars
    BY <1>4 DEF Expire, Report, BalanceTimeOut, Pause, Fail, Settle, allVars
  <2> QED
    BY <2>1, UnchangedPaging
<1> QED
  BY <1>1, <1>2, <1>3, <1>4 DEF WaitNext, Client

(* getCells collects a cell twice only when a block was undone under it,   *)
(* however the blocks and the requests for pages interleave.               *)
THEOREM PagesOverlapOnlyByRollback == WaitSpec => []DuplicateOnlyByRollback
<1>1. PagingInv => DuplicateOnlyByRollback
  BY DEF PagingInv
<1> QED
  BY <1>1, InitPaging, StepPaging, PTL DEF WaitSpec

(* getCells misses no cell that was live all along and invents none, also  *)
(* when blocks are undone between its pages.                               *)
THEOREM PagesCoverStableCells == WaitSpec => []CollectsTheStableCells
<1>1. PagingInv => CollectsTheStableCells
  BY DEF PagingInv
<1> QED
  BY <1>1, InitPaging, StepPaging, PTL DEF WaitSpec

-----------------------------------------------------------------------------
(* The capacity of a set of cells is the sum of theirs.                    *)
LEMMA HeldLaws ==
    \E sum : /\ SumsOver(sum, [c \in Cells |-> capacity(c)], Cells)
            /\ \A T \in SUBSET Cells : CapacityHeld(T) = sum[T]
<1> DEFINE g == [c \in Cells |-> capacity(c)]
<1>1. IsFiniteSet(Cells) /\ \A c \in Cells : g[c] = capacity(c) /\ g[c] \in Nat
  BY CellsAssumption, FundsAssumption
<1> HIDE DEF g
<1>2. PICK sum : SumsOver(sum, g, Cells)
  BY <1>1, SumLaws
<1>3. ASSUME NEW T \in SUBSET Cells PROVE CapacityHeld(T) = sum[T]
  <2> DEFINE F(h) == [s \in SUBSET T |-> IF s = {} THEN 0 ELSE capacity(First(s)) + h[s \ {First(s)}]]
             G(h) == [s \in SUBSET T |-> IF s = {} THEN 0 ELSE g[First(s)] + h[s \ {First(s)}]]
  <2>1. \A s \in SUBSET T : s # {} => capacity(First(s)) = g[First(s)]
    BY <1>1, FirstIn
  <2>2. \A h : F(h) = G(h)
    BY <2>1
  <2>3. CapacityHeld(T) = (CHOOSE h : h = F(h))[T]
    BY DEF CapacityHeld, MapThenSumSet, MapThenFoldSet, First
  <2>4. \A h : IsSum(h, g, T) <=> h = G(h)
    BY DEF IsSum
  <2> HIDE DEF F, G
  <2> DEFINE k == CHOOSE h : h = F(h)
  <2>5. k = F(k)
    BY <1>2, <2>2, <2>4 DEF SumsOver
  <2> HIDE DEF k
  <2>6. IsSum(k, g, T)
    BY <2>2, <2>4, <2>5
  <2> QED
    BY <1>2, <2>3, <2>6 DEF k, SumsOver
<1> QED
  BY <1>2, <1>3 DEF g

(* What getBalanceSummary adds up is at least what the cells of the list   *)
(* hold, and exactly that when none is in it twice.                        *)
LEMMA TotalLaws ==
    ASSUME objects \in Seq(Cells)
    PROVE  /\ totalCapacity \in Nat
           /\ CapacityHeld(Range(objects)) <= totalCapacity
           /\ IsInjective(objects) => CapacityHeld(Range(objects)) = totalCapacity
           /\ \A T \in SUBSET Cells : /\ CapacityHeld(T) \in Nat
                                      /\ \A U \in SUBSET T : CapacityHeld(U) <= CapacityHeld(T)
<1> DEFINE g == [c \in Cells |-> capacity(c)]
           I == DOMAIN objects
           h == [i \in I |-> capacity(objects[i])]
<1>1. /\ IsFiniteSet(I) /\ objects \in [I -> Cells]
      /\ \A c \in Cells : g[c] = capacity(c) /\ g[c] \in Nat
      /\ \A i \in I : h[i] = capacity(objects[i]) /\ h[i] = g[objects[i]] /\ h[i] \in Nat
  <2>1. I = 1 .. Len(objects) /\ Len(objects) \in Nat /\ \A i \in I : objects[i] \in Cells
    BY SMTT(30)
  <2>2. IsFiniteSet(I)
    BY <2>1, FS_Interval, SMTT(30)
  <2> QED
    BY <2>1, <2>2, FundsAssumption, SMTT(30)
<1>2. PICK sum : SumsOver(sum, g, Cells) /\ \A T \in SUBSET Cells : CapacityHeld(T) = sum[T]
  BY HeldLaws
<1> HIDE DEF g, h
<1>3. PICK total : SumsOver(total, h, I)
  BY <1>1, SumLaws
<1>4. totalCapacity = total[I]
  <2> DEFINE F(k) == [s \in SUBSET I |-> IF s = {} THEN 0 ELSE capacity(objects[First(s)]) + k[s \ {First(s)}]]
             G(k) == [s \in SUBSET I |-> IF s = {} THEN 0 ELSE h[First(s)] + k[s \ {First(s)}]]
  <2>1. \A s \in SUBSET I : s # {} => capacity(objects[First(s)]) = h[First(s)]
    BY <1>1, FirstIn
  <2>2. \A k : F(k) = G(k)
    BY <2>1
  <2>3. totalCapacity = (CHOOSE k : k = F(k))[I]
    BY DEF totalCapacity, FoldFunction, FoldFunctionOnSet, MapThenFoldSet, First
  <2>4. \A k : IsSum(k, h, I) <=> k = G(k)
    BY DEF IsSum
  <2>5. I \in SUBSET I
    OBVIOUS
  <2> HIDE DEF F, G, I
  <2> DEFINE k0 == CHOOSE k : k = F(k)
  <2>6. k0 = F(k0)
    BY <1>3, <2>2, <2>4, <2>5 DEF SumsOver
  <2> HIDE DEF k0
  <2>7. IsSum(k0, h, I)
    BY <2>2, <2>4, <2>6
  <2> QED
    BY <1>3, <2>3, <2>5, <2>7 DEF k0, SumsOver
<1>5. /\ sum[{objects[i] : i \in I}] <= total[I]
      /\ IsInjective(objects) => sum[{objects[i] : i \in I}] = total[I]
  <2>1. I \in SUBSET I
    OBVIOUS
  <2>2. SumsOver(sum, g, Cells) /\ SumsOver(total, h, I)
    BY <1>2, <1>3
  <2>3. /\ IsFiniteSet(I) /\ objects \in [I -> Cells]
        /\ \A c \in Cells : g[c] \in Nat
        /\ \A i \in I : h[i] = g[objects[i]]
    BY <1>1
  <2> HIDE DEF I
  <2>4. IsSumOfValues(total, sum, objects, g, I, Cells)
    BY <2>2, <2>3 DEF IsSumOfValues
  <2>5. \A J \in SUBSET I : /\ sum[{objects[i] : i \in J}] <= total[J]
                            /\ IsInjective(objects) => sum[{objects[i] : i \in J}] = total[J]
    BY <2>4, SumOfImage, SMTT(30)
  <2> QED
    BY <2>1, <2>5
<1>6. Range(objects) = {objects[i] : i \in I} /\ Range(objects) \in SUBSET Cells /\ total[I] \in Nat
  BY <1>1, <1>3 DEF Range, SumsOver
<1>7. ASSUME NEW T \in SUBSET Cells
      PROVE  CapacityHeld(T) \in Nat /\ \A U \in SUBSET T : CapacityHeld(U) <= CapacityHeld(T)
  BY <1>2 DEF SumsOver
<1> QED
  BY <1>2, <1>4, <1>5, <1>6, <1>7

(* The answer of the wait was right when it was given, and what it is      *)
(* about does not change any more.                                         *)
FundsInv ==
    /\ threshold \in Nat
    /\ wait \in {"ok", "balance_wait_timeout", "sleep"} => paging = "done"
    /\ AnswerMeansFunds

(* A step of the wait keeps the answer right.                              *)
LEMMA StepFunds == PagingInv /\ FundsInv /\ [WaitNext]_allVars => FundsInv'
<1> SUFFICES ASSUME PagingInv, FundsInv, [WaitNext]_allVars PROVE FundsInv'
  OBVIOUS
<1>1. objects \in Seq(Cells) /\ stable \in SUBSET Cells /\ touched \in SUBSET Cells /\ threshold \in Nat
  BY DEF PagingInv, PagingType, FundsInv
<1>2. ASSUME UNCHANGED <<threshold, wait, stable, touched, undone>>, paging = "done" => paging' = "done"
      PROVE  FundsInv'
  BY <1>2 DEF FundsInv, AnswerMeansFunds
<1>3. CASE World
  <2>1. UNCHANGED <<threshold, wait, paging>> /\ Watch /\ (FollowChain \/ Rollback)
    BY <1>3 DEF World, FollowChain, Rollback, waitVars, call
  <2>2. CASE paging = "done"
    <3>1. UNCHANGED <<stable, touched, undone>>
      BY <2>1, <2>2 DEF Watch, FollowChain, Rollback, PagingInv, PagingType
    <3> QED
      BY <1>2, <2>1, <3>1
  <2>3. CASE paging # "done"
    BY <2>1, <2>3 DEF FundsInv, AnswerMeansFunds
  <2> QED
    BY <2>2, <2>3
<1>4. CASE Page
  <2>1. paging = "ask" /\ UNCHANGED <<threshold, wait>>
    BY <1>4 DEF Page, NextPage, PageFails, waitVars
  <2> QED
    BY <2>1 DEF FundsInv, AnswerMeansFunds
<1>5. CASE Poll \/ Resume
  <2>1. wait' = "poll" /\ threshold' = threshold
    BY <1>5 DEF Poll, Resume, waitVars
  <2> QED
    BY <2>1 DEF FundsInv, AnswerMeansFunds
<1>6. CASE Expire \/ UNCHANGED allVars
  <2>1. UNCHANGED <<threshold, wait, paging, stable, touched, undone>>
    BY <1>6 DEF Expire, allVars, waitVars, pagingVars, call, history
  <2> QED
    BY <1>2, <2>1
<1>7. ASSUME Settle(wait')
      PROVE  UNCHANGED <<threshold, objects, paging, stable, touched, undone>>
             /\ \A T : CapacityHeld(T)' = CapacityHeld(T)
  BY <1>7 DEF Settle, pagingVars, call, history
<1>8. CASE Report
  <2>1. wait' = "ok" /\ Settle(wait') /\ paging = "done" /\ totalCapacity >= threshold /\ Len(objects) > 0
    BY <1>8 DEF Report, Settle, Funded, liveCells
  <2>2. ASSUME ~undone PROVE CapacityHeld(touched) >= threshold /\ touched # {}
    <3>1. IsInjective(objects) /\ Range(objects) \subseteq touched
      BY <2>2 DEF PagingInv, DuplicateOnlyByRollback
    <3>2. Range(objects) # {}
      <4>1. 1 \in DOMAIN objects
        BY <1>1, <2>1, SMTT(30)
      <4> QED
        BY <4>1 DEF Range
    <3>3. CapacityHeld(Range(objects)) = totalCapacity /\ totalCapacity \in Nat
      BY <1>1, <3>1, TotalLaws
    <3>4. CapacityHeld(Range(objects)) <= CapacityHeld(touched) /\ CapacityHeld(touched) \in Nat
      BY <1>1, <3>1, TotalLaws
    <3> QED
      BY <1>1, <2>1, <3>1, <3>2, <3>3, <3>4, SMTT(30)
  <2> QED
    BY <1>1, <1>7, <2>1, <2>2 DEF FundsInv, AnswerMeansFunds
<1>9. CASE BalanceTimeOut
  <2>1. /\ wait' = "balance_wait_timeout" /\ Settle(wait') /\ paging = "done"
        /\ ~(totalCapacity >= threshold /\ Len(objects) > 0)
    BY <1>9 DEF BalanceTimeOut, Settle, Funded, liveCells
  <2>2. stable \subseteq Range(objects) /\ Range(objects) \in SUBSET Cells
    BY <1>1, <2>1 DEF PagingInv, CollectsTheStableCells, Range
  <2>3. CASE Len(objects) > 0
    <3>1. CapacityHeld(Range(objects)) <= totalCapacity /\ totalCapacity \in Nat
          /\ CapacityHeld(Range(objects)) \in Nat
      BY <1>1, <2>2, TotalLaws
    <3>2. CapacityHeld(stable) <= CapacityHeld(Range(objects)) /\ CapacityHeld(stable) \in Nat
      BY <1>1, <2>2, TotalLaws
    <3>3. CapacityHeld(stable) < threshold
      BY <1>1, <2>1, <2>3, <3>1, <3>2, SMTT(30)
    <3> QED
      BY <1>1, <1>7, <2>1, <3>3 DEF FundsInv, AnswerMeansFunds
  <2>4. CASE ~(Len(objects) > 0)
    <3>1. Range(objects) = {}
      BY <1>1, <2>4, SMTT(30) DEF Range
    <3> QED
      BY <1>1, <1>7, <2>1, <2>2, <3>1 DEF FundsInv, AnswerMeansFunds
  <2> QED
    BY <2>3, <2>4
<1>10. CASE Pause \/ Fail
  <2>1. Settle(wait') /\ (wait' = "indexer_unavailable" \/ (wait' = "sleep" /\ paging = "done"))
    BY <1>10 DEF Pause, Fail, Settle
  <2> QED
    BY <1>7, <2>1 DEF FundsInv, AnswerMeansFunds
<1> QED
  BY <1>3, <1>4, <1>5, <1>6, <1>8, <1>9, <1>10 DEF WaitNext, Client

(* waitForBalance tells the truth: a timeout means that the cells live all *)
(* through the last round were not enough, funding that there was enough,  *)
(* unless a reorganisation made the indexer list a cell twice.             *)
THEOREM AnswersMeanFunds == WaitSpec => []AnswerMeansFunds
<1>1. WaitInit => FundsInv
  BY FundsAssumption DEF WaitInit, FundsInv, AnswerMeansFunds
<1>2. FundsInv => AnswerMeansFunds
  BY DEF FundsInv
<1> QED
  BY <1>1, <1>2, InitPaging, StepPaging, StepFunds, PTL DEF WaitSpec
===============================================================================
