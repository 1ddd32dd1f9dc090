------------------------- MODULE BytesSharedProofs --------------------------
(***************************************************************************)
(* The reference counting of Bytes is right for any number of threads,     *)
(* handles and leaked handles, and for every size of the buffer and of the *)
(* count: NothingDangles, CountIsExact, CapacityIsRemembered, NothingLeaks *)
(* and TryIntoMutReuses hold in every reachable state.                     *)
(***************************************************************************)
EXTENDS BytesShared, TLAPS

USE ZenonT(30)

View == [off : Nat, len : Nat]
Handle == [vtable : {"promotable", "shared", "owned"}, data : Blocks \cup {KIND_VEC},
           view : View, owners : SUBSET Threads]
CloneRequest == [self : View, ret : View, discard : BOOLEAN]
Pc == [op : {"cas", "add"}, h : Handles, s : Blocks, r : CloneRequest]
      \cup [op : {"check"}, h : Handles, s : Blocks, r : CloneRequest, old : Nat]
      \cup [op : {"sub", "free"}, s : Blocks]
      \cup [op : {"into_mut"}, h : Handles]

TypeOK ==
    /\ handles \in [Handles -> {NoHandle} \cup Handle]
    /\ shared \in [Blocks -> [alive : BOOLEAN, cap : Nat, ref_cnt : Nat]]
    /\ pc \in [Threads -> {Idle} \cup Pc]
    /\ forgotten \in [Blocks -> Nat]

(* Before the first clone is published: one handle, which ends where the   *)
(* buffer ends, and nobody counts.                                         *)
VecIsAlone ==
    \A h \in Handles : Exists(h) /\ handles[h].data = KIND_VEC =>
        /\ buf = "live"
        /\ handles[h].vtable = "promotable"
        /\ handles[h].view.off + handles[h].view.len = Cap
        /\ \A g \in Handles : Exists(g) => g = h
        /\ \A s \in Blocks : ~Published(s)

(* Afterwards: one block, which knows the capacity, for all handles and    *)
(* for all threads between two operations on it.                           *)
OneBlock ==
    /\ \A s \in Blocks : Published(s) => buf = "live" /\ shared[s].cap = Cap
    /\ \A s1, s2 \in Blocks : Published(s1) /\ Published(s2) => s1 = s2
    /\ \A h \in Handles : Exists(h) /\ handles[h].data # KIND_VEC => Published(handles[h].data)
    /\ \A t \in Threads : pc[t].op \in {"add", "check", "sub", "free"} => Published(pc[t].s)
    /\ \A s \in Blocks : forgotten[s] # 0 => Published(s)

(* A handle in use by a thread is one the thread owns, so no other thread  *)
(* drops, converts or moves it.                                            *)
Owns(t) ==
    /\ pc[t].op = "cas" =>
          /\ pc[t].s = t /\ shared[t] = Block(Cap, 2)
          /\ Exists(pc[t].h) /\ t \in handles[pc[t].h].owners
    /\ pc[t].op \in {"add", "check"} =>
          /\ Exists(pc[t].h) /\ t \in handles[pc[t].h].owners
          /\ handles[pc[t].h].data = pc[t].s
    /\ pc[t].op = "into_mut" => Alone(t, pc[t].h) /\ is_unique(pc[t].h)
UsersOwn == \A t \in Threads : Owns(t)

(* A count of zero is seen by one thread, which frees the block.           *)
OneFrees ==
    /\ \A t, u \in Threads : pc[t].op = "free" /\ pc[u].op = "free" => t = u
    /\ \A t \in Threads : pc[t].op = "free" => shared[pc[t].s].ref_cnt = 0
    /\ \A s \in Blocks : Published(s) /\ shared[s].ref_cnt = 0 =>
          \E t \in Threads : pc[t].op = "free"

(* The abort comes late: until then each thread can have counted once      *)
(* beyond the threshold.                                                   *)
Late == {t \in Threads : pc[t].op = "check" /\ pc[t].old > UsizeMax \div 2}
CountIsBounded ==
    \A s \in Blocks : Published(s) =>
        shared[s].ref_cnt <= (UsizeMax \div 2) + 1 + Cardinality(Late)

BufferIsHeld ==
    buf = "live" => \/ leakedVec
                    \/ \E h \in Handles : Exists(h) /\ handles[h].data = KIND_VEC
                    \/ \E s \in Blocks : Published(s)

(* What counting rests on.  The laws are theorems of the library; carried  *)
(* in the invariant, they are all that most of its proof needs of it.      *)
CardinalityLaws ==
    /\ Cardinality({}) = 0 /\ \A x : IsFiniteSet({x}) /\ Cardinality({x}) = 1
    /\ \A S : IsFiniteSet(S) => /\ Cardinality(S) \in Nat
                                /\ Cardinality(S) = 0 => S = {}
                                /\ Cardinality(S) = 1 => \E x : S = {x}
    /\ \A S : IsFiniteSet(S) => \A x :
          /\ ~(x \in S) => Cardinality(S \cup {x}) = Cardinality(S) + 1
          /\ x \in S => Cardinality(S \ {x}) = Cardinality(S) - 1
    /\ \A S : IsFiniteSet(S) => \A T \in SUBSET S :
          /\ IsFiniteSet(T) /\ Cardinality(T) <= Cardinality(S)
          /\ Cardinality(T) = Cardinality(S) => T = S

Structure == VecIsAlone /\ OneBlock /\ UsersOwn
Counting == CountIsExact /\ CountIsBounded
IInv ==
    /\ TypeOK /\ Structure /\ OneFrees /\ Counting
    /\ BufferIsHeld /\ CapacityIsRemembered
    /\ CardinalityLaws

(* One element more.                                                       *)
LEMMA OneMore ==
    ASSUME IInv, NEW S, IsFiniteSet(S), NEW x, ~(x \in S), NEW T, T = S \cup {x}
    PROVE  Cardinality(T) = Cardinality(S) + 1
  BY DEF IInv, CardinalityLaws

(* One element less.                                                       *)
LEMMA OneLess ==
    ASSUME IInv, NEW S, IsFiniteSet(S), NEW x \in S, NEW T, T = S \ {x}
    PROVE  Cardinality(T) = Cardinality(S) - 1
  BY DEF IInv, CardinalityLaws

(* One element, and none.                                                  *)
LEMMA OneAndNone ==
    ASSUME IInv, NEW x
    PROVE  IsFiniteSet({x}) /\ Cardinality({x}) = 1 /\ Cardinality({}) = 0
  BY DEF IInv, CardinalityLaws

(* A set that is known by how many elements it has.                        *)
LEMMA FewElements ==
    ASSUME IInv, NEW S, IsFiniteSet(S)
    PROVE  /\ Cardinality(S) = 0 => S = {}
           /\ Cardinality(S) = 1 => \E x : S = {x}
  BY DEF IInv, CardinalityLaws

(* The sets that are counted are finite.                                   *)
LEMMA Counted ==
    ASSUME IInv
    PROVE  /\ IsFiniteSet(Late) /\ Cardinality(Late) \in Nat
           /\ \A s : /\ IsFiniteSet(HandlesOf(s)) /\ Cardinality(HandlesOf(s)) \in Nat
                     /\ IsFiniteSet(ReleasesOf(s)) /\ Cardinality(ReleasesOf(s)) \in Nat
<1>1. \A s : /\ Late \in SUBSET Threads
             /\ HandlesOf(s) \in SUBSET Handles /\ ReleasesOf(s) \in SUBSET Threads
  BY DEF Late, HandlesOf, ReleasesOf
<1>2. \A S, T : IsFiniteSet(S) /\ T \in SUBSET S => IsFiniteSet(T) /\ Cardinality(T) \in Nat
  BY DEF IInv, CardinalityLaws
<1> QED
  BY <1>1, <1>2, HandlesAssumption, CountAssumption

(* What the type says of a handle that exists.                             *)
LEMMA HandleType ==
    ASSUME TypeOK, NEW h \in Handles, Exists(h)
    PROVE  /\ handles[h] \in Handle
           /\ handles[h].data \in Blocks \cup {KIND_VEC}
           /\ handles[h].owners \in SUBSET Threads
           /\ handles[h].view \in View
  BY DEF TypeOK, Exists, Handle

(* What the type says of a thread by what it is in the middle of.          *)
LEMMA PcType ==
    ASSUME TypeOK, NEW t \in Threads
    PROVE  /\ pc[t].op \in {"cas", "add", "check"} =>
                pc[t].h \in Handles /\ pc[t].s \in Blocks /\ pc[t].r \in CloneRequest
           /\ pc[t].op = "check" => pc[t].old \in Nat
           /\ pc[t].op \in {"sub", "free"} => pc[t].s \in Blocks
           /\ pc[t].op = "into_mut" => pc[t].h \in Handles
  BY SMTT(30) DEF TypeOK, Pc, Idle

(* A thread owns what it is in the middle of using.                        *)
LEMMA UserOwns ==
    ASSUME IInv, NEW u \in Threads
    PROVE  Owns(u)
  BY DEF IInv, Structure, UsersOwn

(* Moving a view or letting go of a handle disturbs neither blocks nor     *)
(* counts.                                                                 *)
LEMMA ViewMoves ==
    ASSUME IInv, NEW h \in Handles, Exists(h), NEW new \in Handle,
           handles' = [handles EXCEPT ![h] = new],
           UNCHANGED <<shared, buf, layout, pc, forgotten, leakedVec>>,
           new.vtable = handles[h].vtable, new.data = handles[h].data,
           new.data = KIND_VEC => new.view.off + new.view.len = Cap,
           \A t \in Threads : pc[t].op \in {"cas", "add", "check"} /\ pc[t].h = h => t \in new.owners,
           \A t \in Threads : ~(pc[t].op = "into_mut" /\ pc[t].h = h)
    PROVE  IInv'
<1>1. TypeOK'
  BY DEF IInv, TypeOK
<1>2. /\ \A g \in Handles : /\ Exists(g)' <=> Exists(g)
                            /\ Exists(g) => handles'[g].data = handles[g].data
                                            /\ handles'[g].vtable = handles[g].vtable
      /\ handles'[h] = new /\ \A g \in Handles : g # h => handles'[g] = handles[g]
  <2>1. handles'[h] = new /\ \A g \in Handles : g # h => handles'[g] = handles[g]
    BY DEF IInv, TypeOK
  <2>2. new # NoHandle
    BY SMTT(30) DEF Handle, NoHandle
  <2> QED
    BY <2>1, <2>2 DEF Exists
<1>3. \A s \in Blocks : Published(s)' <=> Published(s)
  BY DEF Published
<1>4. VecIsAlone'
  BY <1>2, <1>3, SMTT(30) DEF IInv, Structure, VecIsAlone
<1>5. OneBlock'
  BY <1>2, <1>3, HandleType, PcType, SMTT(30) DEF IInv, Structure, OneBlock
<1>6. UsersOwn'
  <2> SUFFICES ASSUME NEW u \in Threads PROVE Owns(u)'
    BY DEF UsersOwn
  <2>1. Owns(u)
    BY UserOwns
  <2>2. CASE pc[u].op \in {"cas", "add", "check"}
    <3>1. pc[u].h \in Handles
      BY <2>2, PcType DEF IInv
    <3> QED
      BY <1>2, <2>1, <2>2, <3>1, SMTT(30) DEF Owns
  <2>3. CASE pc[u].op = "into_mut"
    <3>1. pc[u].h \in Handles /\ pc[u].h # h
      BY <2>3, PcType DEF IInv
    <3> QED
      BY <1>2, <2>1, <2>3, <3>1, SMTT(30) DEF Owns, Alone, is_unique
  <2>4. CASE ~(pc[u].op \in {"cas", "add", "check", "into_mut"})
    BY <2>4 DEF Owns
  <2> QED
    BY <2>2, <2>3, <2>4
<1>7. OneFrees'
  BY <1>3 DEF IInv, OneFrees
<1>8. Counting'
  <2>1. \A s \in Blocks : HandlesOf(s)' = HandlesOf(s) /\ ReleasesOf(s)' = ReleasesOf(s)
    BY <1>2 DEF HandlesOf, ReleasesOf
  <2>2. Late' = Late
    BY DEF Late
  <2> QED
    BY <1>3, <2>1, <2>2 DEF IInv, Counting, CountIsExact, CountIsBounded, Shares
<1>10. BufferIsHeld' /\ CapacityIsRemembered'
  BY <1>2, <1>3 DEF IInv, BufferIsHeld, CapacityIsRemembered
<1> QED
  BY <1>1, <1>4, <1>5, <1>6, <1>7, <1>8, <1>10 DEF IInv, Structure

(* The only owner of a handle is the only thread in the middle of using    *)
(* it.                                                                     *)
LEMMA OwnerIsOnlyUser ==
    ASSUME IInv, NEW t \in Threads, NEW h \in Handles, Alone(t, h),
           NEW u \in Threads, u # t, pc[u].op \in {"cas", "add", "check", "into_mut"}
    PROVE  pc[u].h # h
  BY UserOwns, SMTT(30) DEF Owns, Alone

(* A thread that stays where it is still owns what it uses.                *)
LEMMA OthersOwn ==
    ASSUME IInv, NEW u \in Threads, pc'[u] = pc[u],
           pc[u].op \in {"cas", "add", "check", "into_mut"} =>
              handles'[pc[u].h] = handles[pc[u].h],
           pc[u].op = "cas" => shared'[u] = shared[u],
           pc[u].op = "into_mut" /\ handles[pc[u].h].data # KIND_VEC =>
              shared'[handles[pc[u].h].data] = shared[handles[pc[u].h].data]
    PROVE  Owns(u)'
<1>1. Owns(u)
  BY UserOwns
<1>2. CASE pc[u].op \in {"cas", "add", "check"}
  BY <1>1, <1>2 DEF Owns, Exists
<1>3. CASE pc[u].op = "into_mut"
  BY <1>1, <1>3 DEF Owns, Alone, Exists, is_unique
<1>4. CASE ~(pc[u].op \in {"cas", "add", "check", "into_mut"})
  BY <1>4 DEF Owns
<1> QED
  BY <1>2, <1>3, <1>4

(* A block with one share has no other use.                                *)
LEMMA SoleShare ==
    ASSUME IInv, NEW h \in Handles, Exists(h), NEW s \in Blocks, handles[h].data = s,
           shared[s].ref_cnt = 1
    PROVE  /\ \A g \in Handles : Exists(g) => g = h
           /\ \A u \in Threads : ~(pc[u].op \in {"check", "sub"})
           /\ forgotten[s] = 0
<1>1. Published(s) /\ shared[s].ref_cnt = Shares(s) /\ h \in HandlesOf(s) /\ forgotten[s] \in Nat
  BY BlocksAssumption DEF IInv, TypeOK, Structure, OneBlock, Counting, CountIsExact, HandlesOf
<1>2. Cardinality(HandlesOf(s)) # 0
  BY <1>1, Counted, FewElements
<1>3. Cardinality(HandlesOf(s)) = 1 /\ Cardinality(ReleasesOf(s)) = 0 /\ forgotten[s] = 0
  BY <1>1, <1>2, Counted, SMTT(30) DEF Shares
<1>4. PICK x : HandlesOf(s) = {x}
  BY <1>3, Counted, FewElements
<1>5. HandlesOf(s) = {h} /\ ReleasesOf(s) = {}
  BY <1>1, <1>3, <1>4, Counted, FewElements
<1>6. \A g \in Handles : Exists(g) => handles[g].data = s
  BY <1>1, HandleType DEF IInv, Structure, OneBlock, VecIsAlone
<1>7. \A u \in Threads : pc[u].op \in {"check", "sub"} => pc[u].s = s
  BY <1>1, PcType DEF IInv, Structure, OneBlock
<1> QED
  BY <1>3, <1>5, <1>6, <1>7 DEF HandlesOf, ReleasesOf

(* A handle of a block becomes a release of its share, or is forgotten     *)
(* with it.                                                                *)
LeaveStep(t, h, s, p) ==
    /\ Alone(t, h) /\ s = handles[h].data
    /\ pc[t].op \in {"idle", "into_mut"}
    /\ handles' = [handles EXCEPT ![h] = NoHandle]
    /\ pc' = [pc EXCEPT ![t] = p]
    /\ \/ p = [op |-> "sub", s |-> s] /\ forgotten' = forgotten
       \/ p = Idle /\ forgotten' = [forgotten EXCEPT ![s] = @ + 1]
    /\ UNCHANGED <<shared, buf, layout, leakedVec>>

(* Drop, mem::forget, and a conversion that copies.                        *)
LEMMA HandleLeaves ==
    ASSUME IInv, NEW t \in Threads, NEW h \in Handles, NEW s \in Blocks, NEW p,
           LeaveStep(t, h, s, p)
    PROVE  IInv'
<1> USE DEF LeaveStep
<1>1. /\ Published(s) /\ Exists(h)
      /\ handles'[h] = NoHandle /\ \A g \in Handles : g # h => handles'[g] = handles[g]
      /\ pc'[t] = p /\ \A u \in Threads : u # t => pc'[u] = pc[u]
      /\ p.op = "idle" \/ (p.op = "sub" /\ p.s = s)
      /\ forgotten \in [Blocks -> Nat]
  BY BlocksAssumption, SMTT(30) DEF IInv, TypeOK, Structure, OneBlock, Alone, Idle
<1>2. TypeOK'
  <2>1. forgotten' \in [Blocks -> Nat]
    BY <1>1, SMTT(30)
  <2>2. p \in {Idle} \cup Pc
    BY SMTT(30) DEF Pc
  <2> QED
    BY <1>1, <2>1, <2>2 DEF IInv, TypeOK
<1>3. \A x \in Blocks : Published(x)' <=> Published(x)
  BY <1>1, SMTT(30) DEF Published
<1>4. \A g \in Handles : Exists(g)' <=> Exists(g) /\ g # h
  BY <1>1 DEF Exists
<1>5. VecIsAlone'
  BY <1>1, <1>3, <1>4 DEF IInv, Structure, VecIsAlone
<1>6. OneBlock'
  <2>1. \A x \in Blocks : forgotten'[x] # 0 => Published(x)
    BY <1>1, SMTT(30) DEF IInv, Structure, OneBlock
  <2> QED
    BY <1>1, <1>3, <1>4, <2>1, HandleType, PcType, SMTT(30) DEF IInv, Structure, OneBlock
<1>7. UsersOwn'
  <2>1. \A u \in Threads : u # t /\ pc[u].op \in {"cas", "add", "check", "into_mut"} =>
           handles'[pc[u].h] = handles[pc[u].h]
    BY <1>1, PcType, OwnerIsOnlyUser, SMTT(30) DEF IInv
  <2>2. Owns(t)'
    BY <1>1 DEF Owns
  <2> QED
    BY <1>1, <2>1, <2>2, OthersOwn DEF UsersOwn
<1>8. OneFrees'
  BY <1>1, <1>3, SMTT(30) DEF IInv, OneFrees
<1>9. Counting'
  <2>1. Late' = Late
    BY <1>1 DEF Late
  <2>2. HandlesOf(s)' = HandlesOf(s) \ {h} /\ h \in HandlesOf(s)
    BY <1>1, <1>4, SMTT(30) DEF HandlesOf
  <2>3. /\ p.op = "sub" => ReleasesOf(s)' = ReleasesOf(s) \cup {t} /\ ~(t \in ReleasesOf(s))
        /\ p.op = "idle" => ReleasesOf(s)' = ReleasesOf(s)
    BY <1>1, SMTT(30) DEF ReleasesOf
  <2>4. Shares(s)' = Shares(s)
    <3>1. Cardinality(HandlesOf(s)') = Cardinality(HandlesOf(s)) - 1
      BY <2>2, Counted, OneLess
    <3>2. p.op = "sub" => Cardinality(ReleasesOf(s)') = Cardinality(ReleasesOf(s)) + 1
      BY <2>3, Counted, OneMore
    <3>3. /\ p.op = "sub" => forgotten'[s] = forgotten[s]
          /\ p.op = "idle" => forgotten'[s] = forgotten[s] + 1
          /\ forgotten[s] \in Nat
      BY <1>1, SMTT(30) DEF Idle
    <3> QED
      BY <1>1, <2>3, <3>1, <3>2, <3>3, Counted, SMTT(30) DEF Shares
  <2>5. \A x \in Blocks : Published(x)' => x = s
    BY <1>1, <1>3 DEF IInv, Structure, OneBlock
  <2> QED
    BY <1>3, <2>1, <2>4, <2>5 DEF IInv, Counting, CountIsExact, CountIsBounded
<1>11. BufferIsHeld' /\ CapacityIsRemembered'
  BY <1>1, <1>3, <1>4 DEF IInv, BufferIsHeld, CapacityIsRemembered
<1> QED
  BY <1>2, <1>5, <1>6, <1>7, <1>8, <1>9, <1>11 DEF IInv, Structure

(* The unshared handle goes: the buffer is given back, or leaks.           *)
LEMMA VecLeaves ==
    ASSUME IInv, NEW t \in Threads, NEW h \in Handles, Alone(t, h), handles[h].data = KIND_VEC,
           pc[t].op \in {"idle", "into_mut"},
           handles' = [handles EXCEPT ![h] = NoHandle],
           pc' = [pc EXCEPT ![t] = Idle],
           \/ buf' # "live" /\ layout' = Cap
           \/ buf' = buf /\ layout' = layout /\ leakedVec' = TRUE,
           UNCHANGED <<shared, forgotten>>
    PROVE  IInv'
<1>1. /\ Exists(h) /\ buf = "live"
      /\ \A g \in Handles : Exists(g) => g = h
      /\ \A s \in Blocks : ~Published(s)
      /\ handles'[h] = NoHandle /\ \A g \in Handles : g # h => handles'[g] = handles[g]
      /\ pc'[t] = Idle /\ \A u \in Threads : u # t => pc'[u] = pc[u]
  BY DEF IInv, TypeOK, Structure, VecIsAlone, Alone
<1>2. TypeOK'
  BY <1>1 DEF IInv, TypeOK
<1>3. \A u \in Threads : pc'[u].op \in {"idle"}
  <2>1. \A u \in Threads : ~(pc[u].op \in {"add", "check", "sub", "free"})
    BY <1>1, PcType DEF IInv, Structure, OneBlock
  <2>2. \A u \in Threads : u # t => ~(pc[u].op \in {"cas", "into_mut"})
    <3>1. SUFFICES ASSUME NEW u \in Threads, u # t, pc[u].op \in {"cas", "into_mut"}
                   PROVE  FALSE
      OBVIOUS
    <3>2. pc[u].h \in Handles /\ Exists(pc[u].h)
      BY <3>1, PcType DEF IInv, Structure, UsersOwn, Owns, Alone
    <3> QED
      BY <1>1, <3>1, <3>2, OwnerIsOnlyUser
  <2> QED
    BY <1>1, <2>1, <2>2, SMTT(30) DEF IInv, TypeOK, Pc, Idle
<1>4. (\A g \in Handles : ~Exists(g)') /\ \A s \in Blocks : ~Published(s)'
  <2>1. ~(pc[t].op = "cas")
    OBVIOUS
  <2> QED
    BY <1>1, <2>1, SMTT(30) DEF Exists, Published
<1>5. Structure'
  <2>1. VecIsAlone'
    BY <1>4 DEF VecIsAlone
  <2>2. OneBlock'
    BY <1>1, <1>3, <1>4 DEF IInv, Structure, OneBlock
  <2>3. UsersOwn'
    BY <1>3 DEF UsersOwn, Owns
  <2> QED
    BY <2>1, <2>2, <2>3 DEF Structure
<1>6. OneFrees' /\ Counting'
  BY <1>3, <1>4 DEF OneFrees, Counting, CountIsExact, CountIsBounded
<1>8. BufferIsHeld' /\ CapacityIsRemembered'
  BY <1>1 DEF IInv, BufferIsHeld, CapacityIsRemembered
<1> QED
  BY <1>2, <1>5, <1>6, <1>8 DEF IInv

(* The last share goes, and with it the block and the buffer.              *)
LEMMA BlockLeaves ==
    ASSUME IInv, NEW s \in Blocks, Published(s), forgotten[s] = 0, NEW t \in Threads,
           \A u \in Threads : u # t => pc[u] = Idle, pc[t].op # "cas",
           TypeOK', \A g \in Handles : ~Exists(g)',
           shared' = [shared EXCEPT ![s] = NoBlock],
           pc' = [pc EXCEPT ![t] = Idle],
           buf' # "live", layout' = shared[s].cap, forgotten' = forgotten
    PROVE  IInv'
<1>1. \A u \in Threads : pc'[u] = Idle /\ pc'[u].op = "idle"
  BY SMTT(30) DEF IInv, TypeOK, Idle
<1>2. \A x \in Blocks : ~Published(x)'
  <2>1. \A x \in Blocks : x # s => ~Published(x)
    BY DEF IInv, Structure, OneBlock
  <2>2. \A x \in Blocks : x # s => ~shared[x].alive
    BY <2>1, SMTT(30) DEF Published, Idle
  <2>3. \A x \in Blocks : ~shared'[x].alive
    BY <2>2 DEF IInv, TypeOK, NoBlock
  <2> QED
    BY <2>3 DEF Published
<1>3. \A x \in Blocks : forgotten'[x] = 0
  BY DEF IInv, Structure, OneBlock
<1>4. Structure'
  BY <1>1, <1>2, <1>3 DEF Structure, VecIsAlone, OneBlock, UsersOwn, Owns
<1>5. OneFrees' /\ Counting'
  BY <1>1, <1>2 DEF OneFrees, Counting, CountIsExact, CountIsBounded
<1>7. layout' = Cap
  BY DEF IInv, Structure, OneBlock
<1> QED
  BY <1>4, <1>5, <1>7 DEF IInv, BufferIsHeld, CapacityIsRemembered

(* try_into_mut or into finds its handle alone and takes the buffer over.  *)
LEMMA SharedIsTaken ==
    ASSUME IInv, NEW t \in Threads, NEW h \in Handles, Alone(t, h),
           pc[t].op \in {"idle", "into_mut"}, TakeShared(t, h), forgotten' = forgotten
    PROVE  IInv'
<1>1. PICK s \in Blocks : s = handles[h].data
  BY HandleType DEF IInv, Alone, TakeShared
<1>2. Published(s) /\ shared[s].ref_cnt = 1 /\ Exists(h)
  BY <1>1 DEF IInv, Structure, OneBlock, TakeShared, Alone
<1>3. /\ \A g \in Handles : Exists(g) => g = h
      /\ \A u \in Threads : ~(pc[u].op \in {"check", "sub"})
      /\ forgotten[s] = 0
  BY <1>1, <1>2, SoleShare
<1>4. \A u \in Threads : u # t => pc[u] = Idle
  <2>1. ASSUME NEW u \in Threads, u # t PROVE ~(pc[u].op \in {"cas", "add", "into_mut"})
    <3>1. Owns(u) /\ TypeOK
      BY UserOwns DEF IInv
    <3> QED
      BY <1>3, <2>1, <3>1, PcType, OwnerIsOnlyUser DEF Owns, Alone
  <2>2. ASSUME NEW u \in Threads PROVE pc[u].op # "free"
    <3>1. pc[u].op = "free" => pc[u].s = s
      BY <1>2, PcType DEF IInv, Structure, OneBlock
    <3> QED
      BY <1>2, <3>1, SMTT(30) DEF IInv, OneFrees
  <2> QED
    BY <1>3, <2>1, <2>2 DEF IInv, TypeOK, Pc
<1>5. /\ handles' = [handles EXCEPT ![h] = NoHandle]
      /\ shared' = [shared EXCEPT ![s] = NoBlock]
      /\ pc' = [pc EXCEPT ![t] = Idle]
      /\ buf' = "taken" /\ layout' = shared[s].cap
  BY <1>1 DEF TakeShared, GiveBack, Gone
<1>6. TypeOK'
  BY <1>5 DEF IInv, TypeOK, NoBlock
<1>7. \A g \in Handles : ~Exists(g)'
  BY <1>3, <1>5 DEF IInv, TypeOK, Exists
<1> QED
  BY <1>2, <1>3, <1>4, <1>5, <1>6, <1>7, BlockLeaves

(* release_shared frees what nobody can reach any more.                    *)
LEMMA FreeKeeps ==
    ASSUME IInv, NEW t \in Threads, Free(t)
    PROVE  IInv'
<1>1. PICK s \in Blocks : s = pc[t].s
  BY PcType DEF IInv, Free
<1>2. pc[t].op = "free" /\ Published(s) /\ shared[s].ref_cnt = 0
  BY <1>1 DEF IInv, Structure, OneBlock, OneFrees, Free
<1>3. HandlesOf(s) = {} /\ ReleasesOf(s) = {} /\ forgotten[s] = 0
  <2>1. Shares(s) = 0 /\ forgotten[s] \in Nat
    BY <1>2 DEF IInv, TypeOK, Counting, CountIsExact
  <2>2. Cardinality(HandlesOf(s)) = 0 /\ Cardinality(ReleasesOf(s)) = 0 /\ forgotten[s] = 0
    BY <2>1, Counted, SMTT(30) DEF Shares
  <2> QED
    BY <2>2, Counted, FewElements
<1>4. \A g \in Handles : ~Exists(g)
  <2>1. \A g \in Handles : Exists(g) => handles[g].data = s
    BY <1>2, HandleType DEF IInv, Structure, OneBlock, VecIsAlone
  <2> QED
    BY <1>3, <2>1 DEF HandlesOf
<1>5. \A u \in Threads : u # t => pc[u] = Idle
  <2>1. \A u \in Threads : ~(pc[u].op \in {"cas", "add", "check", "into_mut"})
    BY <1>4, PcType DEF IInv, Structure, UsersOwn, Owns, Alone
  <2>2. \A u \in Threads : pc[u].op # "sub"
    <3>1. \A u \in Threads : pc[u].op = "sub" => pc[u].s = s
      BY <1>2, PcType DEF IInv, Structure, OneBlock
    <3> QED
      BY <1>3, <3>1 DEF ReleasesOf
  <2>3. \A u \in Threads : u # t => pc[u].op # "free"
    BY <1>2 DEF IInv, OneFrees
  <2> QED
    BY <2>1, <2>2, <2>3 DEF IInv, TypeOK, Pc
<1>6. /\ handles' = handles /\ forgotten' = forgotten
      /\ shared' = [shared EXCEPT ![s] = NoBlock]
      /\ pc' = [pc EXCEPT ![t] = Idle]
      /\ buf' = "freed" /\ layout' = shared[s].cap
  BY <1>1 DEF Free, GiveBack
<1>7. TypeOK'
  BY <1>6 DEF IInv, TypeOK, NoBlock
<1>8. \A g \in Handles : ~Exists(g)'
  BY <1>4, <1>6 DEF Exists
<1> QED
  BY <1>2, <1>3, <1>5, <1>6, <1>7, <1>8, BlockLeaves

(* A conversion by value or through try_into_mut.                          *)
LEMMA ConvertKeeps ==
    ASSUME IInv, NEW t \in Threads, NEW h \in Handles, Alone(t, h),
           pc[t].op \in {"idle", "into_mut"}, Convert(t, h)
    PROVE  IInv'
<1>1. Exists(h) /\ UNCHANGED <<forgotten, leakedVec>>
  BY DEF Alone, Convert
<1>2. CASE TakeVec(t, h)
  <2>1. End(handles[h].view) = Cap
    BY <1>1, <1>2 DEF IInv, Structure, VecIsAlone, TakeVec, End
  <2> QED
    BY <1>1, <1>2, <2>1, VecLeaves DEF TakeVec, GiveBack, Gone
<1>3. CASE TakeShared(t, h)
  BY <1>1, <1>3, SharedIsTaken
<1>4. CASE Copy(t, h)
  <2>1. PICK s \in Blocks : s = handles[h].data
    BY <1>1, <1>4, HandleType DEF IInv, Copy
  <2>2. /\ handles' = [handles EXCEPT ![h] = NoHandle]
        /\ pc' = [pc EXCEPT ![t] = [op |-> "sub", s |-> s]]
        /\ UNCHANGED <<shared, buf, layout>>
    BY <1>4, <2>1 DEF Copy, Gone, Release
  <2>3. LeaveStep(t, h, s, [op |-> "sub", s |-> s])
    BY <1>1, <2>1, <2>2 DEF LeaveStep
  <2> QED
    BY <2>3, HandleLeaves
<1> QED
  BY <1>2, <1>3, <1>4 DEF Convert

(* A handle is dropped or forgotten.                                       *)
LEMMA DropKeeps ==
    ASSUME IInv, NEW t \in Threads, NEW h \in Handles, Drop(t, h) \/ Forget(t, h)
    PROVE  IInv'
<1>1. /\ Alone(t, h) /\ Exists(h) /\ pc[t] = Idle /\ pc[t].op = "idle"
      /\ handles' = [handles EXCEPT ![h] = NoHandle] /\ shared' = shared
  <2>1. CASE Drop(t, h)
    BY <2>1, SMTT(30) DEF Drop, Ready, Alone, Gone, Idle
  <2>2. CASE Forget(t, h)
    BY <2>2, SMTT(30) DEF Forget, Ready, Alone, Gone, Idle
  <2> QED
    BY <2>1, <2>2
<1>2. pc = [pc EXCEPT ![t] = Idle]
  BY <1>1 DEF IInv, TypeOK
<1>3. CASE handles[h].data = KIND_VEC
  <2>1. End(handles[h].view) = Cap
    BY <1>1, <1>3 DEF IInv, Structure, VecIsAlone, End
  <2>2. /\ pc' = [pc EXCEPT ![t] = Idle] /\ forgotten' = forgotten
        /\ \/ buf' # "live" /\ layout' = Cap
           \/ buf' = buf /\ layout' = layout /\ leakedVec' = TRUE
    BY <1>2, <1>3, <2>1 DEF Drop, Forget, GiveBack
  <2> QED
    BY <1>1, <1>3, <2>2, VecLeaves
<1>4. CASE handles[h].data # KIND_VEC
  <2>1. PICK s \in Blocks : s = handles[h].data
    BY <1>1, <1>4, HandleType DEF IInv
  <2>2. PICK p : /\ pc' = [pc EXCEPT ![t] = p]
                 /\ \/ p = [op |-> "sub", s |-> s] /\ forgotten' = forgotten
                    \/ p = Idle /\ forgotten' = [forgotten EXCEPT ![s] = @ + 1]
                 /\ UNCHANGED <<buf, layout, leakedVec>>
    BY <1>2, <1>4, <2>1 DEF Drop, Forget, Release
  <2>3. LeaveStep(t, h, s, p)
    BY <1>1, <2>1, <2>2 DEF LeaveStep
  <2> QED
    BY <2>3, HandleLeaves
<1> QED
  BY <1>3, <1>4

(* advance, truncate of a handle that is not promotable, and letting go of *)
(* an Arc<Bytes>: an unshared view keeps its end.                          *)
LEMMA ViewStepKeeps ==
    ASSUME IInv, NEW t \in Threads, NEW h \in Handles,
           Advance(t, h) \/ TruncateInPlace(t, h) \/ LetGo(t, h)
    PROVE  IInv'
<1>1. /\ Exists(h) /\ pc[t].op = "idle" /\ t \in handles[h].owners
      /\ UNCHANGED <<shared, buf, layout, pc, forgotten, leakedVec>>
  BY SMTT(30) DEF Advance, TruncateInPlace, LetGo, Ready, Alone, Idle
<1>2. handles[h] \in Handle /\ handles[h].view \in View
  BY <1>1, HandleType DEF IInv
<1>3. PICK v \in View : v = handles[h].view
  BY <1>2
<1>4. v.off \in Nat /\ v.len \in Nat
  BY DEF View
<1>5. \A u \in Threads : ~(pc[u].op = "into_mut" /\ pc[u].h = h)
  BY <1>1, UserOwns, SMTT(30) DEF Owns, Alone
<1>6. \A u \in Threads : pc[u].op \in {"cas", "add", "check"} /\ pc[u].h = h =>
         u # t /\ u \in handles[h].owners
  BY <1>1, UserOwns DEF Owns
<1>7. CASE LetGo(t, h)
  <2> DEFINE new == [handles[h] EXCEPT !.owners = @ \ {t}]
  <2>1. handles' = [handles EXCEPT ![h] = new]
    BY <1>7 DEF LetGo
  <2>2. /\ new \in Handle /\ new.vtable = handles[h].vtable /\ new.data = handles[h].data
        /\ new.view = v /\ new.owners = handles[h].owners \ {t}
    BY <1>2, <1>3 DEF Handle
  <2>3. new.data = KIND_VEC => new.view.off + new.view.len = Cap
    BY <1>1, <1>3, <2>2 DEF IInv, Structure, VecIsAlone
  <2> HIDE DEF new
  <2> QED
    BY <1>1, <1>5, <1>6, <2>1, <2>2, <2>3, ViewMoves
<1>8. ASSUME NEW w \in View, handles' = [handles EXCEPT ![h].view = w],
             handles[h].data = KIND_VEC => w.off + w.len = v.off + v.len
      PROVE  IInv'
  <2> DEFINE new == [handles[h] EXCEPT !.view = w]
  <2>1. handles' = [handles EXCEPT ![h] = new]
    BY <1>8
  <2>2. /\ new \in Handle /\ new.vtable = handles[h].vtable /\ new.data = handles[h].data
        /\ new.view = w /\ new.owners = handles[h].owners
    BY <1>2 DEF Handle
  <2>3. new.data = KIND_VEC => new.view.off + new.view.len = Cap
    BY <1>1, <1>3, <1>8, <2>2 DEF IInv, Structure, VecIsAlone
  <2> HIDE DEF new
  <2> QED
    BY <1>1, <1>5, <1>6, <2>1, <2>2, <2>3, ViewMoves
<1>9. CASE Advance(t, h)
  <2>1. PICK by \in 1..v.len : handles' = [handles EXCEPT ![h].view = After(v, by)]
    BY <1>3, <1>9 DEF Advance
  <2>2. by \in Nat /\ v.off + by \in Nat /\ v.len - by \in Nat
        /\ (v.off + by) + (v.len - by) = v.off + v.len
    BY <1>4, SMTT(30)
  <2>3. /\ After(v, by) \in View
        /\ After(v, by).off + After(v, by).len = v.off + v.len
    BY <2>2 DEF After, View
  <2> QED
    BY <1>8, <2>1, <2>3
<1>10. CASE TruncateInPlace(t, h)
  <2>1. PICK len \in 0..(v.len - 1) : handles' = [handles EXCEPT ![h].view = Before(v, len)]
    BY <1>3, <1>10 DEF TruncateInPlace
  <2>2. Before(v, len) \in View
    BY <1>4, SMTT(30) DEF Before, View
  <2>3. handles[h].data # KIND_VEC
    BY <1>1, <1>10 DEF IInv, Structure, VecIsAlone, TruncateInPlace
  <2> QED
    BY <1>8, <2>1, <2>2, <2>3
<1> QED
  BY <1>7, <1>9, <1>10

(* The abort keeps the count from wrapping.                                *)
LEMMA BoundHolds ==
    ASSUME IInv, NEW s \in Blocks, Published(s)
    PROVE  /\ shared[s].ref_cnt \in Nat /\ shared[s].ref_cnt <= UsizeMax
           /\ \A t \in Threads : ~(t \in Late) => shared[s].ref_cnt < UsizeMax
<1>1. /\ shared[s].ref_cnt \in Nat
      /\ shared[s].ref_cnt <= (UsizeMax \div 2) + 1 + Cardinality(Late)
  BY DEF IInv, TypeOK, Counting, CountIsBounded
<1>2. Late \in SUBSET Threads /\ Cardinality(Late) <= Cardinality(Threads)
      /\ Cardinality(Threads) \in Nat
  BY CountAssumption DEF Late, IInv, CardinalityLaws
<1>3. ASSUME NEW t \in Threads, ~(t \in Late) PROVE Cardinality(Late) < Cardinality(Threads)
  BY <1>2, <1>3, Counted, CountAssumption, SMTT(30) DEF IInv, CardinalityLaws
<1>4. PICK half \in Nat : half = UsizeMax \div 2
  BY CountAssumption, SMTT(30)
<1>5. Cardinality(Threads) + half < UsizeMax /\ UsizeMax \in Nat
  BY <1>4, CountAssumption
<1> QED
  BY <1>1, <1>2, <1>3, <1>4, <1>5, Counted, SMTT(30)

(* While a count is moving no conversion is under way that relies on it.   *)
LEMMA NoConversion ==
    ASSUME IInv, NEW t \in Threads, pc[t].op \in {"add", "check", "sub"}, NEW u \in Threads
    PROVE  pc[u].op # "into_mut"
<1> SUFFICES ASSUME pc[u].op = "into_mut" PROVE FALSE
  OBVIOUS
<1>1. PICK h \in Handles : h = pc[u].h
  BY PcType DEF IInv
<1>2. Alone(u, h) /\ is_unique(h) /\ Exists(h)
  BY <1>1 DEF IInv, Structure, UsersOwn, Owns, Alone
<1>3. PICK s \in Blocks : s = pc[t].s
  BY PcType DEF IInv
<1>4. Published(s)
  BY <1>3 DEF IInv, Structure, OneBlock
<1>5. handles[h].data = s
  BY <1>2, <1>4, HandleType DEF IInv, Structure, OneBlock, VecIsAlone
<1>6. shared[s].ref_cnt = 1
  BY <1>2, <1>5, BlocksAssumption DEF is_unique
<1>7. /\ \A g \in Handles : Exists(g) => g = h
      /\ ~(pc[t].op \in {"check", "sub"})
  BY <1>2, <1>5, <1>6, SoleShare
<1>8. pc[t].h = h /\ t \in handles[h].owners /\ t # u
  <2>1. Owns(t) /\ pc[t].h \in Handles
    BY <1>7, UserOwns, PcType DEF IInv
  <2> QED
    BY <1>7, <2>1 DEF Owns
<1> QED
  BY <1>2, <1>8 DEF Alone

(* A step that sets the count of a published block, and what it keeps      *)
(* whatever the count.                                                     *)
CountStep(t, s, n, p) ==
    /\ pc[t].op \in {"add", "sub"} /\ pc[t].s = s /\ Published(s)
    /\ shared' = [shared EXCEPT ![s].ref_cnt = n]
    /\ pc' = [pc EXCEPT ![t] = p] /\ p \in {Idle} \cup Pc
    /\ p.op \in {"idle", "check", "free"} /\ (p.op # "idle" => p.s = s)
    /\ p.op = "check" => pc[t].op = "add" /\ p.h = pc[t].h
    /\ UNCHANGED <<handles, buf, layout, forgotten, leakedVec>>
CountMoved(t, s, n, p) ==
    /\ TypeOK' /\ Structure' /\ BufferIsHeld' /\ CapacityIsRemembered'
    /\ \A x \in Blocks : Published(x)' <=> x = s
    /\ shared'[s].ref_cnt = n
    /\ pc'[t] = p /\ \A u \in Threads : u # t => pc'[u] = pc[u]

(* What fetch_add and fetch_sub on a block leave alone.                    *)
LEMMA CountMoves ==
    ASSUME IInv, NEW t \in Threads, NEW s \in Blocks, NEW n \in Nat, NEW p, CountStep(t, s, n, p)
    PROVE  CountMoved(t, s, n, p)
<1> USE DEF CountStep
<1>1. /\ shared'[s] = [shared[s] EXCEPT !.ref_cnt = n]
      /\ \A x \in Blocks : x # s => shared'[x] = shared[x]
      /\ pc'[t] = p /\ \A u \in Threads : u # t => pc'[u] = pc[u]
  BY DEF IInv, TypeOK
<1>2. /\ shared'[s] \in [alive : BOOLEAN, cap : Nat, ref_cnt : Nat]
      /\ shared'[s].alive = shared[s].alive /\ shared'[s].cap = shared[s].cap
      /\ shared'[s].ref_cnt = n
  BY <1>1, SMTT(30) DEF IInv, TypeOK
<1>3. TypeOK'
  BY <1>1, <1>2 DEF IInv, TypeOK
<1>4. \A x \in Blocks : Published(x)' <=> Published(x)
  BY <1>1, <1>2, SMTT(30) DEF Published
<1>5. \A x \in Blocks : Published(x) <=> x = s
  BY DEF IInv, Structure, OneBlock
<1>6. VecIsAlone'
  BY <1>4 DEF IInv, Structure, VecIsAlone, Exists
<1>7. OneBlock'
  BY <1>1, <1>2, <1>4, <1>5, HandleType, PcType, SMTT(30) DEF IInv, Structure, OneBlock, Exists
<1>8. UsersOwn'
  <2>1. Owns(t)'
    BY <1>1, SMTT(30) DEF IInv, Structure, UsersOwn, Owns, Exists
  <2>2. ASSUME NEW u \in Threads, u # t PROVE Owns(u)'
    <3>1. pc[u].op # "into_mut"
      BY NoConversion
    <3>2. pc[u].op = "cas" => shared'[u] = shared[u]
      BY <1>1, SMTT(30) DEF IInv, Structure, UsersOwn, Owns, Published, Blocks
    <3> QED
      BY <1>1, <2>2, <3>1, <3>2, OthersOwn
  <2> QED
    BY <2>1, <2>2 DEF UsersOwn
<1>10. BufferIsHeld' /\ CapacityIsRemembered'
  BY <1>4 DEF IInv, BufferIsHeld, CapacityIsRemembered, Exists
<1> QED
  BY <1>1, <1>2, <1>3, <1>4, <1>5, <1>6, <1>7, <1>8, <1>10 DEF Structure, CountMoved

(* release_shared counts down; the thread that finds 1 is the one to free. *)
LEMMA FetchSubKeeps ==
    ASSUME IInv, NEW t \in Threads, FetchSub(t)
    PROVE  IInv'
<1>1. PICK s \in Blocks : s = pc[t].s
  BY PcType DEF IInv, FetchSub
<1>2. pc[t].op = "sub" /\ Published(s) /\ t \in ReleasesOf(s)
  BY <1>1 DEF IInv, Structure, OneBlock, FetchSub, ReleasesOf
<1>3. shared[s].ref_cnt = Shares(s) /\ forgotten[s] \in Nat
  BY <1>2 DEF IInv, TypeOK, Counting, CountIsExact
<1>4. shared[s].ref_cnt \in Nat \ {0}
  <2>1. Cardinality(ReleasesOf(s)) # 0
    BY <1>2, Counted, FewElements
  <2> QED
    BY <1>3, <2>1, Counted, SMTT(30) DEF Shares
<1>5. PICK n \in Nat : n = shared[s].ref_cnt - 1
  BY <1>4, SMTT(30)
<1>6. shared[s].ref_cnt <= UsizeMax
  BY <1>2, BoundHolds
<1>7. (shared[s].ref_cnt + UsizeMax) % (UsizeMax + 1) = n
  BY <1>4, <1>5, <1>6, CountAssumption, SMTT(30)
<1>8. PICK p : p = IF shared[s].ref_cnt = 1 THEN [op |-> "free", s |-> s] ELSE Idle
  OBVIOUS
<1>9. /\ p \in {Idle} \cup Pc /\ p.op \in {"idle", "free"} /\ (p.op # "idle" => p.s = s)
      /\ p.op = "free" <=> shared[s].ref_cnt = 1
  BY <1>8 DEF Pc, Idle
<1>10. /\ shared' = [shared EXCEPT ![s].ref_cnt = n]
       /\ pc' = [pc EXCEPT ![t] = p]
       /\ UNCHANGED <<handles, buf, layout, forgotten, leakedVec>>
  BY <1>1, <1>7, <1>8 DEF FetchSub
<1>11. /\ TypeOK' /\ Structure' /\ BufferIsHeld' /\ CapacityIsRemembered'
       /\ \A x \in Blocks : Published(x)' <=> x = s
       /\ shared'[s].ref_cnt = n
       /\ pc'[t] = p /\ \A u \in Threads : u # t => pc'[u] = pc[u]
  <2>1. CountStep(t, s, n, p)
    BY <1>1, <1>2, <1>9, <1>10 DEF CountStep
  <2> QED
    BY <2>1, CountMoves DEF CountMoved
<1>12. \A u \in Threads : pc[u].op # "free"
  <2>1. \A u \in Threads : pc[u].op = "free" => pc[u].s = s
    BY <1>2, PcType DEF IInv, Structure, OneBlock
  <2> QED
    BY <1>4, <2>1 DEF IInv, OneFrees
<1>13. OneFrees'
  <2>1. n = 0 <=> p.op = "free"
    BY <1>4, <1>5, <1>9, SMTT(30)
  <2> QED
    BY <1>9, <1>11, <1>12, <2>1 DEF OneFrees
<1>14. CountIsExact'
  <2>1. HandlesOf(s)' = HandlesOf(s) /\ ReleasesOf(s)' = ReleasesOf(s) \ {t}
    BY <1>9, <1>10, <1>11 DEF HandlesOf, ReleasesOf, Exists
  <2>2. Cardinality(ReleasesOf(s)') = Cardinality(ReleasesOf(s)) - 1
    BY <1>2, <2>1, Counted, OneLess
  <2>3. Shares(s)' = n
    BY <1>3, <1>5, <1>10, <2>1, <2>2, Counted, SMTT(30) DEF Shares
  <2> QED
    BY <1>11, <2>3 DEF CountIsExact
<1>15. CountIsBounded'
  <2>1. Late' = Late
    BY <1>2, <1>9, <1>11 DEF Late
  <2>2. shared[s].ref_cnt <= (UsizeMax \div 2) + 1 + Cardinality(Late)
    BY <1>2 DEF IInv, Counting, CountIsBounded
  <2>3. n <= (UsizeMax \div 2) + 1 + Cardinality(Late)
    BY <1>4, <1>5, <2>2, Counted, CountAssumption, SMTT(30)
  <2> QED
    BY <1>11, <2>1, <2>3 DEF CountIsBounded
<1> QED
  BY <1>11, <1>13, <1>14, <1>15 DEF IInv, Counting

(* shallow_clone_arc and owned_clone count up; the abort threshold leaves  *)
(* room for every thread, so the count does not wrap.                      *)
LEMMA FetchAddKeeps ==
    ASSUME IInv, NEW t \in Threads, FetchAdd(t)
    PROVE  IInv'
<1>1. pc[t].op = "add" /\ pc[t].h \in Handles /\ pc[t].s \in Blocks /\ pc[t].r \in CloneRequest
  BY PcType DEF IInv, FetchAdd
<1>2. PICK s \in Blocks : s = pc[t].s
  BY <1>1
<1>3. Published(s) /\ pc[t].h \in HandlesOf(s) /\ ~(t \in ReleasesOf(s)) /\ ~(t \in Late)
  <2>1. Published(s)
    BY <1>1, <1>2 DEF IInv, Structure, OneBlock
  <2>2. Exists(pc[t].h) /\ handles[pc[t].h].data = s
    <3>1. Owns(t)
      BY UserOwns
    <3> QED
      BY <1>1, <1>2, <3>1 DEF Owns
  <2> QED
    BY <1>1, <2>1, <2>2 DEF HandlesOf, ReleasesOf, Late
<1>4. shared[s].ref_cnt \in Nat /\ shared[s].ref_cnt < UsizeMax
  BY <1>3, BoundHolds
<1>5. PICK n \in Nat : n = shared[s].ref_cnt + 1
  BY <1>4, SMTT(30)
<1>6. (shared[s].ref_cnt + 1) % (UsizeMax + 1) = n
  BY <1>4, <1>5, CountAssumption, SMTT(30)
<1>7. PICK p : p = [op |-> "check", h |-> pc[t].h, s |-> s, r |-> pc[t].r,
                    old |-> shared[s].ref_cnt]
  OBVIOUS
<1>8. /\ p \in {Idle} \cup Pc /\ p.op = "check" /\ p.s = s /\ p.h = pc[t].h
      /\ p.old = shared[s].ref_cnt
  <2>1. p.op = "check" /\ p.s = s /\ p.h = pc[t].h /\ p.old = shared[s].ref_cnt
    BY <1>7
  <2>2. p \in [op : {"check"}, h : Handles, s : Blocks, r : CloneRequest, old : Nat]
    BY <1>1, <1>4, <1>7
  <2> QED
    BY <2>1, <2>2 DEF Pc
<1>9. CountStep(t, s, n, p)
  BY <1>1, <1>2, <1>3, <1>6, <1>7, <1>8 DEF FetchAdd, CountStep
<1>10. CountMoved(t, s, n, p)
  BY <1>9, CountMoves
<1>11. OneFrees'
  <2>1. shared[s].ref_cnt # 0
    <3>1. shared[s].ref_cnt = Shares(s) /\ forgotten[s] \in Nat
      BY <1>3 DEF IInv, TypeOK, Counting, CountIsExact
    <3>2. Cardinality(HandlesOf(s)) # 0
      BY <1>3, Counted, FewElements
    <3> QED
      BY <3>1, <3>2, Counted, SMTT(30) DEF Shares
  <2>2. \A u \in Threads : pc[u].op = "free" => pc[u].s = s
    BY <1>3, PcType DEF IInv, Structure, OneBlock
  <2>3. \A u \in Threads : pc[u].op # "free"
    BY <2>1, <2>2 DEF IInv, OneFrees
  <2>4. n # 0
    BY <1>4, <1>5, SMTT(30)
  <2> QED
    BY <1>8, <1>10, <2>3, <2>4 DEF CountMoved, OneFrees
<1>12. CountIsExact'
  <2>1. HandlesOf(s)' = HandlesOf(s) /\ ReleasesOf(s)' = ReleasesOf(s) \cup {t}
    BY <1>8, <1>9, <1>10 DEF CountStep, CountMoved, HandlesOf, ReleasesOf, Exists
  <2>2. Cardinality(ReleasesOf(s)') = Cardinality(ReleasesOf(s)) + 1
    BY <1>3, <2>1, Counted, OneMore
  <2>3. shared[s].ref_cnt = Shares(s) /\ forgotten'[s] = forgotten[s] /\ forgotten[s] \in Nat
    BY <1>3, <1>9 DEF IInv, TypeOK, Counting, CountIsExact, CountStep
  <2>4. Shares(s)' = n
    <3>1. Shares(s)' = Cardinality(HandlesOf(s)) + (Cardinality(ReleasesOf(s)) + 1) + forgotten[s]
      BY <2>1, <2>2, <2>3 DEF Shares
    <3> QED
      BY <1>5, <2>3, <3>1, Counted, SMTT(30) DEF Shares
  <2> QED
    BY <1>10, <2>4 DEF CountIsExact, CountMoved
<1>13. CountIsBounded'
  <2>1. PICK half \in Nat : half = UsizeMax \div 2
    BY CountAssumption, SMTT(30)
  <2>2. shared[s].ref_cnt <= half + 1 + Cardinality(Late)
    BY <1>3, <2>1 DEF IInv, Counting, CountIsBounded
  <2>3. CASE shared[s].ref_cnt > half
    <3>1. Late' = Late \cup {t}
      BY <1>8, <1>10, <2>1, <2>3 DEF Late, CountMoved
    <3>2. Cardinality(Late') = Cardinality(Late) + 1
      BY <1>3, <3>1, Counted, OneMore
    <3>3. n <= half + 1 + Cardinality(Late')
      BY <1>4, <1>5, <2>2, <3>2, Counted, SMTT(30)
    <3> QED
      BY <1>10, <2>1, <3>3 DEF CountIsBounded, CountMoved
  <2>4. CASE ~(shared[s].ref_cnt > half)
    <3>1. Late' = Late
      BY <1>3, <1>8, <1>10, <2>1, <2>4 DEF Late, CountMoved
    <3>2. n <= half + 1 + Cardinality(Late)
      BY <1>4, <1>5, <2>4, Counted, SMTT(30)
    <3> QED
      BY <1>10, <2>1, <3>1, <3>2 DEF CountIsBounded, CountMoved
  <2> QED
    BY <2>3, <2>4
<1> QED
  BY <1>10, <1>11, <1>12, <1>13 DEF IInv, Counting, CountMoved

-----------------------------------------------------------------------------
(* What a clone leaves when it returns: every handle shares block s, one   *)
(* more of them or one release instead (A names the new handle).           *)
Returned(t, s, A) ==
    /\ \A g \in Handles : Exists(g)' <=> Exists(g) \/ g \in A
    /\ \A g \in Handles : Exists(g)' => handles'[g].data = s
    /\ \A g \in Handles : Exists(g) => handles'[g].owners = handles[g].owners
    /\ \/ A = {} /\ pc'[t] = [op |-> "sub", s |-> s]
       \/ /\ pc'[t] = Idle
          /\ \E k \in Handles : A = {k} /\ ~Exists(k)
    /\ \A u \in Threads : u # t => pc'[u] = pc[u]
    /\ TypeOK'

Returning(t, h, s, r) ==
    /\ pc[t].h = h /\ pc[t].s = s /\ pc[t].r = r
    /\ \/ pc[t].op = "cas" /\ handles[h].data = KIND_VEC
       \/ pc[t].op = "check" /\ pc[t].old <= UsizeMax \div 2
    /\ Return(t, h, s, r, s)
    /\ UNCHANGED <<shared, buf, layout, forgotten, leakedVec>>

(* A finished clone adds one handle of the block, or one release of it     *)
(* (truncate of a promotable handle).                                      *)
LEMMA ReturnEffect ==
    ASSUME IInv, NEW t \in Threads, NEW h \in Handles, NEW s \in Blocks, NEW r \in CloneRequest,
           Returning(t, h, s, r)
    PROVE  /\ \E A \in SUBSET Handles : Returned(t, s, A)
           /\ Exists(h) /\ t \in handles[h].owners
           /\ \A g \in Handles : Exists(g) /\ g # h => handles[g].data = s
<1>1. Exists(h) /\ t \in handles[h].owners
  BY DEF IInv, Structure, UsersOwn, Owns, Returning
<1>2. \A g \in Handles : Exists(g) /\ g # h => handles[g].data = s
  <2>1. CASE pc[t].op = "cas" /\ handles[h].data = KIND_VEC
    BY <1>1, <2>1 DEF IInv, Structure, VecIsAlone
  <2>2. CASE pc[t].op = "check"
    BY <2>2, HandleType DEF IInv, Structure, OneBlock, VecIsAlone, Returning
  <2> QED
    BY <2>1, <2>2 DEF Returning
<1>3. PICK c \in Handle : /\ c = [handles[h] EXCEPT !.view = r.self, !.data = s]
                          /\ c.data = s /\ c.owners = handles[h].owners
  <2>1. handles[h] \in Handle /\ r.self \in View
    BY <1>1, HandleType DEF IInv, CloneRequest
  <2> DEFINE c == [handles[h] EXCEPT !.view = r.self, !.data = s]
  <2>2. c \in Handle /\ c.data = s /\ c.owners = handles[h].owners
    BY <2>1 DEF Handle
  <2> QED
    BY <2>2
<1>4. PICK new \in Handle :
         /\ new = [vtable |-> IF handles[h].vtable = "owned" THEN "owned" ELSE "shared",
                   data |-> s, view |-> r.ret, owners |-> {t}]
         /\ new.data = s
  <2> DEFINE vtable == IF handles[h].vtable = "owned" THEN "owned" ELSE "shared"
             new == [vtable |-> vtable, data |-> s, view |-> r.ret, owners |-> {t}]
  <2>1. vtable \in {"shared", "owned"} /\ r.ret \in View
    BY DEF CloneRequest
  <2> HIDE DEF vtable
  <2>2. new \in Handle /\ new.data = s
    BY <2>1 DEF Handle
  <2> QED
    BY <2>2 DEF vtable
<1>5. \A x \in Handle : x # NoHandle
  BY SMTT(30) DEF Handle, NoHandle
<1>6. [handles EXCEPT ![h].view = r.self, ![h].data = s] = [handles EXCEPT ![h] = c]
  BY <1>3 DEF IInv, TypeOK
<1>7. ASSUME r.discard PROVE \E A \in SUBSET Handles : Returned(t, s, A)
  <2>1. handles' = [handles EXCEPT ![h] = c] /\ pc' = [pc EXCEPT ![t] = [op |-> "sub", s |-> s]]
    BY <1>6, <1>7 DEF Returning, Return
  <2>2. /\ handles'[h] = c /\ \A g \in Handles : g # h => handles'[g] = handles[g]
        /\ pc'[t] = [op |-> "sub", s |-> s] /\ \A u \in Threads : u # t => pc'[u] = pc[u]
    BY <2>1 DEF IInv, TypeOK
  <2>3. TypeOK'
    <3>1. [op |-> "sub", s |-> s] \in Pc
      BY DEF Pc
    <3> QED
      BY <2>1, <3>1 DEF IInv, TypeOK, Returning
  <2>4. Returned(t, s, {})
    BY <1>1, <1>2, <1>3, <1>5, <2>2, <2>3 DEF Returned, Exists
  <2> QED
    BY <2>4
<1>8. ASSUME ~r.discard PROVE \E A \in SUBSET Handles : Returned(t, s, A)
  <2>1. \E k \in Handles : ~Exists(k)
    BY <1>8 DEF Returning, Return
  <2>2. PICK k \in Handles : k = (CHOOSE x \in Handles : ~Exists(x)) /\ ~Exists(k)
    BY <2>1
  <2>3. /\ handles' = [[handles EXCEPT ![h] = c] EXCEPT ![k] = new]
        /\ pc' = [pc EXCEPT ![t] = Idle]
    BY <1>4, <1>6, <1>8, <2>2 DEF Returning, Return
  <2>4. /\ h # k /\ handles'[h] = c /\ handles'[k] = new
        /\ \A g \in Handles : g # h /\ g # k => handles'[g] = handles[g]
        /\ pc'[t] = Idle /\ \A u \in Threads : u # t => pc'[u] = pc[u]
    BY <1>1, <2>2, <2>3 DEF IInv, TypeOK
  <2>5. TypeOK'
    BY <2>3 DEF IInv, TypeOK, Returning
  <2>6. Returned(t, s, {k})
    BY <1>1, <1>2, <1>3, <1>4, <1>5, <2>2, <2>4, <2>5 DEF Returned, Exists
  <2> QED
    BY <2>6
<1> QED
  BY <1>1, <1>2, <1>7, <1>8

(* A clone returns, by the compare_exchange that publishes its Shared or   *)
(* after its fetch_add.                                                    *)
LEMMA ReturnKeeps ==
    ASSUME IInv, NEW t \in Threads, NEW h \in Handles, NEW s \in Blocks, NEW r \in CloneRequest,
           Returning(t, h, s, r)
    PROVE  IInv'
<1>1. PICK A \in SUBSET Handles : Returned(t, s, A)
  BY ReturnEffect
<1>2. /\ Exists(h) /\ t \in handles[h].owners
      /\ \A g \in Handles : Exists(g) /\ g # h => handles[g].data = s
  BY ReturnEffect
<1>3. TypeOK' /\ pc'[t].op \in {"idle", "sub"} /\ (pc'[t].op = "sub" => pc'[t].s = s)
  BY <1>1, SMTT(30) DEF Returned, Idle
<1>4. /\ pc[t].op = "cas" => /\ s = t /\ shared[s] = Block(Cap, 2) /\ buf = "live"
                             /\ \A x \in Blocks : ~Published(x)
                             /\ \A g \in Handles : Exists(g) => g = h
      /\ pc[t].op = "check" => Published(s) /\ handles[h].data = s
      /\ pc[t].op \in {"cas", "check"}
  <2>1. pc[t].op \in {"cas", "check"} /\ pc[t].h = h /\ pc[t].s = s
    BY DEF Returning
  <2>2. ASSUME pc[t].op = "cas"
        PROVE  s = t /\ shared[s] = Block(Cap, 2) /\ handles[h].data = KIND_VEC
    BY <2>1, <2>2, UserOwns DEF Owns, Returning
  <2>3. handles[h].data = KIND_VEC => /\ buf = "live"
                                      /\ \A x \in Blocks : ~Published(x)
                                      /\ \A g \in Handles : Exists(g) => g = h
    BY <1>2 DEF IInv, Structure, VecIsAlone
  <2>4. ASSUME pc[t].op = "check" PROVE Published(s) /\ handles[h].data = s
    BY <2>1, <2>4, UserOwns DEF Owns, IInv, Structure, OneBlock
  <2> QED
    BY <2>1, <2>2, <2>3, <2>4
<1>5. \A x \in Blocks : Published(x)' <=> x = s
  <2>1. CASE pc[t].op = "cas"
    <3>1. \A u \in Threads : pc[u].op = "cas" => pc[u].s = u
      BY DEF IInv, Structure, UsersOwn, Owns
    <3>2. Published(s)'
      BY <1>1, <1>3, <1>4, <2>1, <3>1, SMTT(30) DEF Published, Returned, Returning, Block
    <3>3. ASSUME NEW x \in Blocks, x # s, Published(x)' PROVE FALSE
      <4>1. \A u \in Threads : ~(pc[u].op = "cas" /\ pc[u].s = x)
        BY <1>1, <1>4, <2>1, <3>1, <3>3 DEF Published, Returned
      <4> QED
        BY <1>4, <2>1, <3>3, <4>1 DEF Published, Returning
    <3> QED
      BY <3>2, <3>3
  <2>2. CASE pc[t].op = "check"
    <3>1. \A x \in Blocks : Published(x)' <=> Published(x)
      BY <1>1, <1>3, <2>2, SMTT(30) DEF Published, Returned, Returning
    <3> QED
      BY <1>4, <2>2, <3>1 DEF IInv, Structure, OneBlock
  <2> QED
    BY <1>4, <2>1, <2>2
<1>6. VecIsAlone'
  BY <1>1, BlocksAssumption DEF VecIsAlone, Returned
<1>7. \A u \in Threads : u # t /\ pc[u].op \in {"add", "check", "sub", "free"} =>
         pc[t].op = "check" /\ pc[u].s = s
  BY <1>4, PcType DEF IInv, Structure, OneBlock
<1>8. \A x \in Blocks : forgotten[x] # 0 => pc[t].op = "check" /\ x = s
  BY <1>4 DEF IInv, Structure, OneBlock
<1>9. OneBlock'
  <2>1. buf' = "live" /\ shared'[s].cap = Cap
    BY <1>4, SMTT(30) DEF IInv, Structure, OneBlock, Returning, Block
  <2>2. \A u \in Threads : pc'[u].op \in {"add", "check", "sub", "free"} => pc'[u].s = s
    BY <1>1, <1>3, <1>7 DEF Returned
  <2>3. \A x \in Blocks : forgotten'[x] # 0 => x = s
    BY <1>8 DEF Returning
  <2>4. \A g \in Handles : Exists(g)' => handles'[g].data = s
    BY <1>1 DEF Returned
  <2> QED
    BY <1>5, <2>1, <2>2, <2>3, <2>4 DEF OneBlock
<1>10. \A u \in Threads : u # t => pc[u].op # "into_mut"
  <2>1. CASE pc[t].op = "cas"
    <3> SUFFICES ASSUME NEW u \in Threads, u # t, pc[u].op = "into_mut" PROVE FALSE
      OBVIOUS
    <3>1. pc[u].h \in Handles
      BY PcType DEF IInv
    <3>2. Exists(pc[u].h) /\ handles[pc[u].h].owners = {u}
      BY UserOwns DEF Owns, Alone
    <3>3. pc[u].h = h
      BY <1>4, <2>1, <3>1, <3>2
    <3> QED
      BY <1>2, <3>2, <3>3
  <2>2. CASE pc[t].op = "check"
    BY <2>2, NoConversion
  <2> QED
    BY <1>4, <2>1, <2>2
<1>11. UsersOwn'
  <2>1. Owns(t)'
    BY <1>3 DEF Owns
  <2>2. ASSUME NEW u \in Threads, u # t PROVE Owns(u)'
    <3>1. pc'[u] = pc[u] /\ pc[u].op # "into_mut" /\ Owns(u)
      BY <1>1, <1>10, <2>2 DEF Returned, IInv, Structure, UsersOwn
    <3>2. pc[u].op \in {"cas", "add", "check"} =>
             /\ Exists(pc[u].h)' /\ u \in handles'[pc[u].h].owners
             /\ handles'[pc[u].h].data = s
      BY <1>1, <3>1, PcType DEF Returned, Owns, IInv
    <3>3. pc[u].op = "cas" => pc[u].s = u /\ shared'[u] = Block(Cap, 2)
      BY <3>1 DEF Owns, Returning
    <3>4. pc[u].op \in {"add", "check"} => pc[u].s = s
      BY <1>7, <2>2
    <3> QED
      BY <3>1, <3>2, <3>3, <3>4 DEF Owns
  <2> QED
    BY <2>1, <2>2 DEF UsersOwn
<1>12. OneFrees'
  <2>1. shared' = shared
    BY DEF Returning
  <2>2. \A u \in Threads : pc'[u].op = "free" <=> pc[u].op = "free"
    BY <1>1, <1>3, <1>4 DEF Returned
  <2>3. \A u \in Threads : pc[u].op = "free" => pc'[u] = pc[u]
    BY <1>1, <1>4 DEF Returned
  <2>4. shared[s].ref_cnt = 0 => pc[t].op = "check"
    BY <1>4, SMTT(30) DEF Block
  <2> QED
    BY <1>4, <1>5, <2>1, <2>2, <2>3, <2>4, SMTT(30) DEF IInv, OneFrees
<1>13. CountIsExact'
  <2>1. HandlesOf(s)' = HandlesOf(s) \cup {h} \cup A
    BY <1>1, <1>2 DEF Returned, HandlesOf
  <2>2. /\ pc'[t].op = "sub" => ReleasesOf(s)' = ReleasesOf(s) \cup {t} /\ A = {}
        /\ pc'[t].op = "idle" => ReleasesOf(s)' = ReleasesOf(s) \ {t}
    BY <1>1, <1>3, SMTT(30) DEF Returned, ReleasesOf, Idle
  <2>3. pc'[t].op = "idle" => \E k \in Handles : A = {k} /\ ~Exists(k)
    BY <1>1, SMTT(30) DEF Returned
  <2>4. forgotten'[s] = forgotten[s] /\ forgotten[s] \in Nat /\ shared' = shared
    BY DEF IInv, TypeOK, Returning
  <2>5. CASE pc[t].op = "cas"
    <3>1. HandlesOf(s) = {} /\ ReleasesOf(s) = {} /\ forgotten[s] = 0
      BY <1>4, <1>7, <1>8, <2>5, BlocksAssumption DEF HandlesOf, ReleasesOf, Returning
    <3>2. shared[s].ref_cnt = 2
      BY <1>4, <2>5, SMTT(30) DEF Block
    <3>3. Cardinality({h}) = 1 /\ IsFiniteSet({h}) /\ Cardinality({t}) = 1 /\ Cardinality({}) = 0
      BY OneAndNone
    <3>4. ASSUME pc'[t].op = "sub" PROVE Shares(s)' = 2
      <4>1. HandlesOf(s)' = {h} /\ ReleasesOf(s)' = {t}
        BY <2>1, <2>2, <3>1, <3>4
      <4> QED
        BY <2>4, <3>1, <3>3, <4>1, SMTT(30) DEF Shares
    <3>5. ASSUME pc'[t].op = "idle" PROVE Shares(s)' = 2
      <4>1. PICK k \in Handles : A = {k} /\ ~Exists(k)
        BY <2>3, <3>5
      <4>2. HandlesOf(s)' = {h} \cup {k} /\ ~(k \in {h}) /\ ReleasesOf(s)' = {}
        BY <1>2, <2>1, <2>2, <3>1, <3>5, <4>1
      <4>3. Cardinality(HandlesOf(s)') = 2
        BY <3>3, <4>2, OneMore, SMTT(30)
      <4> QED
        BY <2>4, <3>1, <3>3, <4>2, <4>3, SMTT(30) DEF Shares
    <3> QED
      BY <1>3, <1>5, <2>4, <3>2, <3>4, <3>5 DEF CountIsExact
  <2>6. CASE pc[t].op = "check"
    <3>1. h \in HandlesOf(s) /\ t \in ReleasesOf(s) /\ shared[s].ref_cnt = Shares(s)
      BY <1>2, <1>4, <2>6 DEF HandlesOf, ReleasesOf, Returning, IInv, Counting, CountIsExact
    <3>2. ASSUME pc'[t].op = "sub" PROVE Shares(s)' = Shares(s)
      <4>1. HandlesOf(s)' = HandlesOf(s) /\ ReleasesOf(s)' = ReleasesOf(s)
        BY <2>1, <2>2, <3>1, <3>2
      <4> QED
        BY <2>4, <4>1 DEF Shares
    <3>3. ASSUME pc'[t].op = "idle" PROVE Shares(s)' = Shares(s)
      <4>1. PICK k \in Handles : A = {k} /\ ~Exists(k)
        BY <2>3, <3>3
      <4>2. HandlesOf(s)' = HandlesOf(s) \cup {k} /\ ReleasesOf(s)' = ReleasesOf(s) \ {t}
        BY <2>1, <2>2, <3>1, <3>3, <4>1
      <4>3. ~(k \in HandlesOf(s))
        BY <4>1 DEF HandlesOf
      <4>4. Cardinality(HandlesOf(s)') = Cardinality(HandlesOf(s)) + 1
        BY <4>2, <4>3, Counted, OneMore
      <4>5. Cardinality(ReleasesOf(s)') = Cardinality(ReleasesOf(s)) - 1
        BY <3>1, <4>2, Counted, OneLess
      <4> QED
        BY <2>4, <4>4, <4>5, Counted, SMTT(30) DEF Shares
    <3> QED
      BY <1>3, <1>5, <2>4, <3>1, <3>2, <3>3 DEF CountIsExact
  <2> QED
    BY <1>4, <2>5, <2>6
<1>14. CountIsBounded'
  <2>1. shared' = shared
    BY DEF Returning
  <2>2. Late' = Late
    <3>1. ~(t \in Late)
      BY CountAssumption, PcType, SMTT(30) DEF Late, Returning, IInv
    <3> QED
      BY <1>1, <1>3, <3>1 DEF Late, Returned
  <2>3. PICK half \in Nat : half = UsizeMax \div 2
    BY CountAssumption, SMTT(30)
  <2>4. half >= 1
    <3>1. Cardinality(Threads) # 0 /\ Cardinality(Threads) \in Nat
      BY CountAssumption DEF IInv, CardinalityLaws
    <3>2. 1 + half < UsizeMax /\ UsizeMax \in Nat
      BY <2>3, <3>1, CountAssumption, SMTT(30)
    <3> QED
      BY <2>3, <3>2, SMTT(30)
  <2>5. shared[s].ref_cnt <= half + 1 + Cardinality(Late)
    <3>1. pc[t].op = "cas" => shared[s].ref_cnt = 2
      BY <1>4, SMTT(30) DEF Block
    <3>2. pc[t].op = "check" => shared[s].ref_cnt <= half + 1 + Cardinality(Late)
      BY <1>4, <2>3 DEF IInv, Counting, CountIsBounded
    <3> QED
      BY <1>4, <2>4, <3>1, <3>2, Counted, SMTT(30)
  <2> QED
    BY <1>5, <2>1, <2>2, <2>3, <2>5 DEF CountIsBounded
<1>16. BufferIsHeld' /\ CapacityIsRemembered'
  BY <1>5 DEF IInv, BufferIsHeld, CapacityIsRemembered, Returning
<1> QED
  BY <1>3, <1>6, <1>9, <1>11, <1>12, <1>13, <1>14, <1>16 DEF IInv, Structure, Counting

(* A thread begins an operation of several steps, or turns from one clone  *)
(* to another: no block in use changes.                                    *)
MovesOn(t, p) ==
    /\ pc[t].op \in {"idle", "cas"} /\ p.op \in {"cas", "add", "into_mut"}
    /\ pc'[t] = p /\ \A u \in Threads : u # t => pc'[u] = pc[u]
    /\ UNCHANGED <<handles, buf, layout, forgotten, leakedVec>>
    /\ \A x \in Blocks : Published(x)' <=> Published(x)
    /\ \A x \in Blocks : Published(x) => shared'[x] = shared[x]
    /\ p.op = "add" => Published(p.s)

(* Such a step moves no count; what is left is that the thread owns what   *)
(* it goes on to use.                                                      *)
LEMMA NoCountMoves ==
    ASSUME IInv, NEW t \in Threads, NEW p \in Pc, MovesOn(t, p),
           TypeOK', UsersOwn'
    PROVE  IInv'
<1>1. /\ handles' = handles /\ buf' = buf /\ layout' = layout
      /\ forgotten' = forgotten /\ leakedVec' = leakedVec
      /\ \A x \in Blocks : Published(x)' <=> Published(x)
      /\ \A x \in Blocks : Published(x) => shared'[x] = shared[x]
  BY DEF MovesOn
<1>2. \A u \in Threads :
         /\ pc'[u].op \in {"check", "sub", "free"} <=> pc[u].op \in {"check", "sub", "free"}
         /\ pc[u].op \in {"check", "sub", "free"} => pc'[u] = pc[u]
         /\ pc'[u].op = "add" => pc'[u] = pc[u] \/ Published(pc'[u].s)
  BY DEF MovesOn
<1>3. VecIsAlone'
  BY <1>1 DEF IInv, Structure, VecIsAlone, Exists
<1>4. OneBlock'
  <2>1. ASSUME NEW h \in Handles, Exists(h)', handles'[h].data # KIND_VEC, NEW s, s = handles'[h].data
        PROVE  Published(s)'
    BY <1>1, <2>1, HandleType DEF IInv, Structure, OneBlock, Exists
  <2>2. ASSUME NEW u \in Threads, pc'[u].op \in {"add", "check", "sub", "free"},
               NEW s, s = pc'[u].s
        PROVE  Published(s)'
    <3>1. s \in Blocks
      BY <2>2, SMTT(30) DEF TypeOK, Pc, Idle
    <3>2. Published(s)
      BY <1>2, <2>2 DEF IInv, Structure, OneBlock
    <3> QED
      BY <1>1, <3>1, <3>2
  <2> QED
    BY <1>1, <2>1, <2>2, SMTT(30) DEF IInv, Structure, OneBlock
<1>5. OneFrees'
  <2>1. \A u \in Threads : pc[u].op = "free" => pc[u].s \in Blocks /\ Published(pc[u].s)
    BY PcType DEF IInv, Structure, OneBlock
  <2> QED
    BY <1>1, <1>2, <2>1, SMTT(30) DEF IInv, OneFrees
<1>6. Counting'
  <2>1. Late' = Late
    BY <1>2 DEF Late
  <2>2. \A x \in Blocks : HandlesOf(x)' = HandlesOf(x) /\ ReleasesOf(x)' = ReleasesOf(x)
    BY <1>1, <1>2 DEF HandlesOf, ReleasesOf, Exists
  <2> QED
    BY <1>1, <2>1, <2>2 DEF IInv, Counting, CountIsExact, CountIsBounded, Shares
<1>7. BufferIsHeld' /\ CapacityIsRemembered'
  BY <1>1 DEF IInv, BufferIsHeld, CapacityIsRemembered, Exists
<1> QED
  BY <1>3, <1>4, <1>5, <1>6, <1>7 DEF IInv, Structure

(* A clone of a shared handle begins.                                      *)
LEMMA LoadShared ==
    ASSUME IInv, NEW t \in Threads, NEW h \in Handles, Exists(h), t \in handles[h].owners,
           pc[t] = Idle, NEW s \in Blocks, s = handles[h].data,
           NEW p \in Pc, p.op = "add", p.h = h, p.s = s,
           pc' = [pc EXCEPT ![t] = p],
           UNCHANGED <<handles, shared, buf, layout, forgotten, leakedVec>>
    PROVE  IInv'
<1>1. /\ Published(s) /\ pc[t].op = "idle" /\ TypeOK'
      /\ pc'[t] = p /\ \A u \in Threads : u # t => pc'[u] = pc[u]
  BY BlocksAssumption, SMTT(30) DEF IInv, TypeOK, Structure, OneBlock, Idle
<1>2. \A x \in Blocks : Published(x)' <=> Published(x)
  BY <1>1 DEF Published
<1>3. UsersOwn'
  <2>1. Owns(t)'
    BY <1>1 DEF Owns, Exists
  <2> QED
    BY <1>1, <2>1, OthersOwn DEF UsersOwn
<1>5. MovesOn(t, p)
  BY <1>1, <1>2 DEF MovesOn
<1> QED
  BY <1>1, <1>3, <1>5, NoCountMoves

(* The first clone begins: a Shared for two handles, not yet published.    *)
LEMMA LoadVec ==
    ASSUME IInv, NEW t \in Threads, NEW h \in Handles, Exists(h), t \in handles[h].owners,
           pc[t] = Idle, handles[h].data = KIND_VEC,
           NEW p \in Pc, p.op = "cas", p.h = h, p.s = t,
           shared' = [shared EXCEPT ![t] = Block(End(handles[h].view), 2)],
           pc' = [pc EXCEPT ![t] = p],
           UNCHANGED <<handles, buf, layout, forgotten, leakedVec>>
    PROVE  IInv'
<1>1. /\ \A x \in Blocks : ~Published(x)
      /\ \A g \in Handles : Exists(g) => g = h
      /\ pc[t].op = "idle" /\ t \in Blocks
      /\ pc'[t] = p /\ \A u \in Threads : u # t => pc'[u] = pc[u]
      /\ shared'[t] = Block(Cap, 2) /\ \A x \in Blocks : x # t => shared'[x] = shared[x]
  BY SMTT(30) DEF IInv, TypeOK, Structure, VecIsAlone, Idle, Blocks, End
<1>2. TypeOK'
  BY <1>1, BufferAssumption, SMTT(30) DEF IInv, TypeOK, Block
<1>3. \A x \in Blocks : ~Published(x)'
  BY <1>1, SMTT(30) DEF Published
<1>4. UsersOwn'
  <2>1. Owns(t)'
    BY <1>1 DEF Owns, Exists
  <2>2. ASSUME NEW u \in Threads, u # t PROVE Owns(u)'
    <3>1. u \in Blocks /\ shared'[u] = shared[u]
      BY <1>1, <2>2 DEF Blocks
    <3>2. pc[u].op = "into_mut" => handles[pc[u].h].data = KIND_VEC
      <4>1. pc[u].op = "into_mut" => pc[u].h \in Handles /\ Exists(pc[u].h)
        BY PcType, UserOwns DEF IInv, Owns, Alone
      <4> QED
        BY <1>1, <4>1
    <3> QED
      BY <1>1, <2>2, <3>1, <3>2, OthersOwn
  <2> QED
    BY <2>1, <2>2 DEF UsersOwn
<1>6. MovesOn(t, p)
  BY <1>1, <1>3 DEF MovesOn
<1> QED
  BY <1>2, <1>4, <1>6, NoCountMoves

(* Another clone was published first: its Shared is used and this one's    *)
(* freed.                                                                  *)
LEMMA CompareExchangeFails ==
    ASSUME IInv, NEW t \in Threads, pc[t].op = "cas",
           NEW s \in Blocks, s = handles[pc[t].h].data,
           NEW p \in Pc, p.op = "add", p.h = pc[t].h, p.s = s,
           shared' = [shared EXCEPT ![t] = NoBlock],
           pc' = [pc EXCEPT ![t] = p],
           UNCHANGED <<handles, buf, layout, forgotten, leakedVec>>
    PROVE  IInv'
<1>1. /\ pc[t].h \in Handles /\ Exists(pc[t].h) /\ t \in handles[pc[t].h].owners
      /\ pc[t].s = t /\ t \in Blocks
  <2>1. pc[t].h \in Handles /\ t \in Blocks
    BY PcType DEF IInv, Blocks
  <2> QED
    BY <2>1, UserOwns DEF Owns
<1>2. /\ pc'[t] = p /\ \A u \in Threads : u # t => pc'[u] = pc[u]
      /\ shared'[t] = NoBlock /\ \A x \in Blocks : x # t => shared'[x] = shared[x]
      /\ Published(s)
  BY <1>1, BlocksAssumption, SMTT(30) DEF IInv, TypeOK, Structure, OneBlock
<1>3. TypeOK'
  BY <1>1, <1>2 DEF IInv, TypeOK, NoBlock
<1>5. \A x \in Blocks : /\ Published(x)' <=> Published(x)
                        /\ Published(x) => x # t
  <2>1. SUFFICES ASSUME NEW x \in Blocks
                 PROVE  (Published(x)' <=> Published(x)) /\ (Published(x) => x # t)
    OBVIOUS
  <2>2. Published(x) => x # t
    BY <1>1 DEF Published
  <2>3. Published(x)' => x # t
    <3>1. ~NoBlock.alive
      BY SMTT(30) DEF NoBlock
    <3> QED
      BY <1>2, <3>1 DEF Published
  <2>4. ASSUME x # t PROVE Published(x)' <=> Published(x)
    <3>1. shared'[x] = shared[x]
      BY <1>2, <2>4
    <3>2. ASSUME NEW u \in Threads
          PROVE  (pc'[u].op = "cas" /\ pc'[u].s = x) <=> (pc[u].op = "cas" /\ pc[u].s = x)
      <4>1. CASE u = t
        BY <1>1, <1>2, <2>4, <4>1
      <4>2. CASE u # t
        BY <1>2, <4>2
      <4> QED
        BY <4>1, <4>2
    <3> QED
      BY <3>1, <3>2 DEF Published
  <2> QED
    BY <2>2, <2>3, <2>4
<1>6. UsersOwn'
  <2>1. Owns(t)'
    <3>1. pc'[t].op = "add" /\ pc'[t].h = pc[t].h /\ pc'[t].s = handles'[pc[t].h].data
      BY <1>2
    <3>2. handles'[pc[t].h] # NoHandle /\ t \in handles'[pc[t].h].owners
      BY <1>1 DEF Exists
    <3> QED
      BY <3>1, <3>2 DEF Owns, Exists
  <2>2. ASSUME NEW u \in Threads, u # t PROVE Owns(u)'
    <3>1. u \in Blocks /\ shared'[u] = shared[u]
      BY <1>2, <2>2 DEF Blocks
    <3>2. pc[u].op = "into_mut" /\ handles[pc[u].h].data # KIND_VEC =>
             shared'[handles[pc[u].h].data] = shared[handles[pc[u].h].data]
      <4> SUFFICES ASSUME pc[u].op = "into_mut", handles[pc[u].h].data # KIND_VEC
                   PROVE  shared'[handles[pc[u].h].data] = shared[handles[pc[u].h].data]
        OBVIOUS
      <4>1. pc[u].h \in Handles /\ Exists(pc[u].h)
        BY PcType, UserOwns DEF IInv, Owns, Alone
      <4>2. PICK x \in Blocks : x = handles[pc[u].h].data
        BY <4>1, HandleType DEF IInv
      <4>3. Published(x)
        BY <4>1, <4>2 DEF IInv, Structure, OneBlock
      <4> QED
        BY <1>2, <1>5, <4>2, <4>3
    <3> QED
      BY <1>2, <2>2, <3>1, <3>2, OthersOwn
  <2> QED
    BY <2>1, <2>2 DEF UsersOwn
<1>8. MovesOn(t, p)
  BY <1>2, <1>5 DEF MovesOn
<1> QED
  BY <1>3, <1>6, <1>8, NoCountMoves

(* try_into_mut found its handle the only one.                             *)
LEMMA TryIntoMutKeeps ==
    ASSUME IInv, NEW t \in Threads, NEW h \in Handles, TryIntoMut(t, h)
    PROVE  IInv'
<1>1. PICK p \in Pc : p = [op |-> "into_mut", h |-> h]
  BY DEF Pc
<1>2. /\ pc[t].op = "idle" /\ p.op = "into_mut" /\ p.h = h /\ Alone(t, h) /\ is_unique(h)
      /\ pc'[t] = p /\ \A u \in Threads : u # t => pc'[u] = pc[u]
      /\ UNCHANGED <<handles, shared, buf, layout, forgotten, leakedVec>>
  BY <1>1, SMTT(30) DEF IInv, TypeOK, TryIntoMut, Ready, Idle
<1>3. TypeOK'
  BY <1>1, <1>2 DEF IInv, TypeOK, TryIntoMut
<1>4. \A x \in Blocks : Published(x)' <=> Published(x)
  BY <1>2 DEF Published
<1>5. UsersOwn'
  <2>1. Owns(t)'
    BY <1>2 DEF Owns, Exists, Alone, is_unique
  <2> QED
    BY <1>2, <2>1, OthersOwn DEF UsersOwn
<1>7. MovesOn(t, p)
  BY <1>2, <1>4 DEF MovesOn
<1> QED
  BY <1>3, <1>5, <1>7, NoCountMoves

(* What a clone, slice, split or truncate asks for is well formed.         *)
LEMMA AskedType ==
    ASSUME IInv, NEW t \in Threads, NEW h \in Handles, Exists(h)
    PROVE  Asked(t, h) \subseteq CloneRequest
<1>1. PICK v \in View : v = handles[h].view
  BY HandleType DEF IInv
<1>2. \A a, b \in View : Request(a, b, FALSE) \in CloneRequest
  BY DEF Request, CloneRequest
<1>3. clone(v) \subseteq CloneRequest
  BY <1>2 DEF clone
<1>4. slice(v) \subseteq CloneRequest
  <2>1. SubViews(v) \subseteq View
    BY BufferAssumption, SMTT(30) DEF SubViews, Views, View
  <2> QED
    BY <1>2, <2>1 DEF slice
<1>5. \A at \in 1..(v.len - 1) : Before(v, at) \in View /\ After(v, at) \in View
  <2> SUFFICES ASSUME NEW at \in 1..(v.len - 1)
               PROVE  Before(v, at) \in View /\ After(v, at) \in View
    OBVIOUS
  <2>1. v.off \in Nat /\ v.len \in Nat
    BY DEF View
  <2>2. at \in Nat /\ v.off + at \in Nat /\ v.len - at \in Nat
    BY <2>1, SMTT(30)
  <2> QED
    BY <2>1, <2>2 DEF Before, After, View
<1>6. split_off(v) \subseteq CloneRequest /\ split_to(v) \subseteq CloneRequest
  BY <1>2, <1>5 DEF split_off, split_to
<1>7. truncate_promotable(v) \subseteq CloneRequest
  BY <1>6 DEF truncate_promotable, CloneRequest
<1> QED
  BY <1>1, <1>3, <1>4, <1>6, <1>7 DEF Asked

(* A clone begins with the load of the data word.                          *)
LEMMA LoadKeeps ==
    ASSUME IInv, NEW t \in Threads, NEW h \in Handles, Load(t, h)
    PROVE  IInv'
<1>1. /\ Exists(h) /\ t \in handles[h].owners /\ pc[t] = Idle
      /\ UNCHANGED <<handles, buf, layout, forgotten, leakedVec>>
  BY DEF Load, Ready
<1>2. PICK r \in Asked(t, h) :
         \/ /\ handles[h].data = KIND_VEC
            /\ shared' = [shared EXCEPT ![t] = Block(End(handles[h].view), 2)]
            /\ pc' = [pc EXCEPT ![t] = [op |-> "cas", h |-> h, s |-> t, r |-> r]]
         \/ /\ handles[h].data # KIND_VEC
            /\ pc' = [pc EXCEPT ![t] = [op |-> "add", h |-> h, s |-> handles[h].data, r |-> r]]
            /\ UNCHANGED shared
  BY DEF Load
<1>3. r \in CloneRequest
  BY <1>1, AskedType
<1>4. CASE handles[h].data = KIND_VEC
  <2>1. PICK p \in Pc : p = [op |-> "cas", h |-> h, s |-> t, r |-> r]
    BY <1>3 DEF Pc, Blocks
  <2>2. p.op = "cas" /\ p.h = h /\ p.s = t
    BY <2>1
  <2> QED
    BY <1>1, <1>2, <1>4, <2>1, <2>2, LoadVec
<1>5. CASE handles[h].data # KIND_VEC
  <2>1. PICK s \in Blocks : s = handles[h].data
    BY <1>1, <1>5, HandleType DEF IInv
  <2>2. PICK p \in Pc : p = [op |-> "add", h |-> h, s |-> s, r |-> r]
    BY <1>3 DEF Pc
  <2>3. p.op = "add" /\ p.h = h /\ p.s = s
    BY <2>2
  <2>4. /\ pc' = [pc EXCEPT ![t] = p]
        /\ UNCHANGED <<handles, shared, buf, layout, forgotten, leakedVec>>
    BY <1>1, <1>2, <1>5, <2>1, <2>2
  <2> QED
    BY <1>1, <2>1, <2>3, <2>4, LoadShared
<1> QED
  BY <1>4, <1>5

(* The compare_exchange of shallow_clone_vec, won or lost.                 *)
LEMMA CompareExchangeKeeps ==
    ASSUME IInv, NEW t \in Threads, CompareExchange(t)
    PROVE  IInv'
<1>1. /\ pc[t].op = "cas" /\ pc[t].h \in Handles /\ pc[t].s \in Blocks
      /\ pc[t].r \in CloneRequest /\ UNCHANGED <<buf, layout, forgotten, leakedVec>>
  BY PcType DEF IInv, CompareExchange
<1>2. CASE handles[pc[t].h].data = KIND_VEC
  <2>1. Returning(t, pc[t].h, pc[t].s, pc[t].r)
    BY <1>1, <1>2 DEF CompareExchange, Returning
  <2> QED
    BY <1>1, <2>1, ReturnKeeps
<1>3. CASE handles[pc[t].h].data # KIND_VEC
  <2>1. PICK s \in Blocks : s = handles[pc[t].h].data
    <3>1. Exists(pc[t].h)
      BY <1>1, UserOwns DEF Owns
    <3> QED
      BY <1>1, <1>3, <3>1, HandleType DEF IInv
  <2>2. PICK p \in Pc : p = [op |-> "add", h |-> pc[t].h, s |-> s, r |-> pc[t].r]
    BY <1>1 DEF Pc
  <2>3. p.op = "add" /\ p.h = pc[t].h /\ p.s = s
    BY <2>2
  <2>4. /\ shared' = [shared EXCEPT ![t] = NoBlock]
        /\ pc' = [pc EXCEPT ![t] = p]
        /\ UNCHANGED <<handles, buf, layout, forgotten, leakedVec>>
    BY <1>3, <2>1, <2>2 DEF CompareExchange
  <2> QED
    BY <1>1, <2>1, <2>3, <2>4, CompareExchangeFails
<1> QED
  BY <1>2, <1>3

(* The check after fetch_add: the clone returns, or the abort leaves all   *)
(* as it was.                                                              *)
LEMMA CheckOverflowKeeps ==
    ASSUME IInv, NEW t \in Threads, CheckOverflow(t)
    PROVE  IInv' \/ UNCHANGED <<handles, shared, buf, layout, pc, forgotten, leakedVec>>
<1>1. /\ pc[t].op = "check" /\ pc[t].h \in Handles /\ pc[t].s \in Blocks
      /\ pc[t].r \in CloneRequest /\ UNCHANGED <<shared, buf, layout, forgotten, leakedVec>>
      /\ handles[pc[t].h].data = pc[t].s
  <2>1. /\ pc[t].op = "check"
        /\ UNCHANGED <<shared, buf, layout, forgotten, leakedVec>>
    BY DEF CheckOverflow
  <2>2. pc[t].h \in Handles /\ pc[t].s \in Blocks /\ pc[t].r \in CloneRequest
    BY <2>1, PcType DEF IInv
  <2> QED
    BY <2>1, <2>2, UserOwns DEF Owns
<1>2. CASE Return(t, pc[t].h, pc[t].s, pc[t].r, pc[t].s) /\ pc[t].old <= UsizeMax \div 2
  <2>1. Returning(t, pc[t].h, pc[t].s, pc[t].r)
    BY <1>1, <1>2 DEF Returning
  <2> QED
    BY <1>1, <2>1, ReturnKeeps
<1> QED
  BY <1>1, <1>2 DEF CheckOverflow

(* A step that leaves everything but the abort flag alone.                 *)
LEMMA NothingMoves ==
    ASSUME IInv, UNCHANGED <<handles, shared, buf, layout, pc, forgotten, leakedVec>>
    PROVE  IInv'
<1>1. TypeOK'
  BY DEF IInv, TypeOK
<1>2. VecIsAlone' /\ OneBlock'
  <2>1. VecIsAlone'
    BY DEF IInv, Structure, VecIsAlone, Published, Exists
  <2>2. OneBlock'
    <3>1. \A x : Published(x)' <=> Published(x)
      BY DEF Published
    <3> QED
      BY <3>1 DEF IInv, Structure, OneBlock, Exists
  <2> QED
    BY <2>1, <2>2
<1>3. UsersOwn'
  <2>1. ASSUME NEW u \in Threads PROVE Owns(u)'
    BY OthersOwn
  <2> QED
    BY <2>1 DEF UsersOwn
<1>4. Counting'
  BY DEF IInv, Counting, CountIsExact, CountIsBounded, Shares, HandlesOf, ReleasesOf, Late,
         Published, Exists
<1>5. OneFrees'
  BY DEF IInv, OneFrees, Published
<1>6. BufferIsHeld' /\ CapacityIsRemembered'
  BY DEF IInv, BufferIsHeld, CapacityIsRemembered, Published,
         Exists
<1> QED
  BY <1>1, <1>2, <1>3, <1>4, <1>5, <1>6 DEF IInv, Structure

(* Every step of every thread keeps the invariant.                         *)
LEMMA NextIInv == IInv /\ [Next]_vars => IInv'
<1> SUFFICES ASSUME IInv, [Next]_vars PROVE IInv'
  OBVIOUS
<1>1. CASE UNCHANGED vars
  BY <1>1, NothingMoves DEF vars
<1>2. CASE Stop
  BY <1>2, NothingMoves DEF Stop, vars
<1>3. ASSUME NEW t \in Threads, NEW h \in Handles, Begin(t, h) PROVE IInv'
  <2>1. CASE Load(t, h)
    BY <2>1, LoadKeeps
  <2>2. CASE Drop(t, h) \/ Forget(t, h)
    BY <2>2, DropKeeps
  <2>3. CASE Advance(t, h) \/ TruncateInPlace(t, h) \/ LetGo(t, h)
    BY <2>3, ViewStepKeeps
  <2>4. CASE Into(t, h)
    <3>1. Alone(t, h) /\ pc[t].op = "idle" /\ Convert(t, h)
      BY <2>4, SMTT(30) DEF Into, Ready, Idle
    <3> QED
      BY <3>1, ConvertKeeps
  <2>5. CASE TryIntoMut(t, h)
    BY <2>5, TryIntoMutKeeps
  <2> QED
    BY <1>3, <2>1, <2>2, <2>3, <2>4, <2>5 DEF Begin
<1>4. ASSUME NEW t \in Threads, Continue(t) PROVE IInv'
  <2>1. CASE CompareExchange(t)
    BY <2>1, CompareExchangeKeeps
  <2>2. CASE FetchAdd(t)
    BY <2>2, FetchAddKeeps
  <2>3. CASE CheckOverflow(t)
    BY <2>3, CheckOverflowKeeps, NothingMoves
  <2>4. CASE FetchSub(t)
    BY <2>4, FetchSubKeeps
  <2>5. CASE Free(t)
    BY <2>5, FreeKeeps
  <2>6. CASE IntoMut(t)
    <3>1. PICK h \in Handles : h = pc[t].h
      BY <2>6, PcType DEF IInv, IntoMut
    <3>2. Alone(t, h) /\ pc[t].op = "into_mut" /\ Convert(t, h)
      BY <2>6, <3>1 DEF IInv, Structure, UsersOwn, Owns, IntoMut
    <3> QED
      BY <3>2, ConvertKeeps
  <2> QED
    BY <1>4, <2>1, <2>2, <2>3, <2>4, <2>5, <2>6 DEF Continue
<1> QED
  BY <1>1, <1>2, <1>3, <1>4 DEF Next

(* One handle: alone with the buffer, or with the one share of a block.    *)
LEMMA InitIInv == CardinalityLaws /\ Init => IInv
<1> SUFFICES ASSUME CardinalityLaws, Init PROVE IInv
  OBVIOUS
<1>1. PICK f \in Handles : f = CHOOSE k \in Handles : TRUE
  BY HandlesAssumption
<1>2. PICK first \in {FromBoxedSlice, FromVec, from_owner} :
         /\ handles = [h \in Handles |-> IF h = f THEN first ELSE NoHandle]
         /\ shared = [s \in Blocks |-> IF s = first.data THEN Block(Cap, 1) ELSE NoBlock]
  BY <1>1 DEF Init
<1>3. /\ first \in Handle /\ first # NoHandle
      /\ \/ first.data = "first"
         \/ /\ first.data = KIND_VEC /\ first.vtable = "promotable"
            /\ first.view.off + first.view.len = Cap
  <2>1. Cap \in Nat /\ Cap - 1 \in Nat /\ 0 + Cap = Cap
    BY BufferAssumption, SMTT(30)
  <2>2. "first" \in Blocks
    BY DEF Blocks
  <2>3. CASE first = FromBoxedSlice
    BY <2>1, <2>3 DEF FromBoxedSlice, First, Handle, View, NoHandle
  <2>4. CASE first = FromVec
    BY <2>1, <2>2, <2>4 DEF FromVec, First, Handle, View, NoHandle
  <2>5. CASE first = from_owner
    BY <2>1, <2>2, <2>5 DEF from_owner, First, Handle, View, NoHandle
  <2> QED
    BY <2>3, <2>4, <2>5
<1>4. \A g \in Handles : Exists(g) <=> g = f
  BY <1>2, <1>3 DEF Exists
<1>5. /\ \A t \in Threads : pc[t] = Idle /\ pc[t].op = "idle"
      /\ \A s \in Blocks : forgotten[s] = 0
      /\ buf = "live"
  BY DEF Init, Idle
<1>6. \A s \in Blocks : Published(s) <=> s = first.data
  BY <1>2, <1>5 DEF Published, Block, NoBlock
<1>7. TypeOK
  BY <1>2, <1>3, BufferAssumption DEF Init, TypeOK, Block, NoBlock
<1>8. Structure
  <2>1. handles[f] = first /\ first.data \in Blocks \cup {KIND_VEC}
    BY <1>2, <1>3 DEF Handle
  <2>2. VecIsAlone
    <3>1. first.data = KIND_VEC => \A s \in Blocks : ~Published(s)
      BY <1>6, BlocksAssumption
    <3>2. ~("first" = KIND_VEC)
      BY BlocksAssumption DEF Blocks
    <3> QED
      BY <1>3, <1>4, <1>5, <2>1, <3>1, <3>2 DEF VecIsAlone
  <2>3. OneBlock
    <3>1. \A s \in Blocks : Published(s) => shared[s].cap = Cap
      BY <1>2, <1>6 DEF Block
    <3> QED
      BY <1>4, <1>5, <1>6, <2>1, <3>1 DEF OneBlock
  <2>4. UsersOwn
    BY <1>5 DEF UsersOwn, Owns
  <2> QED
    BY <2>2, <2>3, <2>4 DEF Structure
<1>9. OneFrees
  <2>1. \A s \in Blocks : Published(s) => shared[s].ref_cnt = 1
    BY <1>2, <1>6 DEF Block
  <2> QED
    BY <1>5, <2>1, SMTT(30) DEF OneFrees
<1>10. ASSUME NEW s \in Blocks, Published(s) PROVE shared[s].ref_cnt = 1 /\ Shares(s) = 1
  <2>1. shared[s].ref_cnt = 1
    BY <1>2, <1>6, <1>10 DEF Block
  <2>2. HandlesOf(s) = {f} /\ ReleasesOf(s) = {}
    BY <1>2, <1>4, <1>5, <1>6, <1>10 DEF HandlesOf, ReleasesOf
  <2>3. Cardinality({f}) = 1 /\ Cardinality({}) = 0
    BY DEF CardinalityLaws
  <2> QED
    BY <1>5, <2>1, <2>2, <2>3, SMTT(30) DEF Shares
<1>11. Counting
  <2>1. UsizeMax \div 2 \in Nat
    BY CountAssumption, SMTT(30)
  <2>2. Cardinality(Late) = 0
    <3>1. Late = {}
      BY <1>5 DEF Late
    <3> QED
      BY <3>1 DEF CardinalityLaws
  <2> QED
    BY <1>10, <2>1, <2>2, SMTT(30) DEF Counting, CountIsExact, CountIsBounded
<1>13. BufferIsHeld /\ CapacityIsRemembered
  <2>1. "first" \in Blocks
    BY DEF Blocks
  <2> QED
    BY <1>2, <1>3, <1>4, <1>5, <1>6, <2>1 DEF BufferIsHeld, CapacityIsRemembered
<1> QED
  BY <1>7, <1>8, <1>9, <1>11, <1>13 DEF IInv

(* In a state of the invariant nothing is left with what was freed.        *)
LEMMA NoneDangles == IInv => NothingDangles
<1> SUFFICES ASSUME IInv PROVE NothingDangles
  OBVIOUS
<1>1. \A h \in Handles : Exists(h) =>
        buf = "live" /\ (handles[h].data # KIND_VEC => shared[handles[h].data].alive)
  <2> SUFFICES ASSUME NEW h \in Handles, Exists(h)
               PROVE  buf = "live" /\ (handles[h].data # KIND_VEC => shared[handles[h].data].alive)
    OBVIOUS
  <2>1. CASE handles[h].data = KIND_VEC
    BY <2>1 DEF IInv, Structure, VecIsAlone
  <2>2. CASE handles[h].data # KIND_VEC
    <3>1. handles[h].data \in Blocks
      BY <2>2, HandleType DEF IInv
    <3> QED
      BY <2>2, <3>1 DEF IInv, Structure, OneBlock, Published
  <2> QED
    BY <2>1, <2>2
<1>2. ASSUME NEW t \in Threads, pc[t].op \in {"cas", "add", "check", "sub", "free"}
      PROVE  buf = "live" /\ shared[pc[t].s].alive
  <2>1. CASE pc[t].op = "cas"
    <3>1. /\ pc[t].h \in Handles /\ Exists(pc[t].h)
          /\ pc[t].s = t /\ shared[t] = Block(Cap, 2)
      <4>1. pc[t].h \in Handles
        BY <2>1, PcType DEF IInv
      <4> QED
        BY <2>1, <4>1, UserOwns DEF Owns
    <3> QED
      BY <1>1, <3>1, SMTT(30) DEF Block
  <2>2. CASE pc[t].op \in {"add", "check", "sub", "free"}
    <3>1. pc[t].s \in Blocks
      BY <2>2, PcType DEF IInv
    <3> QED
      BY <2>2, <3>1 DEF IInv, Structure, OneBlock, Published
  <2> QED
    BY <1>2, <2>1, <2>2
<1> QED
  BY <1>1, <1>2 DEF NothingDangles

(* Nor is anything left unfreed when the last handle is gone.              *)
LEMMA NoneLeaks == IInv => NothingLeaks
<1> SUFFICES ASSUME IInv, Quiet, ~leakedVec, \A h \in Handles : ~Exists(h),
                    \A s \in Blocks : forgotten[s] = 0
             PROVE  buf # "live" /\ \A s \in Blocks : ~shared[s].alive
  BY DEF NothingLeaks
<1>1. \A t \in Threads : pc[t].op = "idle"
  BY SMTT(30) DEF Quiet, Idle
<1>2. \A s \in Blocks : Shares(s) = 0
  <2> SUFFICES ASSUME NEW s \in Blocks PROVE Shares(s) = 0
    OBVIOUS
  <2>1. HandlesOf(s) = {} /\ ReleasesOf(s) = {}
    BY <1>1 DEF HandlesOf, ReleasesOf
  <2> QED
    BY <2>1, SMTT(30) DEF Shares, IInv, CardinalityLaws
<1>3. \A s \in Blocks : ~Published(s)
  BY <1>1, <1>2 DEF IInv, Counting, CountIsExact, OneFrees
<1> QED
  BY <1>1, <1>3 DEF IInv, BufferIsHeld, Published

(* What is_unique found is kept by the invariant.                         *)
LEMMA Unique == IInv => TryIntoMutReuses
  BY UserOwns DEF Owns, TryIntoMutReuses

(* From here on, the library's theorems about finite sets.                 *)
INSTANCE FiniteSetTheorems

(* The laws of Cardinality, from the theorems about finite sets.           *)
LEMMA LibraryLaws == CardinalityLaws
<1>0. Cardinality({}) = 0
  BY FS_EmptySet
<1>1. \A x : IsFiniteSet({x}) /\ Cardinality({x}) = 1
  BY FS_Singleton
<1>2. ASSUME NEW S, IsFiniteSet(S)
      PROVE  /\ Cardinality(S) \in Nat
             /\ Cardinality(S) = 0 => S = {}
             /\ Cardinality(S) = 1 => \E x : S = {x}
  BY <1>2, FS_CardinalityType, FS_EmptySet, FS_Singleton, SMTT(30)
<1>3. ASSUME NEW S, IsFiniteSet(S), NEW x
      PROVE  /\ ~(x \in S) => Cardinality(S \cup {x}) = Cardinality(S) + 1
             /\ x \in S => Cardinality(S \ {x}) = Cardinality(S) - 1
  BY <1>3, FS_AddElement, FS_RemoveElement
<1>4. ASSUME NEW S, IsFiniteSet(S), NEW T \in SUBSET S
      PROVE  /\ IsFiniteSet(T) /\ Cardinality(T) <= Cardinality(S)
             /\ Cardinality(T) = Cardinality(S) => T = S
  BY <1>4, FS_Subset
<1> QED
  BY <1>0, <1>1, <1>2, <1>3, <1>4 DEF CardinalityLaws

(* The reference count of a block in use is the number of its shares,      *)
(* however promotions, clones, truncations, drops and leaks interleave on  *)
(* any number of threads, for every width of usize whose upper half is     *)
(* larger than the number of threads.                                      *)
THEOREM CountsAreExact == Spec => []CountIsExact
<1>1. IInv => CountIsExact
  BY DEF IInv, Counting
<1> QED
  BY <1>1, LibraryLaws, InitIInv, NextIInv, PTL DEF Spec

(* No handle, and no thread between two atomic operations, holds on to a   *)
(* block that was freed or a buffer that was freed or taken over: the      *)
(* release in release_shared and the conversions of bytes.rs are made by   *)
(* the last share only.                                                    *)
THEOREM NothingIsDangling == Spec => []NothingDangles
  BY LibraryLaws, InitIInv, NextIInv, NoneDangles, PTL DEF Spec

(* The buffer is freed, or handed to a Vec or BytesMut, with the capacity  *)
(* it was allocated with, which an unshared handle recomputes as the end   *)
(* of its view and a Shared remembers.                                     *)
THEOREM CapacityReturns == Spec => []CapacityIsRemembered
<1>1. IInv => CapacityIsRemembered
  BY SMTT(30) DEF IInv
<1> QED
  BY <1>1, LibraryLaws, InitIInv, NextIInv, PTL DEF Spec

(* When every handle is gone and none was forgotten, the buffer and every  *)
(* Shared have been given back, those of failed promotions included.       *)
THEOREM AllIsGivenBack == Spec => []NothingLeaks
  BY LibraryLaws, InitIInv, NextIInv, NoneLeaks, PTL DEF Spec

(* What is_unique found is still so when try_into_mut converts: the only   *)
(* share of a block cannot be cloned by a thread that does not hold it, so *)
(* the buffer is taken over and never copied.                              *)
THEOREM ConversionsReuse == Spec => []TryIntoMutReuses
  BY LibraryLaws, InitIInv, NextIInv, Unique, PTL DEF Spec
=============================================================================
