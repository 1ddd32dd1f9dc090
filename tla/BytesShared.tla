---------------------------- MODULE BytesShared ----------------------------
(***************************************************************************)
(* The reference counting of Bytes (patches/bytes/src/bytes.rs): threads   *)
(* clone, slice, split, shorten, convert and drop handles of one buffer.   *)
(*                                                                         *)
(* A step is one atomic operation on a data word or on a reference count,  *)
(* with the thread-local work around it.  The owners of a handle are the   *)
(* threads that can reach it: any of them may use it by shared reference,  *)
(* and only a sole owner by value or mutably, which is what Rust's borrow  *)
(* rules and an Arc<Bytes> give.  Atomics are sequentially consistent here *)
(* (the orderings are not modelled); the riscv64 shim of loom.rs replaces  *)
(* them by plain loads and stores for one thread, where every atomic step  *)
(* below is still one step because nothing runs in between.                *)
(***************************************************************************)
EXTENDS Naturals, FiniteSets

CONSTANTS
    Threads,
    Handles,        \* names for the handles that can exist at a time
    Cap,            \* bytes in the buffer
    UsizeMax        \* of the reference count, which wraps after it

ASSUME BufferAssumption == Cap \in Nat \ {0, 1}
ASSUME HandlesAssumption == IsFiniteSet(Handles) /\ Handles # {}
(* Each thread can be one clone past the abort threshold.                  *)
ASSUME CountAssumption == UsizeMax \in Nat /\ IsFiniteSet(Threads)
                          /\ Cardinality(Threads) + (UsizeMax \div 2) < UsizeMax

VARIABLES
    handles,        \* what each name stands for, or NoHandle
    shared,         \* the Shared (or Owned) blocks: those the threads allocate, and "first"
    buf,            \* "live", "taken" by a Vec or BytesMut, or "freed"
    layout,         \* capacity the buffer was given back with, 0 before
    pc,             \* what each thread is in the middle of
    forgotten,      \* history: handles leaked, for each block
    leakedVec,      \* history: the buffer leaked with an unshared handle
    aborted         \* crate::abort was called

vars == <<handles, shared, buf, layout, pc, forgotten, leakedVec, aborted>>

Blocks == Threads \cup {"first"}
KIND_VEC == "vec"           \* data word: the buffer itself, tagged
ASSUME BlocksAssumption == KIND_VEC \notin Blocks /\ "first" \notin Threads

NoHandle == [vtable |-> "none"]
Idle == [op |-> "idle"]

Views == {v \in [off : 0..Cap, len : 0..Cap] : v.off + v.len <= Cap}
Exists(h) == handles[h] # NoHandle
Alone(t, h) == Exists(h) /\ handles[h].owners = {t}
Ready(t) == ~aborted /\ pc[t] = Idle

-----------------------------------------------------------------------------
(* The first handle: from a boxed slice or a full Vec, a Vec with spare    *)
(* capacity, or an owner.                                                  *)

NoBlock == [alive |-> FALSE, cap |-> 0, ref_cnt |-> 0]
Block(cap, n) == [alive |-> TRUE, cap |-> cap, ref_cnt |-> n]
First(vtable, data, len) ==
    [vtable |-> vtable, data |-> data, view |-> [off |-> 0, len |-> len], owners |-> Threads]

FromBoxedSlice == First("promotable", KIND_VEC, Cap)
FromVec == First("shared", "first", Cap - 1)
from_owner == First("owned", "first", Cap)

Init ==
    /\ \E first \in {FromBoxedSlice, FromVec, from_owner} :
         /\ handles = [h \in Handles |-> IF h = CHOOSE k \in Handles : TRUE THEN first ELSE NoHandle]
         /\ shared = [s \in Blocks |-> IF s = first.data THEN Block(Cap, 1) ELSE NoBlock]
    /\ buf = "live"
    /\ layout = 0
    /\ pc = [t \in Threads |-> Idle]
    /\ forgotten = [s \in Blocks |-> 0]
    /\ leakedVec = FALSE
    /\ aborted = FALSE

-----------------------------------------------------------------------------
(* Giving the buffer back: to the allocator, or to a Vec or BytesMut.      *)

GiveBack(state, cap) == buf' = state /\ layout' = cap

(* A handle on the unshared buffer keeps no capacity: the end of its view  *)
(* has to be the end of the buffer.                                        *)
End(view) == view.off + view.len

-----------------------------------------------------------------------------
(* clone, slice, split_off, split_to, and truncate of a promotable handle: *)
(* all of them clone and then move the two views.  The cases that clone    *)
(* nothing (an empty result, or the whole handle moved out) change no      *)
(* state here.                                                             *)

SubViews(v) == {w \in Views : w.len > 0 /\ w.off >= v.off /\ End(w) <= End(v)}
Before(v, at) == [off |-> v.off, len |-> at]
After(v, at) == [off |-> v.off + at, len |-> v.len - at]

(* A clone in progress: self's view after it, the result's, and whether    *)
(* the result is dropped at once (truncate).                               *)
Request(self, ret, discard) == [self |-> self, ret |-> ret, discard |-> discard]
clone(v) == {Request(v, v, FALSE)}
slice(v) == {Request(v, w, FALSE) : w \in SubViews(v)}
split_off(v) == {Request(Before(v, at), After(v, at), FALSE) : at \in 1..(v.len - 1)}
split_to(v) == {Request(After(v, at), Before(v, at), FALSE) : at \in 1..(v.len - 1)}
truncate_promotable(v) == {[r EXCEPT !.discard = TRUE] : r \in split_off(v)}

Asked(t, h) ==
    LET b == handles[h] IN
    clone(b.view) \cup slice(b.view)
    \cup (IF Alone(t, h) THEN split_off(b.view) \cup split_to(b.view) ELSE {})
    \cup (IF Alone(t, h) /\ b.vtable = "promotable" THEN truncate_promotable(b.view) ELSE {})

(* A name is left for the result of every clone in progress.               *)
Existing == {h \in Handles : Exists(h)}
Cloning == {t \in Threads : pc[t].op \in {"cas", "add", "check"}}
Room == Cardinality(Existing) + Cardinality(Cloning) < Cardinality(Handles)

(* Mutant: the new Shared counts only the clone.                            *)
Load_CountsOne(t, h) ==
    LET b == handles[h] IN
    /\ Ready(t) /\ Exists(h) /\ t \in b.owners /\ Room
    /\ \E r \in Asked(t, h) :
         \/ /\ b.data = KIND_VEC
            /\ shared' = [shared EXCEPT ![t] = Block(End(b.view), 1)]
            /\ pc' = [pc EXCEPT ![t] = [op |-> "cas", h |-> h, s |-> t, r |-> r]]
         \/ /\ b.data # KIND_VEC
            /\ pc' = [pc EXCEPT ![t] = [op |-> "add", h |-> h, s |-> b.data, r |-> r]]
            /\ UNCHANGED shared
    /\ UNCHANGED <<handles, buf, layout, forgotten, leakedVec, aborted>>

(* Load the data word; an unshared buffer needs a Shared for two handles.  *)
Load(t, h) ==
    LET b == handles[h] IN
    /\ Ready(t) /\ Exists(h) /\ t \in b.owners /\ Room
    /\ \E r \in Asked(t, h) :
         \/ /\ b.data = KIND_VEC
            /\ shared' = [shared EXCEPT ![t] = Block(End(b.view), 2)]
            /\ pc' = [pc EXCEPT ![t] = [op |-> "cas", h |-> h, s |-> t, r |-> r]]
         \/ /\ b.data # KIND_VEC
            /\ pc' = [pc EXCEPT ![t] = [op |-> "add", h |-> h, s |-> b.data, r |-> r]]
            /\ UNCHANGED shared
    /\ UNCHANGED <<handles, buf, layout, forgotten, leakedVec, aborted>>

(* The handle a clone returns, under a name that Room has left for it;     *)
(* truncate goes on to release it.                                         *)
Return(t, h, s, r, data) ==
    LET b == handles[h]
        new == [vtable |-> IF b.vtable = "owned" THEN "owned" ELSE "shared",
                data |-> s, view |-> r.ret, owners |-> {t}]
        kept == [handles EXCEPT ![h].view = r.self, ![h].data = data]
    IN  IF r.discard
        THEN /\ handles' = kept
             /\ pc' = [pc EXCEPT ![t] = [op |-> "sub", s |-> s]]
        ELSE /\ \E k \in Handles : ~Exists(k)
             /\ handles' = [kept EXCEPT ![CHOOSE k \in Handles : ~Exists(k)] = new]
             /\ pc' = [pc EXCEPT ![t] = Idle]

(* shallow_clone_vec: install the Shared, unless another clone has; then   *)
(* free it (not the buffer) and count on the one found.                    *)
CompareExchange(t) ==
    LET p == pc[t] IN
    /\ ~aborted /\ p.op = "cas"
    /\ \/ /\ handles[p.h].data = KIND_VEC
          /\ Return(t, p.h, p.s, p.r, p.s)
          /\ UNCHANGED shared
       \/ /\ handles[p.h].data # KIND_VEC
          /\ shared' = [shared EXCEPT ![t] = NoBlock]
          /\ pc' = [pc EXCEPT ![t] = [op |-> "add", h |-> p.h, s |-> handles[p.h].data, r |-> p.r]]
          /\ UNCHANGED handles
    /\ UNCHANGED <<buf, layout, forgotten, leakedVec, aborted>>

(* shallow_clone_arc, owned_clone: count first, abort after.               *)
FetchAdd(t) ==
    LET p == pc[t] IN
    /\ ~aborted /\ p.op = "add"
    /\ shared' = [shared EXCEPT ![p.s].ref_cnt = (@ + 1) % (UsizeMax + 1)]
    /\ pc' = [pc EXCEPT ![t] = [op |-> "check", h |-> p.h, s |-> p.s, r |-> p.r,
                                old |-> shared[p.s].ref_cnt]]
    /\ UNCHANGED <<handles, buf, layout, forgotten, leakedVec, aborted>>

CheckOverflow(t) ==
    LET p == pc[t] IN
    /\ ~aborted /\ p.op = "check"
    /\ \/ /\ p.old > UsizeMax \div 2
          /\ aborted' = TRUE
          /\ UNCHANGED <<handles, pc>>
       \/ /\ p.old <= UsizeMax \div 2
          /\ Return(t, p.h, p.s, p.r, handles[p.h].data)
          /\ UNCHANGED aborted
    /\ UNCHANGED <<shared, buf, layout, forgotten, leakedVec>>


-----------------------------------------------------------------------------
(* Dropping a handle, leaking it, and moving its view in place.            *)

Gone(h) == handles' = [handles EXCEPT ![h] = NoHandle]
Release(t, s) == pc' = [pc EXCEPT ![t] = [op |-> "sub", s |-> s]]

(* The handle's last step: what its drop does with an unshared buffer, or  *)
(* with its share of a block.  clear, and truncate to nothing, of a        *)
(* promotable handle are a drop too.                                       *)
Drop(t, h) ==
    /\ Ready(t) /\ Alone(t, h)
    /\ Gone(h)
    /\ \/ /\ handles[h].data = KIND_VEC
          /\ GiveBack("freed", End(handles[h].view))
          /\ UNCHANGED pc
       \/ /\ handles[h].data # KIND_VEC
          /\ Release(t, handles[h].data)
          /\ UNCHANGED <<buf, layout>>
    /\ UNCHANGED <<shared, forgotten, leakedVec, aborted>>

FetchSub(t) ==
    LET p == pc[t] IN
    /\ ~aborted /\ p.op = "sub"
    /\ shared' = [shared EXCEPT ![p.s].ref_cnt = (@ + UsizeMax) % (UsizeMax + 1)]
    /\ pc' = [pc EXCEPT ![t] = IF shared[p.s].ref_cnt = 1 THEN [op |-> "free", s |-> p.s] ELSE Idle]
    /\ UNCHANGED <<handles, buf, layout, forgotten, leakedVec, aborted>>

(* Mutant: the buffer is freed and its Shared is not.                       *)
Free_BufferOnly(t) ==
    LET p == pc[t] IN
    /\ ~aborted /\ p.op = "free"
    /\ GiveBack("freed", shared[p.s].cap)
    /\ pc' = [pc EXCEPT ![t] = Idle]
    /\ UNCHANGED <<handles, shared, forgotten, leakedVec, aborted>>

Free(t) ==
    LET p == pc[t] IN
    /\ ~aborted /\ p.op = "free"
    /\ GiveBack("freed", shared[p.s].cap)
    /\ shared' = [shared EXCEPT ![p.s] = NoBlock]
    /\ pc' = [pc EXCEPT ![t] = Idle]
    /\ UNCHANGED <<handles, forgotten, leakedVec, aborted>>

(* mem::forget, by any caller: the share is never given back.              *)
Forget(t, h) ==
    /\ Ready(t) /\ Alone(t, h)
    /\ Gone(h)
    /\ \/ /\ handles[h].data = KIND_VEC
          /\ leakedVec' = TRUE
          /\ UNCHANGED forgotten
       \/ /\ handles[h].data # KIND_VEC
          /\ forgotten' = [forgotten EXCEPT ![handles[h].data] = @ + 1]
          /\ UNCHANGED leakedVec
    /\ UNCHANGED <<shared, buf, layout, pc, aborted>>

Advance(t, h) ==
    /\ Ready(t) /\ Alone(t, h)
    /\ \E by \in 1..handles[h].view.len :
         handles' = [handles EXCEPT ![h].view = After(@, by)]
    /\ UNCHANGED <<shared, buf, layout, pc, forgotten, leakedVec, aborted>>

(* Mutant: a promotable handle is shortened like any other.                 *)
TruncateInPlace_AnyVtable(t, h) ==
    /\ Ready(t) /\ Alone(t, h)
    /\ \E len \in 0..(handles[h].view.len - 1) :
         handles' = [handles EXCEPT ![h].view = Before(@, len)]
    /\ UNCHANGED <<shared, buf, layout, pc, forgotten, leakedVec, aborted>>

TruncateInPlace(t, h) ==
    /\ Ready(t) /\ Alone(t, h) /\ handles[h].vtable # "promotable"
    /\ \E len \in 0..(handles[h].view.len - 1) :
         handles' = [handles EXCEPT ![h].view = Before(@, len)]
    /\ UNCHANGED <<shared, buf, layout, pc, forgotten, leakedVec, aborted>>

(* One of several holders of an Arc<Bytes> lets it go.                     *)
LetGo(t, h) ==
    /\ Ready(t) /\ Exists(h) /\ t \in handles[h].owners /\ ~Alone(t, h)
    /\ handles' = [handles EXCEPT ![h].owners = @ \ {t}]
    /\ UNCHANGED <<shared, buf, layout, pc, forgotten, leakedVec, aborted>>

-----------------------------------------------------------------------------
(* Into a Vec or a BytesMut: the buffer itself for a sole handle, or a     *)
(* copy, after which the share is released.                                *)

TakeVec(t, h) ==
    /\ handles[h].data = KIND_VEC
    /\ GiveBack("taken", End(handles[h].view))
    /\ Gone(h)
    /\ pc' = [pc EXCEPT ![t] = Idle]
    /\ UNCHANGED shared

(* Mutant: the buffer is taken over whoever else reads it.                  *)
TakeShared_NotAlone(t, h) ==
    LET s == handles[h].data IN
    /\ s # KIND_VEC /\ handles[h].vtable # "owned"
    /\ GiveBack("taken", shared[s].cap)
    /\ shared' = [shared EXCEPT ![s] = NoBlock]
    /\ Gone(h)
    /\ pc' = [pc EXCEPT ![t] = Idle]

TakeShared(t, h) ==
    LET s == handles[h].data IN
    /\ s # KIND_VEC /\ handles[h].vtable # "owned" /\ shared[s].ref_cnt = 1
    /\ GiveBack("taken", shared[s].cap)
    /\ shared' = [shared EXCEPT ![s] = NoBlock]
    /\ Gone(h)
    /\ pc' = [pc EXCEPT ![t] = Idle]

Copy(t, h) ==
    LET s == handles[h].data IN
    /\ s # KIND_VEC /\ (handles[h].vtable # "owned" => shared[s].ref_cnt # 1)
    /\ Gone(h)
    /\ Release(t, s)
    /\ UNCHANGED <<shared, buf, layout>>

(* The compare_exchange of shared_to_vec_impl and the load of              *)
(* shared_to_mut_impl find the same count and do the same with it.         *)
Convert(t, h) ==
    /\ TakeVec(t, h) \/ TakeShared(t, h) \/ Copy(t, h)
    /\ UNCHANGED <<forgotten, leakedVec, aborted>>

Into(t, h) == Ready(t) /\ Alone(t, h) /\ Convert(t, h)

is_unique(h) ==
    LET b == handles[h] IN
    b.vtable # "owned" /\ (b.data # KIND_VEC => shared[b.data].ref_cnt = 1)

(* Mutant: only an unshared or shared handle is asked for, not a sole one.  *)
TryIntoMut_Unchecked(t, h) ==
    /\ Ready(t) /\ Alone(t, h) /\ handles[h].vtable # "owned"
    /\ pc' = [pc EXCEPT ![t] = [op |-> "into_mut", h |-> h]]
    /\ UNCHANGED <<handles, shared, buf, layout, forgotten, leakedVec, aborted>>

(* try_into_mut decides by one load and converts by another.               *)
TryIntoMut(t, h) ==
    /\ Ready(t) /\ Alone(t, h) /\ is_unique(h)
    /\ pc' = [pc EXCEPT ![t] = [op |-> "into_mut", h |-> h]]
    /\ UNCHANGED <<handles, shared, buf, layout, forgotten, leakedVec, aborted>>

IntoMut(t) == ~aborted /\ pc[t].op = "into_mut" /\ Convert(t, pc[t].h)

-----------------------------------------------------------------------------
Begin(t, h) == Load(t, h) \/ Drop(t, h) \/ Forget(t, h) \/ Advance(t, h) \/ TruncateInPlace(t, h)
               \/ LetGo(t, h) \/ Into(t, h) \/ TryIntoMut(t, h)
Continue(t) == CompareExchange(t) \/ FetchAdd(t) \/ CheckOverflow(t) \/ FetchSub(t) \/ Free(t)
               \/ IntoMut(t)

Quiet == \A t \in Threads : pc[t] = Idle
Over == aborted \/ (Quiet /\ \A h \in Handles : ~Exists(h))
Stop == Over /\ UNCHANGED vars

Next == (\E t \in Threads : Continue(t) \/ \E h \in Handles : Begin(t, h)) \/ Stop
Spec == Init /\ [][Next]_vars

-----------------------------------------------------------------------------
(* Blocks and the buffer are there for whoever can still touch them: every *)
(* handle, and every thread between two atomic operations on a block.  The *)
(* buffer is therefore freed once, and a Vec or BytesMut that took it over *)
(* shares it with no reader.                                               *)
NothingDangles ==
    /\ \A h \in Handles : Exists(h) =>
         buf = "live" /\ (handles[h].data # KIND_VEC => shared[handles[h].data].alive)
    /\ \A t \in Threads : pc[t].op \in {"cas", "add", "check", "sub", "free"} =>
         buf = "live" /\ shared[pc[t].s].alive

(* Shares of a block: its handles, the clones not yet returned, the        *)
(* releases not yet done, and the handles leaked.                          *)
HandlesOf(s) == {h \in Handles : Exists(h) /\ handles[h].data = s}
ReleasesOf(s) == {t \in Threads : pc[t].op \in {"check", "sub"} /\ pc[t].s = s}
Shares(s) == Cardinality(HandlesOf(s)) + Cardinality(ReleasesOf(s)) + forgotten[s]
Published(s) == shared[s].alive /\ \A t \in Threads : ~(pc[t].op = "cas" /\ pc[t].s = s)

(* The count of a block in use is the number of its shares: no interleaving *)
(* of promotions, clones and drops loses or invents one, and the abort in   *)
(* shallow_clone_arc keeps it from wrapping however many handles leak.      *)
CountIsExact == \A s \in Blocks : Published(s) => shared[s].ref_cnt = Shares(s)

(* The buffer goes back with the capacity it was allocated with, whatever  *)
(* was advanced, split off or truncated before.                            *)
CapacityIsRemembered == buf # "live" => layout = Cap

(* With every handle dropped or converted, and none leaked, the buffer and *)
(* all blocks have been given back.                                        *)
NothingLeaks ==
    Quiet /\ ~aborted /\ ~leakedVec /\ (\A h \in Handles : ~Exists(h))
          /\ (\A s \in Blocks : forgotten[s] = 0)
    => buf # "live" /\ \A s \in Blocks : ~shared[s].alive

(* What is_unique answered still holds when try_into_mut converts: it      *)
(* never copies.                                                           *)
TryIntoMutReuses == \A t \in Threads : pc[t].op = "into_mut" => is_unique(pc[t].h)
=============================================================================
