------------------------------ MODULE BytesMut ------------------------------
(***************************************************************************)
(* BytesMut, and the Bytes frozen from one (patches/bytes/src/bytes_mut.rs *)
(* and its SHARED_VTABLE): windows onto shared allocations that are split, *)
(* grown in place, moved, joined again, frozen and converted back.         *)
(*                                                                         *)
(* A call is one step: a handle is used by one thread at a time, and the   *)
(* counting between threads is the subject of BytesShared.  Every byte     *)
(* written is a new number, so a byte that ends up in the wrong place, or  *)
(* in the wrong handle, shows.                                             *)
(***************************************************************************)
EXTENDS Naturals, Sequences, FiniteSets, FiniteSetsExt

CONSTANTS
    Handles,                        \* numbers of the handles
    Blocks,                         \* numbers of the allocations
    InitCap,                        \* capacity of the first allocation
    MaxCap,                         \* and of any
    MaxBytes,                       \* bytes written in all
    MaxCalls,                       \* calls made in all
    MAX_VEC_POS,                    \* offset that fits the data word of a Vec
    MIN_ORIGINAL_CAPACITY_WIDTH,    \* widths of the original capacities that
    MAX_ORIGINAL_CAPACITY_WIDTH     \* are told apart

ASSUME NumbersAssumption ==
    /\ Handles \subseteq Nat /\ IsFiniteSet(Handles) /\ Handles # {}
    /\ Blocks \subseteq Nat /\ Blocks # {}
    /\ InitCap \in Nat /\ MaxBytes \in Nat

(* That a power of two is a number is arithmetic; the provers have no laws *)
(* of ^.                                                                   *)
ASSUME WidthAssumption ==
    /\ MIN_ORIGINAL_CAPACITY_WIDTH \in Nat \ {0}
    /\ MAX_ORIGINAL_CAPACITY_WIDTH \in Nat
    /\ MIN_ORIGINAL_CAPACITY_WIDTH < MAX_ORIGINAL_CAPACITY_WIDTH
    /\ \A w \in 0..MAX_ORIGINAL_CAPACITY_WIDTH : 2^w \in Nat \ {0}

VARIABLES
    handles,    \* what each number stands for, or NoHandle
    blocks,     \* the allocations, with the count and capacity their Shared keeps
    text,       \* what the holder of each handle has put there
    written,    \* bytes written so far
    calls       \* calls made so far

vars == <<handles, blocks, text, written, calls>>

Uninit == 0
NoHandle == [mode |-> "none"]
Free == [cap |-> 0, mem |-> <<>>, ref_count |-> 0, orig |-> 0]

Kept == {h \in Handles : handles[h] # NoHandle}
Mutable == {h \in Kept : handles[h].mode = "mut"}
Frozen == Kept \ Mutable
Used == {handles[h].b : h \in Kept}
Spare == Handles \ Kept
Fresh == Min(Blocks \ Used)
CanAllocate == Blocks \ Used # {}

-----------------------------------------------------------------------------
(* Memory.                                                                 *)

Window(bl, me) == SubSeq(bl[me.b].mem, me.off + 1, me.off + me.len)
Put(mem, at, s) == [i \in 1..Len(mem) |-> IF i - at \in 1..Len(s) THEN s[i - at] ELSE mem[i]]
Blank(n) == [i \in 1..n |-> Uninit]
Larger(m, n) == IF m < n THEN n ELSE m
Smaller(m, n) == IF m < n THEN m ELSE n

(* Vec::reserve: nothing, or a larger allocation with the first len bytes. *)
VecReserve(bl, b, len, additional) ==
    LET old == bl[b]
        cap == Larger(2 * old.cap, len + additional)
    IN  IF old.cap - len >= additional
        THEN bl
        ELSE [bl EXCEPT ![b].cap = cap, ![b].mem = Put(Blank(cap), 0, SubSeq(old.mem, 1, len))]

Bits(n) == Cardinality({w \in 0..n : 2^w <= n})
original_capacity_to_repr(cap) ==
    Smaller(Bits(cap \div 2^MIN_ORIGINAL_CAPACITY_WIDTH),
            MAX_ORIGINAL_CAPACITY_WIDTH - MIN_ORIGINAL_CAPACITY_WIDTH)
original_capacity_from_repr(repr) ==
    IF repr = 0 THEN 0 ELSE 2^(repr + MIN_ORIGINAL_CAPACITY_WIDTH - 1)

-----------------------------------------------------------------------------
(* The parts of the operations, on allocations bl and a handle me.  Each   *)
(* gives back both.                                                        *)

Both(bl, me) == [bl |-> bl, me |-> me]

(* A new allocation of cap bytes that begins with s.                       *)
Allocate(bl, b, s, cap) ==
    [bl EXCEPT ![b] = [cap |-> cap, mem |-> Put(Blank(cap), 0, s), ref_count |-> 0, orig |-> 0]]
from_vec(b, len, cap) ==
    [mode |-> "mut", kind |-> "vec", b |-> b, off |-> 0, pos |-> 0, len |-> len, cap |-> cap,
     orig |-> original_capacity_to_repr(cap)]

release_shared(bl, b) ==
    IF bl[b].ref_count # 1 THEN [bl EXCEPT ![b].ref_count = @ - 1] ELSE [bl EXCEPT ![b] = Free]
drop(bl, me) ==
    IF me.kind = "vec" THEN [bl EXCEPT ![me.b] = Free] ELSE release_shared(bl, me.b)

promote_to_shared(bl, me, n) ==
    Both([bl EXCEPT ![me.b].ref_count = n, ![me.b].orig = me.orig],
         [me EXCEPT !.kind = "arc", !.pos = 0, !.orig = 0])
shallow_clone(bl, me) ==
    IF me.kind = "arc"
    THEN Both([bl EXCEPT ![me.b].ref_count = @ + 1], me)
    ELSE promote_to_shared(bl, me, 2)

Forward(me, count) ==
    [me EXCEPT !.off = @ + count, !.len = IF @ < count THEN 0 ELSE @ - count, !.cap = @ - count]
(* Mutant: the data word keeps its old offset.                              *)
advance_unchecked_KeepsPos(bl, me, count) ==
    IF me.kind = "vec" /\ me.pos + count > MAX_VEC_POS
    THEN LET p == promote_to_shared(bl, me, 1) IN Both(p.bl, Forward(p.me, count))
    ELSE Both(bl, Forward(me, count))
advance_unchecked(bl, me, count) ==
    IF count = 0 THEN Both(bl, me)
    ELSE IF me.kind = "vec" /\ me.pos + count > MAX_VEC_POS
    THEN LET p == promote_to_shared(bl, me, 1) IN Both(p.bl, Forward(p.me, count))
    ELSE Both(bl, Forward([me EXCEPT !.pos = IF me.kind = "vec" THEN @ + count ELSE @], count))

(* The data moved to the front of the allocation.                          *)
MoveToFront(bl, me) == [bl EXCEPT ![me.b].mem = Put(@, 0, Window(bl, me))]

Grown(bl, me) == [ok |-> TRUE, bl |-> bl, me |-> me]
Refused(bl, me) == [ok |-> FALSE, bl |-> bl, me |-> me]

(* Mutant: the bytes in use are taken for free ones.                        *)
reserve_vec_IgnoresLen(bl, me, additional, allocate) ==
    IF me.cap + me.pos >= additional /\ me.pos >= me.len
    THEN Grown(MoveToFront(bl, me), [me EXCEPT !.off = @ - me.pos, !.pos = 0, !.cap = @ + me.pos])
    ELSE IF ~allocate THEN Refused(bl, me)
    ELSE LET bl2 == VecReserve(bl, me.b, me.len + me.pos, additional)
         IN  Grown(bl2, [me EXCEPT !.off = me.pos, !.cap = bl2[me.b].cap - me.pos])

reserve_vec(bl, me, additional, allocate) ==
    IF me.cap - me.len + me.pos >= additional /\ me.pos >= me.len
    THEN Grown(MoveToFront(bl, me), [me EXCEPT !.off = @ - me.pos, !.pos = 0, !.cap = @ + me.pos])
    ELSE IF ~allocate THEN Refused(bl, me)
    ELSE LET bl2 == VecReserve(bl, me.b, me.len + me.pos, additional)
         IN  Grown(bl2, [me EXCEPT !.off = me.pos, !.cap = bl2[me.b].cap - me.pos])

(* Mutant: set_len without the offset, so that the end is not carried over. *)
reserve_unique_ShortLen(bl, me, additional, allocate) ==
    LET new_cap == me.len + additional
        v_capacity == bl[me.b].cap
        wanted == Larger(2 * v_capacity, new_cap + me.off)
        bl2 == VecReserve(bl, me.b, me.len, wanted - me.len)
    IN  IF v_capacity >= new_cap + me.off THEN Grown(bl, [me EXCEPT !.cap = new_cap])
        ELSE IF v_capacity >= new_cap /\ me.off >= me.len
        THEN Grown(MoveToFront(bl, me), [me EXCEPT !.off = 0, !.cap = v_capacity])
        ELSE IF ~allocate THEN Refused(bl, me)
        ELSE Grown(bl2, [me EXCEPT !.cap = bl2[me.b].cap - me.off])

reserve_unique(bl, me, additional, allocate) ==
    LET new_cap == me.len + additional
        v_capacity == bl[me.b].cap
        wanted == Larger(2 * v_capacity, new_cap + me.off)
        bl2 == VecReserve(bl, me.b, me.off + me.len, wanted - (me.off + me.len))
    IN  IF v_capacity >= new_cap + me.off THEN Grown(bl, [me EXCEPT !.cap = new_cap])
        ELSE IF v_capacity >= new_cap /\ me.off >= me.len
        THEN Grown(MoveToFront(bl, me), [me EXCEPT !.off = 0, !.cap = v_capacity])
        ELSE IF ~allocate THEN Refused(bl, me)
        ELSE Grown(bl2, [me EXCEPT !.cap = bl2[me.b].cap - me.off])

reserve_shared(bl, me, additional, allocate) ==
    LET repr == bl[me.b].orig
        cap == Larger(me.len + additional, original_capacity_from_repr(repr))
        copied == Allocate(bl, Fresh, Window(bl, me), cap)
    IN  IF ~allocate THEN Refused(bl, me)
        ELSE Grown(release_shared(copied, me.b),
                   [from_vec(Fresh, me.len, cap) EXCEPT !.orig = repr])

reserve_inner(bl, me, additional, allocate) ==
    IF me.kind = "vec" THEN reserve_vec(bl, me, additional, allocate)
    ELSE IF bl[me.b].ref_count = 1 THEN reserve_unique(bl, me, additional, allocate)
    ELSE reserve_shared(bl, me, additional, allocate)

reserve(bl, me, additional) ==
    IF additional <= me.cap - me.len THEN Grown(bl, me) ELSE reserve_inner(bl, me, additional, TRUE)
try_reclaim(bl, me, additional) ==
    IF additional <= me.cap - me.len THEN Grown(bl, me) ELSE reserve_inner(bl, me, additional, FALSE)

extend_from_slice(bl, me, s) ==
    LET r == reserve(bl, me, Len(s)) IN
    Both([r.bl EXCEPT ![r.me.b].mem = Put(@, r.me.off + r.me.len, s)],
         [r.me EXCEPT !.len = @ + Len(s)])

(* try_unsplit joins windows that touch; otherwise the bytes are copied.   *)
Adjacent(me, other) ==
    /\ me.kind = "arc" /\ other.kind = "arc" /\ me.b = other.b
    /\ me.off + me.len = other.off
unsplit(bl, me, other) ==
    LET joined == [me EXCEPT !.len = @ + other.len, !.cap = @ + other.cap]
        longer == extend_from_slice(bl, me, Window(bl, other))
    IN  IF me.len = 0 THEN Both(drop(bl, me), other)
        ELSE IF other.cap = 0 THEN Both(drop(bl, other), me)
        ELSE IF Adjacent(me, other) THEN Both(drop(bl, other), joined)
        ELSE Both(drop(longer.bl, other), longer.me)

is_unique(bl, me) == me.kind = "vec" \/ bl[me.b].ref_count = 1

(* Into a Vec: the allocation itself with the data moved to its front, or  *)
(* a copy.  The Vec is kept as the Bytes made from it.                     *)
to_vec(bl, me) ==
    LET front == [MoveToFront(bl, me) EXCEPT ![me.b].ref_count = 0, ![me.b].orig = 0]
        copied == Allocate(bl, Fresh, Window(bl, me), me.len)
        bytes(b, cap) == [from_vec(b, me.len, cap) EXCEPT !.mode = "frozen"]
    IN  IF is_unique(bl, me) THEN Both(front, bytes(me.b, bl[me.b].cap))
        ELSE Both(release_shared(copied, me.b), bytes(Fresh, me.len))

to_mut(bl, me) ==
    LET cap == bl[me.b].cap
        copied == Allocate(bl, Fresh, Window(bl, me), me.len)
    IN  IF me.kind = "vec"
        THEN advance_unchecked(bl, from_vec(me.b, me.off + me.len, cap), me.off)
        ELSE IF bl[me.b].ref_count = 1
        THEN Both(bl, [me EXCEPT !.mode = "mut", !.cap = cap - me.off])
        ELSE Both(release_shared(copied, me.b), from_vec(Fresh, me.len, me.len))

(* put: an empty handle without capacity takes over what it is given.      *)
put(bl, me, src) ==
    LET taken == to_mut(bl, src)
        longer == extend_from_slice(bl, me, Window(bl, src))
    IN  IF src.len = 0 THEN Both(drop(bl, src), me)
        ELSE IF me.cap = 0 /\ is_unique(bl, src) THEN Both(drop(taken.bl, me), taken.me)
        ELSE Both(drop(longer.bl, src), longer.me)

-----------------------------------------------------------------------------
(* The calls.                                                              *)

Fits(bl) == \A b \in Blocks : bl[b].cap <= MaxCap
Bytes(n) == [i \in 1..n |-> written + i]
CanWrite(n) == written + n <= MaxBytes /\ written' = written + n

(* What no handle shows may be anything; nothing is known of it here.      *)
Readable(b, i) ==
    \E h \in Handles : /\ handles'[h] # NoHandle /\ handles'[h].b = b
                       /\ i \in (handles'[h].off + 1)..(handles'[h].off + handles'[h].len)
Unread(bl) ==
    [b \in Blocks |-> [bl[b] EXCEPT !.mem = [i \in 1..Len(@) |-> IF Readable(b, i) THEN @[i] ELSE Uninit]]]

(* Handle h becomes r.me; its holder expects s there.                      *)
Becomes(h, r, s) ==
    /\ Fits(r.bl)
    /\ handles' = [handles EXCEPT ![h] = r.me]
    /\ blocks' = Unread(r.bl)
    /\ text' = [text EXCEPT ![h] = s]

(* The same, with a second handle o.                                       *)
Become(h, r, s, o, other, s2) ==
    /\ Fits(r.bl)
    /\ handles' = [handles EXCEPT ![h] = r.me, ![o] = other]
    /\ blocks' = Unread(r.bl)
    /\ text' = [text EXCEPT ![h] = s, ![o] = s2]

(* with_capacity, zeroed or a copy of a slice: one Vec to begin with.      *)
Init ==
    \E h \in {Min(Handles)}, b \in {Min(Blocks)}, n \in 0..Smaller(InitCap, MaxBytes) :
        LET s == [i \in 1..n |-> i] IN
        /\ handles = [k \in Handles |-> IF k = h THEN from_vec(b, n, InitCap) ELSE NoHandle]
        /\ blocks = Allocate([k \in Blocks |-> Free], b, s, InitCap)
        /\ text = [k \in Handles |-> IF k = h THEN s ELSE <<>>]
        /\ written = n
        /\ calls = 0

(* Mutant: the front half keeps its capacity.                               *)
SplitOff_KeepsCap(h) ==
    /\ Spare # {}
    /\ \E at \in 0..handles[h].cap :
         LET r == shallow_clone(blocks, handles[h])
             n == Smaller(at, r.me.len)
         IN  Become(h, Both(r.bl, [r.me EXCEPT !.len = n]), SubSeq(text[h], 1, n),
                    Min(Spare), Forward(r.me, at), SubSeq(text[h], n + 1, Len(text[h])))
    /\ UNCHANGED written

SplitOff(h) ==
    /\ Spare # {}
    /\ \E at \in 0..handles[h].cap :
         LET r == shallow_clone(blocks, handles[h])
             n == Smaller(at, r.me.len)
         IN  Become(h, Both(r.bl, [r.me EXCEPT !.cap = at, !.len = n]), SubSeq(text[h], 1, n),
                    Min(Spare), Forward(r.me, at), SubSeq(text[h], n + 1, Len(text[h])))
    /\ UNCHANGED written

SplitTo(h) ==
    /\ Spare # {}
    /\ \E at \in 0..handles[h].len :
         LET r == shallow_clone(blocks, handles[h]) IN
         Become(h, Both(r.bl, Forward(r.me, at)), SubSeq(text[h], at + 1, Len(text[h])),
                Min(Spare), [r.me EXCEPT !.cap = at, !.len = at], SubSeq(text[h], 1, at))
    /\ UNCHANGED written

Truncate(h) ==
    /\ \E len \in 0..handles[h].len :
         Becomes(h, Both(blocks, [handles[h] EXCEPT !.len = len]), SubSeq(text[h], 1, len))
    /\ UNCHANGED written

Advance(h) ==
    /\ \E count \in 1..handles[h].len :
         Becomes(h, advance_unchecked(blocks, handles[h], count), SubSeq(text[h], count + 1, Len(text[h])))
    /\ UNCHANGED written

Reserve(h) ==
    /\ CanAllocate
    /\ \E additional \in 1..MaxBytes : Becomes(h, reserve(blocks, handles[h], additional), text[h])
    /\ UNCHANGED written

TryReclaim(h) ==
    /\ \E additional \in 1..MaxBytes : Becomes(h, try_reclaim(blocks, handles[h], additional), text[h])
    /\ UNCHANGED written

(* extend_from_slice, put_slice, put_bytes, and resize to more.            *)
Extend(h) ==
    /\ CanAllocate
    /\ \E n \in 1..MaxBytes :
         CanWrite(n) /\ Becomes(h, extend_from_slice(blocks, handles[h], Bytes(n)), text[h] \o Bytes(n))

(* A write through DerefMut.                                               *)
Overwrite(h) ==
    /\ CanWrite(1)
    /\ \E i \in 1..handles[h].len :
         Becomes(h, Both([blocks EXCEPT ![handles[h].b].mem[handles[h].off + i] = written + 1], handles[h]),
                 [text[h] EXCEPT ![i] = written + 1])

Unsplit(h, o) ==
    /\ h # o /\ CanAllocate
    /\ Become(h, unsplit(blocks, handles[h], handles[o]), text[h] \o text[o], o, NoHandle, <<>>)
    /\ UNCHANGED written

Freeze(h) ==
    /\ Becomes(h, Both(blocks, [handles[h] EXCEPT !.mode = "frozen",
                                                  !.cap = IF handles[h].kind = "arc" THEN handles[h].len ELSE @]),
               text[h])
    /\ UNCHANGED written

PutBytes(h, src) ==
    /\ CanAllocate
    /\ Become(h, put(blocks, handles[h], handles[src]), text[h] \o text[src], src, NoHandle, <<>>)
    /\ UNCHANGED written

CloneFrozen(h) ==
    /\ Spare # {} /\ handles[h].kind = "arc"
    /\ Become(h, shallow_clone(blocks, handles[h]), text[h], Min(Spare), handles[h], text[h])
    /\ UNCHANGED written

AdvanceFrozen(h) ==
    /\ \E count \in 1..handles[h].len :
         Becomes(h, Both(blocks, Forward(handles[h], count)), SubSeq(text[h], count + 1, Len(text[h])))
    /\ UNCHANGED written

IntoMut(h) ==
    /\ CanAllocate
    /\ Becomes(h, to_mut(blocks, handles[h]), text[h])
    /\ UNCHANGED written

IntoVec(h) ==
    /\ CanAllocate
    /\ Becomes(h, to_vec(blocks, handles[h]), text[h])
    /\ UNCHANGED written

Drop(h) ==
    /\ Becomes(h, Both(drop(blocks, handles[h]), NoHandle), <<>>)
    /\ UNCHANGED written

Call ==
    \/ \E h \in Mutable : \/ SplitOff(h) \/ SplitTo(h) \/ Truncate(h) \/ Advance(h) \/ Reserve(h)
                          \/ TryReclaim(h) \/ Extend(h) \/ Overwrite(h) \/ Freeze(h)
                          \/ \E o \in Mutable : Unsplit(h, o)
                          \/ \E o \in Frozen : PutBytes(h, o)
    \/ \E h \in Frozen : CloneFrozen(h) \/ AdvanceFrozen(h) \/ IntoMut(h)
    \/ \E h \in Kept : IntoVec(h) \/ Drop(h)

Next == calls < MaxCalls /\ calls' = calls + 1 /\ Call
Spec == Init /\ [][Next]_vars

-----------------------------------------------------------------------------
(* Each handle shows exactly what its holder put there, whatever is done   *)
(* with the other handles of the same allocation: no call loses, moves,    *)
(* exposes or overwrites bytes of another handle.                          *)
TextIsKept == \A h \in Kept : Window(blocks, handles[h]) = text[h]

Reach(h) == {handles[h].off + i : i \in 1..(IF h \in Mutable THEN handles[h].cap ELSE handles[h].len)}
(* What a handle may write, its spare capacity included, no other handle   *)
(* of the allocation can reach: splitting, joining and reclaiming capacity *)
(* keep the windows apart.                                                 *)
WritableIsPrivate ==
    \A h \in Mutable, o \in Kept :
        h # o /\ handles[h].b = handles[o].b => Reach(h) \cap Reach(o) = {}

(* The bookkeeping matches the allocations: a shared one counts its        *)
(* handles, an unshared one has a single handle, one without handles has   *)
(* been freed; and rebuild_vec finds the Vec again, its start by the       *)
(* offset in the data word and its capacity by the window's.               *)
HandlesMatchAllocation ==
    /\ \A b \in Blocks :
         LET on == {h \in Kept : handles[h].b = b} IN
         /\ on = {} => blocks[b] = Free
         /\ blocks[b].ref_count # 0 => Cardinality(on) = blocks[b].ref_count
         /\ \A h \in on : IF handles[h].kind = "vec" THEN on = {h} /\ blocks[b].ref_count = 0
                                                     ELSE blocks[b].ref_count # 0
    /\ \A h \in Kept : handles[h].kind = "vec" =>
         /\ handles[h].mode = "mut" => handles[h].pos = handles[h].off
         /\ handles[h].off + handles[h].cap = blocks[handles[h].b].cap

(* After reserve there is room for what was asked; try_reclaim says so     *)
(* only when there is, changes nothing otherwise, and allocates nothing.   *)
ReserveMakesRoom ==
    \A h \in Mutable, additional \in 1..MaxBytes :
        LET r == reserve(blocks, handles[h], additional)
            t == try_reclaim(blocks, handles[h], additional)
        IN  /\ CanAllocate => r.me.cap - r.me.len >= additional
            /\ IF t.ok THEN /\ t.me.cap - t.me.len >= additional
                            /\ t.bl[t.me.b].cap = blocks[handles[h].b].cap
                       ELSE t.bl = blocks /\ t.me = handles[h]
=============================================================================
