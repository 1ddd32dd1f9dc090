------------------------------- MODULE BufStream -------------------------------
(***************************************************************************)
(* A program that uses the traits: it writes typed values into any BufMut, *)
(* makes what was written readable, and reads it with any Buf; or it reads *)
(* a buffer it was given.  One step makes a call, the next takes the       *)
(* answer.  A panic ends the program.                                      *)
(***************************************************************************)
EXTENDS BufMut

CONSTANTS
    Sinks,              \* empty BufMuts to write into
    Sources,            \* Bufs to read from
    Counts,             \* arguments of advance, copy_to_slice, set_limit ...
    NBytes,             \* arguments of get_uint, put_int ...
    Slices,             \* arguments of put_slice, put, write
    Samples,            \* values to write, reduced to the type's range
    LaterPuts,          \* the writes that may follow the first
    MaxPuts,            \* bound on writes
    MaxIoSlices         \* bound on the IoSlices passed to chunks_vectored

VARIABLES
    open,               \* is w being written; r is read afterwards
    w,
    r,
    call,
    out,
    sent,               \* the writes not read back yet
    due                 \* what the read under way has to return, if known

vars == <<open, w, r, call, out, sent, due>>

Idle == [op |-> "none"]
NoAnswer == [tag |-> "none"]
Nothing == [tag |-> "nothing"]
Due(v) == [tag |-> "due", val |-> v]

-----------------------------------------------------------------------------
SizeOf == [u8 |-> 1, i8 |-> 1, u16 |-> 2, i16 |-> 2, u32 |-> 4, i32 |-> 4, u64 |-> 8,
           i64 |-> 8, u128 |-> 16, i128 |-> 16, f32 |-> 4, f64 |-> 8]
Wide == (DOMAIN SizeOf) \ {"u8", "i8"}
SignedTypes == {"i8", "i16", "i32", "i64", "i128", "int"}

Typed(op) ==
    {[op |-> op, ty |-> t, order |-> "be", n |-> 1] : t \in {"u8", "i8"}}
    \cup {[op |-> op, ty |-> t, order |-> o, n |-> SizeOf[t]] :
            t \in Wide, o \in {"be", "le", "ne"}}
    \cup {[op |-> op, ty |-> t, order |-> o, n |-> k] :
            t \in {"uint", "int"}, o \in {"be", "le", "ne"}, k \in NBytes}
Plain(op, n) == [op |-> op, ty |-> "bytes", order |-> "be", n |-> n]

ReadCalls ==
    Typed("get") \cup Typed("try_get")
    \cup {Plain(op, n) : op \in {"advance", "copy", "try_copy", "bytes", "read"}, n \in Counts}
    \cup {Plain("next", 1)}

(* A value of the type that agrees with v in its lowest bytes.             *)
Wrap(ty, n, v) ==
    LET u == v % Radix ^ n IN IF ty \in SignedTypes THEN AsSigned(u, n) ELSE u
With(c, v) == [op |-> c.op, ty |-> c.ty, order |-> c.order, n |-> c.n, v |-> v]
TypedPuts ==
    {With(c, Wrap(c.ty, IF c.ty \in {"uint", "int"} THEN 8 ELSE c.n, v)) :
        c \in Typed("put"), v \in Samples}
WriteCalls ==
    TypedPuts
    \cup {With(Plain(op, Len(s)), s) : op \in {"put_slice", "put_buf", "write"}, s \in Slices}
    \cup {With(Plain("put_bytes", n), 1) : n \in Counts}
LimitCalls == {[op |-> "set_limit", n |-> n] : n \in Counts} \cup {[op |-> "into_inner", n |-> 0]}

-----------------------------------------------------------------------------
Get(b, c) ==
    CASE c.ty = "u8" -> get_u8(b) [] c.ty = "i8" -> get_i8(b)
      [] c.ty = "u16" -> get_u16(b, c.order) [] c.ty = "i16" -> get_i16(b, c.order)
      [] c.ty = "u32" -> get_u32(b, c.order) [] c.ty = "i32" -> get_i32(b, c.order)
      [] c.ty = "u64" -> get_u64(b, c.order) [] c.ty = "i64" -> get_i64(b, c.order)
      [] c.ty = "u128" -> get_u128(b, c.order) [] c.ty = "i128" -> get_i128(b, c.order)
      [] c.ty = "f32" -> get_f32(b, c.order) [] c.ty = "f64" -> get_f64(b, c.order)
      [] c.ty = "uint" -> get_uint(b, c.order, c.n) [] c.ty = "int" -> get_int(b, c.order, c.n)

TryGet(b, c) ==
    CASE c.ty = "u8" -> try_get_u8(b) [] c.ty = "i8" -> try_get_i8(b)
      [] c.ty = "u16" -> try_get_u16(b, c.order) [] c.ty = "i16" -> try_get_i16(b, c.order)
      [] c.ty = "u32" -> try_get_u32(b, c.order) [] c.ty = "i32" -> try_get_i32(b, c.order)
      [] c.ty = "u64" -> try_get_u64(b, c.order) [] c.ty = "i64" -> try_get_i64(b, c.order)
      [] c.ty = "u128" -> try_get_u128(b, c.order) [] c.ty = "i128" -> try_get_i128(b, c.order)
      [] c.ty = "f32" -> try_get_f32(b, c.order) [] c.ty = "f64" -> try_get_f64(b, c.order)
      [] c.ty = "uint" -> try_get_uint(b, c.order, c.n)
      [] c.ty = "int" -> try_get_int(b, c.order, c.n)

Perform(b, c) ==
    CASE c.op = "get" -> Get(b, c)
      [] c.op = "try_get" -> TryGet(b, c)
      [] c.op = "advance" -> advance(b, c.n)
      [] c.op = "copy" -> copy_to_slice(b, c.n)
      [] c.op = "try_copy" -> try_copy_to_slice(b, c.n)
      [] c.op = "bytes" -> copy_to_bytes(b, c.n)
      [] c.op = "read" -> read(b, c.n)
      [] c.op = "next" -> next(b)

(* The source of a put is split in two, to meet the chunks of w unaligned. *)
SplitInTwo(s) ==
    LET one == Least(1, Len(s)) IN chain(slice(SubSeq(s, 1, one)), slice(From(s, one)))
Put(b, c) ==
    CASE c.ty = "u8" -> put_u8(b, c.v) [] c.ty = "i8" -> put_i8(b, c.v)
      [] c.ty = "u16" -> put_u16(b, c.v, c.order) [] c.ty = "i16" -> put_i16(b, c.v, c.order)
      [] c.ty = "u32" -> put_u32(b, c.v, c.order) [] c.ty = "i32" -> put_i32(b, c.v, c.order)
      [] c.ty = "u64" -> put_u64(b, c.v, c.order) [] c.ty = "i64" -> put_i64(b, c.v, c.order)
      [] c.ty = "u128" -> put_u128(b, c.v, c.order) [] c.ty = "i128" -> put_i128(b, c.v, c.order)
      [] c.ty = "f32" -> put_f32(b, c.v, c.order) [] c.ty = "f64" -> put_f64(b, c.v, c.order)
      [] c.ty = "uint" -> put_uint(b, c.v, c.order, c.n)
      [] c.ty = "int" -> put_int(b, c.v, c.order, c.n)
      [] c.op = "put_slice" -> put_slice(b, c.v)
      [] c.op = "put_bytes" -> put_bytes(b, c.v, c.n)
      [] c.op = "put_buf" -> put(b, SplitInTwo(c.v))
      [] c.op = "write" -> write(b, c.v)

-----------------------------------------------------------------------------
(* The bytes of a buffer in the order in which they are read.              *)
RECURSIVE Flat(_)
Flat(b) ==
    CASE b.kind \in {"slice", "bytes"} -> b.rest
      [] b.kind = "cursor" -> From(b.data, b.pos)
      [] b.kind = "deque" -> b.s1 \o b.s2
      [] b.kind = "chain" -> Flat(b.a) \o Flat(b.b)
      [] b.kind = "take" -> LET s == Flat(b.inner) IN SubSeq(s, 1, Least(Len(s), b.limit))
      [] b.kind = "mut_ref" -> Flat(b.inner)

(* The cells behind the cursors, those before them, and the room left.     *)
RECURSIVE Cells(_, _), RoomIn(_), Readable(_)
Cells(b, written) ==
    CASE b.kind \in Leaf -> IF written THEN SubSeq(b.mem, 1, b.at) ELSE From(b.mem, b.at)
      [] b.kind = "chain" -> Cells(b.a, written) \o Cells(b.b, written)
      [] OTHER -> Cells(b.inner, written)
RoomIn(b) ==
    CASE b.kind \in Fixed -> Len(b.mem) - b.at
      [] b.kind \in Growing -> IsizeMax - b.at
      [] b.kind = "chain" -> RoomIn(b.a) + RoomIn(b.b)
      [] b.kind = "limit" -> Least(RoomIn(b.inner), b.limit)
      [] b.kind = "mut_ref" -> RoomIn(b.inner)

(* The Buf over what was written: a Vec or BytesMut becomes Bytes.         *)
Readable(b) ==
    CASE b.kind \in Fixed -> slice(SubSeq(b.mem, 1, b.at))
      [] b.kind \in Growing -> bytes(SubSeq(b.mem, 1, b.at))
      [] b.kind = "chain" -> chain(Readable(b.a), Readable(b.b))
      [] b.kind = "limit" -> Readable(b.inner)
      [] b.kind = "mut_ref" -> mut_ref(Readable(b.inner))

Unlimited == UsizeMax + 1
Capped(b) == b.kind \in {"take", "limit"}
Quota(b) == IF Capped(b) THEN b.limit ELSE Unlimited
Inside(b) == IF Capped(b) THEN b.inner ELSE b

-----------------------------------------------------------------------------
Init ==
    /\ \/ open = TRUE /\ w \in Sinks /\ r = slice(<<>>)
       \/ open = FALSE /\ w = slice_mut(0) /\ r \in Sources
    /\ call = Idle /\ out = NoAnswer
    /\ sent = <<>> /\ due = Nothing

Answer(o) ==
    CASE o.tag = "ok" -> [tag |-> "ok", val |-> o.val]
      [] o.tag = "err" -> [tag |-> "err", requested |-> o.requested, available |-> o.available]
      [] OTHER -> [tag |-> o.tag]

(* A read that follows the writer's format, and what it has to return: the *)
(* value reduced to the bytes it was given.  try_get_int does not extend   *)
(* the sign and get_int panics on zero bytes, so each is used without.     *)
Expected(c, p) ==
    IF p.op = "put"
      THEN IF /\ c.op \in {"get", "try_get"} /\ <<c.ty, c.order, c.n>> = <<p.ty, p.order, p.n>>
              /\ c.ty = "int" => (c.op = "get" <=> c.n # 0)
             THEN Due(Wrap(p.ty, p.n, p.v)) ELSE Nothing
      ELSE IF c.op \in {"copy", "try_copy", "bytes", "read"} /\ c.n = p.n
             THEN Due(IF p.op = "put_bytes" THEN Repeat(p.v, p.n) ELSE p.v) ELSE Nothing

Read ==
    /\ ~open /\ call = Idle
    /\ \E c \in ReadCalls : \E res \in {Perform(r, c)} :
         /\ call' = c
         /\ out' = Answer(res)
         /\ r' = res.buf
         /\ due' = IF sent = <<>> THEN Nothing ELSE Expected(c, Head(sent))
         /\ sent' = IF due'.tag = "due" THEN Tail(sent) ELSE <<>>
         /\ sent # <<>> => due'.tag = "due"
    /\ UNCHANGED <<open, w>>

(* Bytes that write found no room for are not sent.                        *)
Write ==
    /\ open /\ call = Idle /\ Len(sent) < MaxPuts
    /\ \E c \in IF sent = <<>> THEN WriteCalls ELSE LaterPuts : \E res \in {Put(w, c)} :
         /\ call' = c
         /\ out' = Answer(res)
         /\ w' = res.buf
         /\ sent' = IF c.op = "write" /\ res.tag = "ok"
                      THEN Append(sent, With(Plain(c.op, res.val), SubSeq(c.v, 1, res.val)))
                      ELSE Append(sent, c)
    /\ UNCHANGED <<open, r, due>>

(* set_limit and into_inner of a Take or Limit.                            *)
Relimit(b, c) == IF c.op = "set_limit" THEN set_limit(b, c.n) ELSE b.inner
ChangeLimit ==
    /\ call = Idle /\ sent = <<>>
    /\ \E c \in LimitCalls :
         /\ call' = c
         /\ \/ open /\ Capped(w) /\ w' = Relimit(w, c) /\ UNCHANGED r
            \/ ~open /\ Capped(r) /\ r' = Relimit(r, c) /\ UNCHANGED w
    /\ out' = [tag |-> "ok", val |-> <<>>]
    /\ UNCHANGED <<open, sent, due>>

Return ==
    /\ call # Idle /\ out.tag \notin {"panic", "hang"}
    /\ call' = Idle /\ out' = NoAnswer /\ due' = Nothing
    /\ UNCHANGED <<open, w, r, sent>>

(* Done writing: the same memory becomes a Buf.                            *)
Seal ==
    /\ open /\ call = Idle /\ sent # <<>>
    /\ open' = FALSE
    /\ r' = Readable(w)
    /\ UNCHANGED <<w, call, out, sent, due>>

Next == Read \/ Write \/ ChangeLimit \/ Return \/ Seal

Spec == Init /\ [][Next]_vars

-----------------------------------------------------------------------------
(* However a buffer is nested and cut into chunks, its calls behave as on  *)
(* one flat sequence: the same bytes in the same order, the same errors    *)
(* and panics, nothing consumed by a read that reports or panics, nothing  *)
(* written by a write that panics, no loop that stands still.  One call is *)
(* excepted: an advance beyond the end may use up the first part of a      *)
(* Chain before it panics, and then still nothing is skipped or reordered. *)
Stream ==
    INSTANCE FlatStream WITH
        stream <- IF open THEN Cells(w, TRUE) ELSE Flat(Inside(r)),
        room <- IF open THEN RoomIn(Inside(w)) ELSE 0,
        quota <- IF open THEN Quota(w) ELSE Quota(r)
RefinesFlat == Stream!Spec

(* The contract of Buf and BufMut that every loop over chunks relies on:   *)
(* chunk is the front of what is left and empty only when nothing is, and  *)
(* remaining is its length as far as a usize can say; chunk_mut offers     *)
(* part of the room that remaining_mut promises, and some while there is   *)
(* any.                                                                    *)
ChunkContract ==
    /\ remaining(r) = Least(Len(Flat(r)), UsizeMax)
    /\ IsPrefix(chunk(r), Flat(r))
    /\ chunk(r) = <<>> => Flat(r) = <<>>
    /\ open => LET d == chunk_mut(w)
               IN  /\ remaining_mut(w) = Least(RoomIn(w), UsizeMax)
                   /\ d.len <= RoomIn(w)
                   /\ d.len = 0 => RoomIn(w) = 0

(* The slices of chunks_vectored are the front of what is left, at most as *)
(* many as asked for, and not nothing while there is anything; unless a    *)
(* Take with more than LEN slices stands before another buffer, which is   *)
(* then continued too early.                                               *)
RECURSIVE CutTake(_, _)
CutTake(b, n) ==
    CASE b.kind = "take" -> n > LEN /\ Len(chunks_vectored(b.inner, n)) > LEN
      [] b.kind = "chain" -> CutTake(b.a, n) \/ CutTake(b.b, n)
      [] b.kind = "mut_ref" -> CutTake(b.inner, n)
      [] OTHER -> FALSE
VectoredIsPrefix ==
    \A n \in 0..MaxIoSlices :
        LET v == chunks_vectored(r, n)
        IN  /\ Len(v) <= n
            /\ IsPrefix(FlattenSeq(v), Flat(r)) \/ CutTake(r, n)
            /\ (n > 0 /\ Flat(r) # <<>>) => FlattenSeq(v) # <<>>

(* A value read the way it was written comes back, across chunk            *)
(* boundaries, in every byte order, signed or not, reduced to the number   *)
(* of bytes it was given.                                                  *)
WhatIsPutIsGot == due.tag = "due" => out.tag = "ok" /\ out.val = due.val

(* A write fills exactly the cells it moves the cursor over: none before   *)
(* it is left blank, none behind it is touched.                            *)
WritesWhatItAdvances ==
    /\ \A i \in DOMAIN Cells(w, TRUE) : Cells(w, TRUE)[i] # Blank
    /\ \A i \in DOMAIN Cells(w, FALSE) : Cells(w, FALSE)[i] = Blank

(* "Gets a signed n-byte integer" (buf_impl.rs, try_get_int): the result   *)
(* lies in the range of a signed integer of n bytes.                       *)
TryGetIntIsSigned ==
    (call.op = "try_get" /\ call.ty = "int" /\ out.tag = "ok") =>
        -(Radix ^ call.n) <= 2 * out.val /\ 2 * out.val < Radix ^ call.n
==============================================================================
