---------------------------------- MODULE Buf ----------------------------------
(***************************************************************************)
(* The trait Buf of patches/bytes (src/buf/buf_impl.rs) and what           *)
(* implements it, as operators on nested buffers: slices, io::Cursor,      *)
(* VecDeque and Bytes (or BytesMut, which reads alike) at the leaves;      *)
(* Chain, Take and &mut T (or Box<T>) around them.  A buffer hands out its *)
(* content chunk by chunk.                                                 *)
(*                                                                         *)
(* A call that changes a buffer returns an outcome: "ok" with a value,     *)
(* "err" for TryGetError, "panic", or "hang" for a loop that makes no      *)
(* progress; each with the buffer as the call leaves it.                   *)
(***************************************************************************)
EXTENDS IntBytes

CONSTANTS
    UsizeMax,           \* the largest usize
    LEN                 \* IoSlices that Take::chunks_vectored has room for (16)

ASSUME UsizeAssumption == UsizeMax \in Nat /\ UsizeMax >= 16
ASSUME LenAssumption == LEN \in Nat \ {0}

RECURSIVE remaining(_), chunk(_), advance(_, _), chunks_vectored(_, _),
          copy_to_slice(_, _), copy_to_bytes(_, _)

Least(a, b) == IF a < b THEN a ELSE b
From(s, n) == SubSeq(s, n + 1, Len(s))

slice(s) == [kind |-> "slice", rest |-> s]
bytes(s) == [kind |-> "bytes", rest |-> s]
cursor(s, pos) == [kind |-> "cursor", data |-> s, pos |-> pos]
deque(s1, s2) == [kind |-> "deque", s1 |-> s1, s2 |-> s2]
chain(a, b) == [kind |-> "chain", a |-> a, b |-> b]
take(inner, limit) == [kind |-> "take", inner |-> inner, limit |-> limit]
mut_ref(inner) == [kind |-> "mut_ref", inner |-> inner]

Ok(v, b) == [tag |-> "ok", val |-> v, buf |-> b]
TryGetError(b, requested, available) ==
    [tag |-> "err", requested |-> requested, available |-> available, buf |-> b]
Panic(b) == [tag |-> "panic", buf |-> b]
Hang(b) == [tag |-> "hang", buf |-> b]

(* Go on with the value of an outcome that is "ok"; put the buffer of any  *)
(* outcome back into what is around it; and the same for a Take or Limit,  *)
(* whose limit pays for cnt bytes once the inner call has returned.        *)
Map(o, f(_)) == IF o.tag = "ok" THEN [o EXCEPT !.val = f(o.val)] ELSE o
Rewrap(o, around(_)) == [o EXCEPT !.buf = around(o.buf)]
ChargeLimit(b, o, cnt) ==
    Rewrap(o, LAMBDA x : [b EXCEPT !.inner = x,
                                   !.limit = IF o.tag = "ok" THEN @ - cnt ELSE @])

saturating_add(x, y) == Least(x + y, UsizeMax)
saturating_sub_usize_u64(a, b) == IF b > UsizeMax \/ b > a THEN 0 ELSE a - b
min_u64_usize(a, b) == IF a > UsizeMax THEN b ELSE Least(a, b)
panic_advance(o) == IF o.tag = "err" THEN Panic(o.buf) ELSE o

-----------------------------------------------------------------------------
(* impl Buf for &[u8] and for Bytes.                                       *)
slice_advance(b, cnt) ==
    IF Len(b.rest) < cnt
      THEN panic_advance(TryGetError(b, cnt, Len(b.rest)))
      ELSE Ok(<<>>, [b EXCEPT !.rest = From(@, cnt)])
slice_copy_to_slice(b, n) ==
    IF Len(b.rest) < n
      THEN panic_advance(TryGetError(b, n, Len(b.rest)))
      ELSE Map(slice_advance(b, n), LAMBDA v : SubSeq(b.rest, 1, n))
Bytes_copy_to_bytes(b, len) ==
    IF len > Len(b.rest) THEN Panic(b) ELSE Ok(SubSeq(b.rest, 1, len), bytes(From(b.rest, len)))

(* impl Buf for io::Cursor; the position may lie behind the end.           *)
Cursor_remaining(b) == saturating_sub_usize_u64(Len(b.data), b.pos)
Cursor_chunk(b) == From(b.data, min_u64_usize(b.pos, Len(b.data)))
Cursor_advance(b, cnt) ==
    LET max_cnt == saturating_sub_usize_u64(Len(b.data), b.pos)
    IN  IF cnt > max_cnt
          THEN panic_advance(TryGetError(b, cnt, max_cnt))
          ELSE Ok(<<>>, [b EXCEPT !.pos = @ + cnt])

(* impl Buf for VecDeque.  drain panics past the end and keeps the first   *)
(* of the two slices non-empty.                                            *)
drain(b, cnt) ==
    IF cnt < Len(b.s1)
      THEN deque(From(b.s1, cnt), b.s2)
      ELSE deque(From(b.s2, cnt - Len(b.s1)), <<>>)
VecDeque_chunk(b) == IF b.s1 = <<>> THEN b.s2 ELSE b.s1
VecDeque_chunks_vectored(b, n) ==
    IF b.s1 \o b.s2 = <<>> \/ n = 0
      THEN <<>>
      ELSE IF b.s2 = <<>> \/ n = 1 THEN <<b.s1>> ELSE <<b.s1, b.s2>>
VecDeque_advance(b, cnt) ==
    IF cnt > Len(b.s1) + Len(b.s2) THEN Panic(b) ELSE Ok(<<>>, drain(b, cnt))

-----------------------------------------------------------------------------
has_remaining(b) == remaining(b) > 0

(* The loop of BytesMut::put, Vec::put and try_copy_to_slice: chunk by     *)
(* chunk until n bytes are copied.                                         *)
RECURSIVE CopyChunks(_, _, _)
CopyChunks(b, n, dst) ==
    LET src == chunk(b)
        cnt == Least(Len(src), n)
        step == advance(b, cnt)
    IN  IF n = 0 THEN Ok(dst, b)
        ELSE IF cnt = 0 THEN Hang(b)
        ELSE IF step.tag # "ok" THEN step
        ELSE CopyChunks(step.buf, n - cnt, dst \o SubSeq(src, 1, cnt))

(* Mutant: the bytes turn out to be missing only once the others are gone. *)
try_copy_to_slice_ChecksLate(b, n) ==
    LET copied == CopyChunks(b, n, <<>>)
    IN  IF copied.tag = "hang" THEN TryGetError(copied.buf, n, remaining(b)) ELSE copied
try_copy_to_slice(b, n) ==
    IF remaining(b) < n THEN TryGetError(b, n, remaining(b)) ELSE CopyChunks(b, n, <<>>)

default_copy_to_slice(b, n) == panic_advance(try_copy_to_slice(b, n))

(* What BytesMut::put takes from its source, by the capacity it starts     *)
(* with: all of it, through copy_to_bytes when there is no capacity.       *)
BytesMut_put_from(capacity, src) ==
    IF ~has_remaining(src) THEN Ok(<<>>, src)
    ELSE IF capacity = 0 THEN copy_to_bytes(src, remaining(src))
    ELSE CopyChunks(src, remaining(src), <<>>)

(* The default copy_to_bytes: BytesMut::with_capacity(len), then put.      *)
default_copy_to_bytes(b, len) ==
    IF remaining(b) < len
      THEN panic_advance(TryGetError(b, len, remaining(b)))
      ELSE Rewrap(BytesMut_put_from(len, take(mut_ref(b), len)), LAMBDA t : t.inner.inner)

default_chunks_vectored(b, n) == IF n = 0 \/ ~has_remaining(b) THEN <<>> ELSE <<chunk(b)>>

-----------------------------------------------------------------------------
(* impl Buf for Chain<T, U>.  advance uses up the first buffer before the  *)
(* second can panic.                                                       *)
Chain_remaining(b) == saturating_add(remaining(b.a), remaining(b.b))
Chain_chunk_FirstOnly(b) == chunk(b.a)
Chain_chunk(b) == IF has_remaining(b.a) THEN chunk(b.a) ELSE chunk(b.b)
Chain_advance(b, cnt) ==
    LET a_rem == remaining(b.a)
        a_done == IF a_rem = 0 THEN Ok(<<>>, b.a) ELSE advance(b.a, a_rem)
    IN  IF a_rem # 0 /\ a_rem >= cnt
          THEN Rewrap(advance(b.a, cnt), LAMBDA x : chain(x, b.b))
        ELSE IF a_done.tag # "ok"
          THEN Rewrap(a_done, LAMBDA x : chain(x, b.b))
          ELSE Rewrap(advance(b.b, cnt - a_rem), LAMBDA x : chain(a_done.buf, x))
Chain_chunks_vectored(b, n) ==
    LET first == chunks_vectored(b.a, n)
    IN  first \o chunks_vectored(b.b, n - Len(first))
Chain_copy_to_bytes(b, len) ==
    LET a_rem == remaining(b.a)
        from_a == BytesMut_put_from(len, b.a)
        from_b == BytesMut_put_from(len, take(mut_ref(b.b), len - a_rem))
    IN  IF a_rem >= len THEN Rewrap(copy_to_bytes(b.a, len), LAMBDA x : chain(x, b.b))
        ELSE IF a_rem = 0 THEN Rewrap(copy_to_bytes(b.b, len), LAMBDA x : chain(b.a, x))
        ELSE IF len - a_rem > remaining(b.b) THEN Panic(b)
        ELSE IF from_a.tag # "ok" THEN Rewrap(from_a, LAMBDA x : chain(x, b.b))
        ELSE Rewrap(Map(from_b, LAMBDA v : from_a.val \o v), LAMBDA t : chain(from_a.buf, t.inner.inner))

(* impl Buf for Take<T>.                                                   *)
Take_remaining(b) == Least(remaining(b.inner), b.limit)
Take_chunk(b) ==
    LET s == chunk(b.inner) IN SubSeq(s, 1, Least(Len(s), b.limit))
Take_advance(b, cnt) ==
    IF cnt > b.limit THEN Panic(b) ELSE ChargeLimit(b, advance(b.inner, cnt), cnt)
Take_copy_to_bytes(b, len) ==
    IF len > remaining(b) THEN Panic(b) ELSE ChargeLimit(b, copy_to_bytes(b.inner, len), len)
RECURSIVE CutSlices(_, _)
CutSlices(slices, limit) ==
    IF slices = <<>> THEN <<>>
    ELSE IF limit <= Len(Head(slices)) THEN <<SubSeq(Head(slices), 1, limit)>>
    ELSE <<Head(slices)>> \o CutSlices(Tail(slices), limit - Len(Head(slices)))
Take_chunks_vectored_Uncut(b, n) == chunks_vectored(b.inner, n)
Take_chunks_vectored(b, n) ==
    IF b.limit = 0 THEN <<>> ELSE CutSlices(chunks_vectored(b.inner, Least(n, LEN)), b.limit)
set_limit(b, lim) == [b EXCEPT !.limit = lim]

-----------------------------------------------------------------------------
(* &mut T and Box<T> forward every call to what they point to.             *)
deref_forward_buf(b, o) == Rewrap(o, LAMBDA x : [b EXCEPT !.inner = x])

remaining(b) ==
    CASE b.kind \in {"slice", "bytes"} -> Len(b.rest)
      [] b.kind = "cursor" -> Cursor_remaining(b)
      [] b.kind = "deque" -> Len(b.s1) + Len(b.s2)
      [] b.kind = "chain" -> Chain_remaining(b)
      [] b.kind = "take" -> Take_remaining(b)
      [] b.kind = "mut_ref" -> remaining(b.inner)

chunk(b) ==
    CASE b.kind \in {"slice", "bytes"} -> b.rest
      [] b.kind = "cursor" -> Cursor_chunk(b)
      [] b.kind = "deque" -> VecDeque_chunk(b)
      [] b.kind = "chain" -> Chain_chunk(b)
      [] b.kind = "take" -> Take_chunk(b)
      [] b.kind = "mut_ref" -> chunk(b.inner)

advance(b, cnt) ==
    CASE b.kind \in {"slice", "bytes"} -> slice_advance(b, cnt)
      [] b.kind = "cursor" -> Cursor_advance(b, cnt)
      [] b.kind = "deque" -> VecDeque_advance(b, cnt)
      [] b.kind = "chain" -> Chain_advance(b, cnt)
      [] b.kind = "take" -> Take_advance(b, cnt)
      [] b.kind = "mut_ref" -> deref_forward_buf(b, advance(b.inner, cnt))

chunks_vectored(b, n) ==
    CASE b.kind \in {"slice", "bytes", "cursor"} -> default_chunks_vectored(b, n)
      [] b.kind = "deque" -> VecDeque_chunks_vectored(b, n)
      [] b.kind = "chain" -> Chain_chunks_vectored(b, n)
      [] b.kind = "take" -> Take_chunks_vectored(b, n)
      [] b.kind = "mut_ref" -> chunks_vectored(b.inner, n)

copy_to_slice(b, n) ==
    CASE b.kind = "slice" -> slice_copy_to_slice(b, n)
      [] b.kind = "mut_ref" -> deref_forward_buf(b, copy_to_slice(b.inner, n))
      [] OTHER -> default_copy_to_slice(b, n)

copy_to_bytes(b, len) ==
    CASE b.kind \in {"slice", "cursor", "deque"} -> default_copy_to_bytes(b, len)
      [] b.kind = "bytes" -> Bytes_copy_to_bytes(b, len)
      [] b.kind = "chain" -> Chain_copy_to_bytes(b, len)
      [] b.kind = "take" -> Take_copy_to_bytes(b, len)
      [] b.kind = "mut_ref" -> deref_forward_buf(b, copy_to_bytes(b.inner, len))
==============================================================================
