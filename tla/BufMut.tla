--------------------------------- MODULE BufMut ---------------------------------
(***************************************************************************)
(* The trait BufMut of patches/bytes (src/buf/buf_mut.rs) and what         *)
(* implements it: &mut [u8], &mut [MaybeUninit<u8>], Vec<u8> and BytesMut  *)
(* at the leaves; Chain, Limit and &mut T around them.                     *)
(*                                                                         *)
(* A leaf is its memory and the number of bytes behind the cursor; cells   *)
(* never written hold Blank.  Vec and BytesMut grow: their memory is their *)
(* capacity and `at` their length.  The pointer that chunk_mut returns is  *)
(* the place behind the cursor of the leaf it comes from; UninitSlice      *)
(* (src/buf/uninit_slice.rs) writes there and moves nothing.               *)
(***************************************************************************)
EXTENDS BufGet

CONSTANTS
    IsizeMax,           \* the largest isize
    Growth              \* bytes that a full Vec or BytesMut asks for (64)

ASSUME IsizeAssumption == IsizeMax \in Nat /\ UsizeMax = 2 * IsizeMax + 1
ASSUME GrowthAssumption == Growth \in Nat \ {0}

RECURSIVE remaining_mut(_), chunk_mut(_), advance_mut(_, _), WriteChunk(_, _)
RECURSIVE put_slice(_, _)

Blank == -1

slice_mut(n) == [kind |-> "slice_mut", mem |-> [i \in 1..n |-> Blank], at |-> 0]
uninit(n) == [kind |-> "uninit", mem |-> [i \in 1..n |-> Blank], at |-> 0]
growing(kind, s, capacity) ==
    [kind |-> kind, mem |-> s \o [i \in 1 .. capacity - Len(s) |-> Blank], at |-> Len(s)]
vec(s, capacity) == growing("vec", s, capacity)
bytes_mut(s, capacity) == growing("bytes_mut", s, capacity)
limit(inner, n) == [kind |-> "limit", inner |-> inner, limit |-> n]

Fixed == {"slice_mut", "uninit"}
Growing == {"vec", "bytes_mut"}
Leaf == Fixed \cup Growing

(* Vec::reserve (external) and BytesMut::reserve: room for n more.  Memory *)
(* within Growth of IsizeMax, where it would panic, is out of reach.       *)
reserve(b, n) ==
    LET lacking == b.at + n - Len(b.mem)
    IN  [b EXCEPT !.mem = @ \o [i \in 1..lacking |-> Blank]]

-----------------------------------------------------------------------------
Repeat(val, cnt) == [i \in 1..cnt |-> val]

(* UninitSlice::copy_from_slice on the front of a chunk.                   *)
copy_from_slice(b, src) ==
    [b EXCEPT !.mem = [i \in DOMAIN @ |->
        IF i \in b.at + 1 .. b.at + Len(src) THEN src[i - b.at] ELSE @[i]]]

(* advance_mut of slices, and of Vec and BytesMut.                         *)
slice_advance_mut(b, cnt) ==
    IF Len(b.mem) - b.at < cnt
      THEN panic_advance(TryGetError(b, cnt, Len(b.mem) - b.at))
      ELSE Ok(<<>>, [b EXCEPT !.at = @ + cnt])
Vec_advance_mut(b, cnt) ==
    IF Len(b.mem) - b.at < cnt
      THEN panic_advance(TryGetError(b, cnt, Len(b.mem) - b.at))
      ELSE Ok(<<>>, [b EXCEPT !.at = @ + cnt])
Vec_remaining_mut(b) == IsizeMax - b.at
Vec_chunk_mut(b) ==
    LET room == IF Len(b.mem) = b.at THEN reserve(b, Growth) ELSE b
    IN  [buf |-> room, len |-> Len(room.mem) - room.at]

slice_put_slice(b, src) ==
    IF Len(b.mem) - b.at < Len(src)
      THEN panic_advance(TryGetError(b, Len(src), Len(b.mem) - b.at))
      ELSE slice_advance_mut(copy_from_slice(b, src), Len(src))
MaybeUninit_put_slice(b, src) ==
    IF Len(b.mem) - b.at < Len(src)
      THEN panic_advance(TryGetError(b, Len(src), Len(b.mem) - b.at))
      ELSE slice_advance_mut(copy_from_slice(b, src), Len(src))
Vec_put_slice(b, src) ==
    IF b.at + Len(src) > IsizeMax
      THEN Panic(b)
      ELSE Vec_advance_mut(copy_from_slice(reserve(b, Len(src)), src), Len(src))

(* impl BufMut for Limit<T>; cells behind the limit are out of its chunk.  *)
Limit_remaining_mut(b) == Least(remaining_mut(b.inner), b.limit)
Limit_chunk_mut(b) ==
    LET d == chunk_mut(b.inner)
    IN  [buf |-> [b EXCEPT !.inner = d.buf], len |-> Least(d.len, b.limit)]
Limit_advance_mut(b, cnt) ==
    IF cnt > b.limit THEN Panic(b) ELSE ChargeLimit(b, advance_mut(b.inner, cnt), cnt)

(* impl BufMut for Chain<T, U>.                                            *)
Chain_remaining_mut(b) == saturating_add(remaining_mut(b.a), remaining_mut(b.b))
Chain_chunk_mut(b) ==
    IF remaining_mut(b.a) > 0
      THEN LET d == chunk_mut(b.a) IN [buf |-> chain(d.buf, b.b), len |-> d.len]
      ELSE LET d == chunk_mut(b.b) IN [buf |-> chain(b.a, d.buf), len |-> d.len]
Chain_advance_mut(b, cnt) ==
    LET a_rem == remaining_mut(b.a)
        a_done == IF a_rem = 0 THEN Ok(<<>>, b.a) ELSE advance_mut(b.a, a_rem)
    IN  IF a_rem # 0 /\ a_rem >= cnt
          THEN Rewrap(advance_mut(b.a, cnt), LAMBDA x : chain(x, b.b))
        ELSE IF a_done.tag # "ok"
          THEN Rewrap(a_done, LAMBDA x : chain(x, b.b))
          ELSE Rewrap(advance_mut(b.b, cnt - a_rem), LAMBDA x : chain(a_done.buf, x))

deref_forward_bufmut(b, o) == Rewrap(o, LAMBDA x : mut_ref(x))

-----------------------------------------------------------------------------
remaining_mut(b) ==
    CASE b.kind \in Fixed -> Len(b.mem) - b.at
      [] b.kind \in Growing -> Vec_remaining_mut(b)
      [] b.kind = "limit" -> Limit_remaining_mut(b)
      [] b.kind = "chain" -> Chain_remaining_mut(b)
      [] b.kind = "mut_ref" -> remaining_mut(b.inner)

(* The length of the chunk, and the buffer, which may have grown.          *)
chunk_mut(b) ==
    CASE b.kind \in Fixed -> [buf |-> b, len |-> Len(b.mem) - b.at]
      [] b.kind \in Growing -> Vec_chunk_mut(b)
      [] b.kind = "limit" -> Limit_chunk_mut(b)
      [] b.kind = "chain" -> Chain_chunk_mut(b)
      [] b.kind = "mut_ref" -> LET d == chunk_mut(b.inner) IN [d EXCEPT !.buf = mut_ref(@)]

advance_mut(b, cnt) ==
    CASE b.kind \in Fixed -> slice_advance_mut(b, cnt)
      [] b.kind \in Growing -> Vec_advance_mut(b, cnt)
      [] b.kind = "limit" -> Limit_advance_mut(b, cnt)
      [] b.kind = "chain" -> Chain_advance_mut(b, cnt)
      [] b.kind = "mut_ref" -> deref_forward_bufmut(b, advance_mut(b.inner, cnt))

(* Bytes written through the pointer of the chunk: they land in the leaf   *)
(* that chunk_mut took it from.                                            *)
WriteChunk(b, src) ==
    CASE b.kind \in Leaf -> copy_from_slice(b, src)
      [] b.kind = "chain" -> IF remaining_mut(b.a) > 0
                               THEN chain(WriteChunk(b.a, src), b.b)
                               ELSE chain(b.a, WriteChunk(b.b, src))
      [] b.kind \in {"limit", "mut_ref"} -> [b EXCEPT !.inner = WriteChunk(@, src)]

(* Write s to the front of a chunk and advance over it; over all of the    *)
(* chunk in the faulty variant.                                            *)
Fill_WholeChunk(d, s) == advance_mut(WriteChunk(d.buf, s), d.len)
Fill(d, s) == advance_mut(WriteChunk(d.buf, s), Len(s))

(* The loop of the default put_slice and put_bytes.                        *)
RECURSIVE WriteChunks(_, _)
WriteChunks(b, src) ==
    LET d == chunk_mut(b)
        cnt == Least(Len(src), d.len)
        step == Fill(d, SubSeq(src, 1, cnt))
    IN  IF src = <<>> THEN Ok(<<>>, b)
        ELSE IF cnt = 0 THEN Hang(d.buf)
        ELSE IF step.tag # "ok" THEN step
        ELSE WriteChunks(step.buf, From(src, cnt))

default_put_slice(b, src) ==
    IF remaining_mut(b) < Len(src)
      THEN panic_advance(TryGetError(b, Len(src), remaining_mut(b)))
      ELSE WriteChunks(b, src)

put_slice(b, src) ==
    CASE b.kind = "slice_mut" -> slice_put_slice(b, src)
      [] b.kind = "uninit" -> MaybeUninit_put_slice(b, src)
      [] b.kind \in Growing -> Vec_put_slice(b, src)
      [] b.kind = "mut_ref" -> deref_forward_bufmut(b, put_slice(b.inner, src))
      [] OTHER -> default_put_slice(b, src)

slice_put_bytes(b, val, cnt) ==
    IF Len(b.mem) - b.at < cnt
      THEN panic_advance(TryGetError(b, cnt, Len(b.mem) - b.at))
      ELSE slice_advance_mut(copy_from_slice(b, Repeat(val, cnt)), cnt)
Vec_put_bytes(b, val, cnt) ==
    IF b.at + cnt > IsizeMax
      THEN Panic(b)
      ELSE Vec_advance_mut(copy_from_slice(reserve(b, cnt), Repeat(val, cnt)), cnt)
default_put_bytes(b, val, cnt) ==
    IF remaining_mut(b) < cnt
      THEN panic_advance(TryGetError(b, cnt, remaining_mut(b)))
      ELSE WriteChunks(b, Repeat(val, cnt))
put_bytes(b, val, cnt) ==
    CASE b.kind \in Fixed -> slice_put_bytes(b, val, cnt)
      [] b.kind \in Growing -> Vec_put_bytes(b, val, cnt)
      [] OTHER -> default_put_bytes(b, val, cnt)

(* put: a chunk of the source against a chunk of the destination, until    *)
(* the source is used up.                                                  *)
RECURSIVE PutChunks(_, _)
PutChunks(b, src) ==
    LET s == chunk(src)
        d == chunk_mut(b)
        cnt == Least(Len(s), d.len)
        step == Fill(d, SubSeq(s, 1, cnt))
        rest == advance(src, cnt)
    IN  IF ~has_remaining(src) THEN Ok(<<>>, b)
        ELSE IF cnt = 0 THEN Hang(d.buf)
        ELSE IF step.tag # "ok" THEN step
        ELSE IF rest.tag # "ok" THEN Rewrap(rest, LAMBDA x : step.buf)
        ELSE PutChunks(step.buf, rest.buf)

default_put(b, src) ==
    IF remaining_mut(b) < remaining(src)
      THEN panic_advance(TryGetError(b, remaining(src), remaining_mut(b)))
      ELSE PutChunks(b, src)

(* Vec and BytesMut append the source; a BytesMut without capacity takes   *)
(* over the Bytes that copy_to_bytes makes of it.  All the room is         *)
(* reserved first: when that fails nothing has been appended.              *)
growing_put(b, src) ==
    LET got == IF b.kind = "vec" THEN CopyChunks(src, remaining(src), <<>>)
                                 ELSE BytesMut_put_from(Len(b.mem), src)
    IN  IF got.tag # "ok" THEN Rewrap(got, LAMBDA x : b) ELSE Vec_put_slice(b, got.val)
put(b, src) == IF b.kind \in Growing THEN growing_put(b, src) ELSE default_put(b, src)

-----------------------------------------------------------------------------
put_u8(b, v) == put_slice(b, to_bytes(v, 1, "be"))
put_i8(b, v) == put_slice(b, to_bytes(v, 1, "be"))
put_u16(b, v, order) == put_slice(b, to_bytes(v, 2, order))
put_i16(b, v, order) == put_slice(b, to_bytes(v, 2, order))
put_u32(b, v, order) == put_slice(b, to_bytes(v, 4, order))
put_i32(b, v, order) == put_slice(b, to_bytes(v, 4, order))
put_u64(b, v, order) == put_slice(b, to_bytes(v, 8, order))
put_i64(b, v, order) == put_slice(b, to_bytes(v, 8, order))
put_u128(b, v, order) == put_slice(b, to_bytes(v, 16, order))
put_i128(b, v, order) == put_slice(b, to_bytes(v, 16, order))

(* The low nbytes: the back of the big-endian array, the front of the      *)
(* little-endian one.                                                      *)
LowBytes(v, order, nbytes) ==
    InOrder(order, From(to_be_bytes(v, 8), 8 - nbytes))
put_uint(b, v, order, nbytes) ==
    IF nbytes > 8 THEN Panic(b) ELSE put_slice(b, LowBytes(v, order, nbytes))
put_int(b, v, order, nbytes) ==
    IF nbytes > 8 THEN Panic(b) ELSE put_slice(b, LowBytes(v, order, nbytes))
put_f32(b, v, order) == put_u32(b, v, order)
put_f64(b, v, order) == put_u64(b, v, order)

(* Writer::write returns how many bytes found room.                        *)
write(b, src) ==
    LET n == Least(remaining_mut(b), Len(src))
    IN  Map(put_slice(b, SubSeq(src, 1, n)), LAMBDA v : n)
==============================================================================
