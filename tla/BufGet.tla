--------------------------------- MODULE BufGet ---------------------------------
(***************************************************************************)
(* The typed reads of Buf (src/buf/buf_impl.rs): get_* panics where        *)
(* try_get_* reports, and both go through one macro.  `order` is "be",     *)
(* "le" or "ne", the suffix of the method; one definition stands for the   *)
(* three.  With them the byte iterator and the io::Read adapter.           *)
(***************************************************************************)
EXTENDS Buf

(* buf_try_get_impl!: straight from the chunk when it holds the value,     *)
(* through a copy when the value crosses into the next chunk.              *)
buf_try_get_impl(b, SIZE, signed, order) ==
    IF remaining(b) < SIZE THEN TryGetError(b, SIZE, remaining(b))
    ELSE IF Len(chunk(b)) >= SIZE
      THEN LET src == SubSeq(chunk(b), 1, SIZE)
           IN  Map(advance(b, SIZE), LAMBDA v : from_bytes(src, signed, order))
      ELSE Map(copy_to_slice(b, SIZE), LAMBDA v : from_bytes(v, signed, order))

(* Its forms for nbytes of a u64 or i64: the low end of a zeroed array is  *)
(* its front in little-endian order and its back in big-endian order.      *)
buf_try_get_impl_nbytes(b, signed, order, nbytes) ==
    IF nbytes > 8 THEN Panic(b)
    ELSE LET zeroes == [i \in 1 .. 8 - nbytes |-> 0]
             fill(v) == IF InOrder(order, <<0, 1>>) = <<0, 1>> THEN zeroes \o v ELSE v \o zeroes
         IN  Map(try_copy_to_slice(b, nbytes), LAMBDA v : from_bytes(fill(v), signed, order))

buf_get_impl(o) == panic_advance(o)

(* get_u8 and try_get_u8 with their signed forms index the first byte.     *)
FirstByte(b, signed) ==
    IF chunk(b) = <<>> THEN Panic(b)
    ELSE LET ret == from_bytes(SubSeq(chunk(b), 1, 1), signed, "be")
         IN  Map(advance(b, 1), LAMBDA v : ret)

-----------------------------------------------------------------------------
try_get_u8(b) == IF remaining(b) < 1 THEN TryGetError(b, 1, remaining(b)) ELSE FirstByte(b, FALSE)
try_get_i8(b) == IF remaining(b) < 1 THEN TryGetError(b, 1, remaining(b)) ELSE FirstByte(b, TRUE)
try_get_u16(b, order) == buf_try_get_impl(b, 2, FALSE, order)
try_get_i16(b, order) == buf_try_get_impl(b, 2, TRUE, order)
try_get_u32(b, order) == buf_try_get_impl(b, 4, FALSE, order)
try_get_i32(b, order) == buf_try_get_impl(b, 4, TRUE, order)
try_get_u64(b, order) == buf_try_get_impl(b, 8, FALSE, order)
try_get_i64(b, order) == buf_try_get_impl(b, 8, TRUE, order)
try_get_u128(b, order) == buf_try_get_impl(b, 16, FALSE, order)
try_get_i128(b, order) == buf_try_get_impl(b, 16, TRUE, order)
try_get_uint(b, order, nbytes) == buf_try_get_impl_nbytes(b, FALSE, order, nbytes)
try_get_int(b, order, nbytes) == buf_try_get_impl_nbytes(b, TRUE, order, nbytes)
try_get_f32(b, order) == try_get_u32(b, order)
try_get_f64(b, order) == try_get_u64(b, order)

get_u8(b) == IF remaining(b) < 1 THEN panic_advance(TryGetError(b, 1, 0)) ELSE FirstByte(b, FALSE)
get_i8(b) == IF remaining(b) < 1 THEN panic_advance(TryGetError(b, 1, 0)) ELSE FirstByte(b, TRUE)
get_u16(b, order) == buf_get_impl(buf_try_get_impl(b, 2, FALSE, order))
get_i16(b, order) == buf_get_impl(buf_try_get_impl(b, 2, TRUE, order))
get_u32(b, order) == buf_get_impl(buf_try_get_impl(b, 4, FALSE, order))
get_i32(b, order) == buf_get_impl(buf_try_get_impl(b, 4, TRUE, order))
get_u64(b, order) == buf_get_impl(buf_try_get_impl(b, 8, FALSE, order))
get_i64(b, order) == buf_get_impl(buf_try_get_impl(b, 8, TRUE, order))
get_u128(b, order) == buf_get_impl(buf_try_get_impl(b, 16, FALSE, order))
get_i128(b, order) == buf_get_impl(buf_try_get_impl(b, 16, TRUE, order))
get_uint(b, order, nbytes) == buf_get_impl(buf_try_get_impl_nbytes(b, FALSE, order, nbytes))

(* The shift by 64 bits that sign_extend needs for nbytes = 0 overflows,   *)
(* and the workspace is built with overflow-checks.                        *)
get_int(b, order, nbytes) ==
    LET got == get_uint(b, order, nbytes)
    IN  IF got.tag = "ok" /\ nbytes = 0
          THEN Panic(got.buf)
          ELSE Map(got, LAMBDA v : sign_extend(v, nbytes))
get_f32(b, order) == get_u32(b, order)
get_f64(b, order) == get_u64(b, order)

-----------------------------------------------------------------------------
(* IntoIter::next, with <<>> for None, and Reader::read.                   *)
next(b) ==
    IF ~has_remaining(b) THEN Ok(<<>>, b)
    ELSE IF chunk(b) = <<>> THEN Panic(b)
    ELSE LET first == SubSeq(chunk(b), 1, 1) IN Map(advance(b, 1), LAMBDA v : first)
read(b, n) == copy_to_slice(b, Least(remaining(b), n))
==============================================================================
