------------------------------ MODULE MCBufStream ------------------------------
(* A byte is a bit, so that 16-byte integers fit; a usize ends at 55, so   *)
(* that three slices or vectors of the largest size overflow it.           *)
EXTENDS BufStream

Pattern == <<1, 0, 0, 1, 1, 1, 0, 1, 0, 0, 0, 0, 1, 0, 1, 1, 1, 1, 0, 1>>
P(n) == SubSeq(Pattern, 1, n)
Largest == slice(Pattern \o P(7))

MCSources ==
    {slice(<<>>), slice(P(20)), cursor(P(6), 2), cursor(P(4), 9), deque(P(2), P(17)),
     chain(slice(P(1)), chain(deque(P(2), P(3)), bytes(P(14)))),
     chain(cursor(P(3), 3), take(bytes(P(9)), 5)),
     take(chain(slice(P(3)), slice(P(6))), 8),
     take(mut_ref(chain(bytes(P(1)), slice(P(5)))), 4),
     chain(take(slice(P(5)), 2), take(deque(P(1), P(4)), 4)),
     chain(Largest, chain(Largest, Largest)),
     chain(chain(Largest, chain(bytes(P(20)), Largest)), slice(P(2))),
     chain(take(chain(slice(P(1)), chain(slice(P(2)), slice(P(3)))), 5), slice(P(2)))}

MCSinks ==
    {slice_mut(18), uninit(3), vec(<<>>, 0), bytes_mut(<<>>, 0), bytes_mut(<<>>, 5),
     chain(slice_mut(1), uninit(18)),
     chain(uninit(3), chain(vec(<<>>, 2), slice_mut(2))),
     chain(vec(<<>>, 1), chain(vec(<<>>, 0), bytes_mut(<<>>, 0))),
     limit(chain(slice_mut(2), vec(<<>>, 1)), 9),
     mut_ref(limit(slice_mut(9), 5)),
     chain(limit(vec(<<>>, 0), 2), limit(slice_mut(16), 15))}

MCSamples == {1, -3, 22339}
MCCounts == {0, 1, 3, 17}
MCNBytes == {0, 3, 8, 9}
MCSlices == {<<>>, P(1), P(5)}
MCLaterPuts ==
    {c \in WriteCalls : \/ c.op \in {"put_bytes", "put_buf", "write"} /\ c.n \in {3, 5}
                        \/ c.ty = "u16" /\ c.order = "le" /\ c.v = 3}
==============================================================================
