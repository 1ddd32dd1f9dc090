--------------------------- MODULE BytesMutProofs ---------------------------
(***************************************************************************)
(* The windows of BytesMut and Bytes, for any number of handles,           *)
(* allocations and bytes: what a handle may write no other one reaches,    *)
(* each shows what its holder put there, the counts and the allocations    *)
(* agree, and reserve makes the room it was asked for.                     *)
(*                                                                         *)
(* A call is several operations, each of which takes a consistent layout   *)
(* to another one: so does the call.                                       *)
(***************************************************************************)
EXTENDS BytesMutLayout

USE ZenonT(30)

IInv == Consistent(handles, blocks, text) /\ written \in Nat

-----------------------------------------------------------------------------
(* Conversions.                                                            *)

(* to_mut of a Bytes: the Vec rebuilt and advanced, the only Arc as it is  *)
(* with all its capacity, or a copy.                                       *)
LEMMA ToMut ==
    ASSUME SizeLaws, NEW hs, NEW bl, NEW tx, Consistent(hs, bl, tx), NEW h \in Handles,
           hs[h] # NoHandle, Fresh \in Blocks, On(hs, Fresh) = {}
    PROVE  Leads(hs, tx, h, to_mut(bl, hs[h]), tx[h]) /\ to_mut(bl, hs[h]).me \in Place
<1> DEFINE me == hs[h]
           old == bl[me.b]
           s == tx[h]
           r == to_mut(bl, me)
<1>1. /\ me \in Place /\ me.b \in Blocks /\ old \in Allocation /\ Fitted(me, old) /\ Shown(me, old, s)
      /\ s \in Seq(Nat) /\ bl \in [Blocks -> Allocation]
  BY HandleFacts DEF Consistent
<1>2. /\ me.off \in Nat /\ me.len \in Nat /\ me.cap \in Nat /\ old.cap \in Nat /\ me.kind \in {"vec", "arc"}
      /\ me.off + me.cap <= old.cap /\ me.len <= me.cap /\ Len(s) = me.len
      /\ old.mem \in Seq(Nat) /\ Len(old.mem) = old.cap
      /\ \A i \in 1 .. me.len : s[i] = old.mem[me.off + i]
  BY <1>1 DEF Place, Allocation, Fitted, Shown
<1>3. CASE me.kind = "vec"
  <2> DEFINE n == me.off + me.len
             m == from_vec(me.b, n, old.cap)
             p == SubSeq(old.mem, 1, n)
             hs1 == [hs EXCEPT ![h] = m]
             tx1 == [tx EXCEPT ![h] = p]
             off == me.off
  <2>1. r = advance_unchecked(bl, m, off)
    BY <1>3 DEF to_mut
  <2>2. n \in Nat /\ n \in 0 .. Len(old.mem) /\ n <= old.cap /\ off \in 0 .. n
    <3> HIDE DEF me, old
    <3>1. /\ me.off \in Nat /\ me.len \in Nat /\ me.cap \in Nat /\ old.cap \in Nat
          /\ me.off + me.cap <= old.cap /\ me.len <= me.cap
      BY <1>2
    <3>2. n \in Nat /\ n \in 0 .. old.cap /\ n <= old.cap /\ me.off \in 0 .. n
      BY <3>1, SMTT(30)
    <3> QED
      BY <1>2, <3>2
  <2> HIDE DEF n
  <2>3. m \in Place /\ IsVec(m, me.b, n, old.cap)
    BY <1>1, <1>2, <2>2, FromVec
  <2>4. p \in Seq(Nat) /\ Len(p) = n /\ \A i \in 1 .. n : p[i] = old.mem[i]
    BY <1>2, <2>2, TextFacts
  <2> HIDE DEF m, p
  <2>5. Fitted(m, old)
    <3>1. old.ref_count = 0 /\ 0 + old.cap = old.cap /\ old.cap <= old.cap
      <4>1. old.ref_count = 0
        BY <1>1, <1>3 DEF Fitted
      <4> QED
        BY <1>2, <4>1, SMTT(30)
    <3> QED
      BY <2>2, <2>3, <3>1 DEF Fitted, IsVec
  <2>6. Shown(m, old, p)
    <3>1. ASSUME NEW i \in 1 .. n PROVE p[i] = old.mem[0 + i]
      <4>1. 0 + i = i
        BY <2>2, SMTT(30)
      <4> QED
        BY <2>4, <4>1
    <3> QED
      BY <2>3, <2>4, <3>1 DEF Shown, IsVec
  <2>7. Consistent(hs1, bl, tx1)
    <3>1. Others(hs, h, me.b) = {} /\ old.ref_count \in {0, 1} /\ m.b = me.b
      <4>1. Others(hs, h, me.b) = {}
        BY <1>3, OnlyHandle DEF is_unique
      <4> QED
        BY <1>1, <1>3, <2>3, <4>1 DEF Fitted, IsVec
    <3>2. [bl EXCEPT ![m.b] = old] = bl
      BY <1>1, <3>1
    <3>3. Consistent([hs EXCEPT ![h] = m], [bl EXCEPT ![m.b] = old], [tx EXCEPT ![h] = p])
      BY <1>1, <2>3, <2>4, <2>5, <2>6, <3>1, Alone
    <3> QED
      BY <3>2, <3>3
  <2>8. hs1[h] = m /\ tx1[h] = p /\ m # NoHandle /\ m.len = n
    BY <2>3, Constants DEF Consistent, IsVec
  <2>9. SubSeq(p, off + 1, Len(p)) = s
    <3> HIDE DEF s, me, old, off
    <3>1. off \in 0 .. Len(p) /\ Len(p) - off = me.len
      BY <1>2, <2>2, <2>4, SMTT(30) DEF off, n
    <3> DEFINE q == SubSeq(p, off + 1, Len(p))
    <3>2. q \in Seq(Nat) /\ Len(q) = Len(p) - off /\ \A i \in 1 .. Len(p) - off : q[i] = p[off + i]
      BY <2>4, <3>1, TextFacts
    <3> HIDE DEF q
    <3>3. ASSUME NEW i \in 1 .. me.len PROVE q[i] = s[i]
      <4>1. off + i \in 1 .. n /\ off = me.off
        BY <1>2, SMTT(30) DEF n, off
      <4> QED
        BY <1>2, <2>4, <3>1, <3>2, <4>1
    <3>4. q = s
      <4>1. q \in Seq(Nat) /\ s \in Seq(Nat) /\ Len(q) = Len(s) /\ \A i \in 1 .. Len(s) : q[i] = s[i]
        BY <1>1, <1>2, <3>1, <3>2, <3>3
      <4> QED
        BY <4>1, SameText
    <3> QED
      BY <3>4 DEF q
  <2>10. Leads(hs1, tx1, h, r, s) /\ r.me \in Place
    <3> HIDE DEF hs1, tx1, r, s, off
    <3>1. hs1[h] # NoHandle /\ off \in 0 .. hs1[h].len
      BY <2>2, <2>8
    <3>2. /\ Leads(hs1, tx1, h, advance_unchecked(bl, hs1[h], off), SubSeq(tx1[h], off + 1, Len(tx1[h])))
          /\ advance_unchecked(bl, hs1[h], off).me \in Place
      BY <2>7, <3>1, Advances
    <3> QED
      BY <2>1, <2>8, <2>9, <3>2
  <2>11. [hs1 EXCEPT ![h] = r.me] = [hs EXCEPT ![h] = r.me] /\ [tx1 EXCEPT ![h] = s] = [tx EXCEPT ![h] = s]
    <3> HIDE DEF r, s, me
    <3> QED
      OBVIOUS
  <2> HIDE DEF hs1, tx1, r
  <2> QED
    BY <2>10, <2>11 DEF Leads, r
<1>4. CASE me.kind = "arc" /\ old.ref_count = 1
  <2> DEFINE cap == old.cap - me.off
             m == [me EXCEPT !.mode = "mut", !.cap = cap]
  <2>1. r = Both(bl, m)
    BY <1>4 DEF to_mut
  <2>2. cap \in Nat /\ me.len <= cap /\ me.off + cap <= old.cap
    <3>1. ASSUME NEW off \in Nat, NEW len \in Nat, NEW c \in Nat, NEW top \in Nat, len <= c, off + c <= top
          PROVE  top - off \in Nat /\ len <= top - off /\ off + (top - off) <= top
      BY <3>1, SMTT(30)
    <3>2. /\ me.off \in Nat /\ me.len \in Nat /\ me.cap \in Nat /\ old.cap \in Nat
          /\ me.len <= me.cap /\ me.off + me.cap <= old.cap
      BY <1>2
    <3> HIDE DEF me, old
    <3>3. old.cap - me.off \in Nat /\ me.len <= old.cap - me.off /\ me.off + (old.cap - me.off) <= old.cap
      BY <3>1, <3>2
    <3> QED
      BY <3>3
  <2>3. is_unique(bl, me)
    BY <1>4 DEF is_unique
  <2> HIDE DEF cap, me, old, s, r
  <2>4. /\ m \in Place /\ m.b = me.b /\ m.kind = me.kind /\ m.off = me.off /\ m.len = me.len /\ m.cap = cap
    BY <1>1, <2>2 DEF Place
  <2> HIDE DEF m
  <2>5. Relocation(me, old, s, m, old)
    BY <1>1, <1>2, <1>4, <2>2, <2>4 DEF Relocation
  <2>6. Consistent([hs EXCEPT ![h] = m], [bl EXCEPT ![m.b] = old], [tx EXCEPT ![h] = s])
    BY <2>3, <2>5, Relocates DEF me, s, old
  <2>7. [bl EXCEPT ![m.b] = old] = bl
    BY <1>1, <2>4 DEF old
  <2>8. r.bl = bl /\ r.me = m
    BY <2>1, SMTT(30) DEF Both
  <2> QED
    BY <2>4, <2>6, <2>7, <2>8 DEF Leads, r, s, me
<1>5. CASE me.kind = "arc" /\ old.ref_count # 1
  <2> DEFINE m == from_vec(Fresh, me.len, me.len)
             bl2 == release_shared(Allocate(bl, Fresh, Window(bl, me), me.len), me.b)
  <2>1. r = Both(bl2, m)
    BY <1>5 DEF to_mut
  <2>2. m \in Place /\ IsVec(m, Fresh, me.len, me.len) /\ me.len <= me.len
    <3>1. m \in Place /\ IsVec(m, Fresh, me.len, me.len)
      BY <1>2, FromVec
    <3>2. me.len <= me.len
      BY <1>2, SMTT(30)
    <3> QED
      BY <3>1, <3>2
  <2> HIDE DEF m
  <2>3. Consistent([hs EXCEPT ![h] = m], bl2, [tx EXCEPT ![h] = tx[h]])
    BY <1>2, <1>5, <2>2, CopiesOut
  <2> HIDE DEF bl2, r
  <2>4. r.bl = bl2 /\ r.me = m
    BY <2>1, SMTT(30) DEF Both
  <2> QED
    BY <2>2, <2>3, <2>4 DEF Leads, r
<1> QED
  BY <1>2, <1>3, <1>4, <1>5

(* Into a Vec: the allocation with the bytes moved to its front, when      *)
(* there is no other handle, or a copy.                                    *)
LEMMA ToVec ==
    ASSUME SizeLaws, NEW hs, NEW bl, NEW tx, Consistent(hs, bl, tx), NEW h \in Handles,
           hs[h] # NoHandle, Fresh \in Blocks, On(hs, Fresh) = {}
    PROVE  Leads(hs, tx, h, to_vec(bl, hs[h]), tx[h])
<1> DEFINE me == hs[h]
           old == bl[me.b]
           s == tx[h]
           r == to_vec(bl, me)
<1>1. /\ me \in Place /\ me.b \in Blocks /\ old \in Allocation /\ Fitted(me, old) /\ Shown(me, old, s)
      /\ s \in Seq(Nat) /\ bl \in [Blocks -> Allocation]
  BY HandleFacts DEF Consistent
<1>2. /\ me.off \in Nat /\ me.len \in Nat /\ me.cap \in Nat /\ old.cap \in Nat /\ me.kind \in {"vec", "arc"}
      /\ me.off + me.cap <= old.cap /\ me.len <= me.cap
  BY <1>1 DEF Place, Allocation, Fitted
<1>3. CASE is_unique(bl, me)
  <2> DEFINE c == Fronted(old, s)
             a == [c EXCEPT !.ref_count = 0, !.orig = 0]
             m == [from_vec(me.b, me.len, old.cap) EXCEPT !.mode = "frozen"]
             bl2 == [MoveToFront(bl, me) EXCEPT ![me.b].ref_count = 0, ![me.b].orig = 0]
  <2>1. r = Both(bl2, m)
    BY <1>3 DEF to_vec
  <2>2. /\ MoveToFront(bl, me) = [bl EXCEPT ![me.b] = c]
        /\ c \in Allocation /\ c.cap = old.cap /\ c.ref_count = old.ref_count
        /\ \A i \in 1 .. me.len : c.mem[i] = s[i]
    <3>1. Moved(bl, me, s, c)
      BY <1>1, FrontFacts
    <3> QED
      BY <3>1 DEF Moved
  <2> HIDE DEF c
  <2>3. bl2 = [bl EXCEPT ![me.b] = a]
    BY <1>1, <2>2
  <2>4. a \in Allocation /\ a.ref_count = 0 /\ a.cap = old.cap /\ a.mem = c.mem
    <3>1. 0 \in Reprs /\ 0 \in Nat
      BY WidthAssumption, SMTT(30) DEF Reprs
    <3> HIDE DEF me, old
    <3> QED
      BY <2>2, <3>1 DEF Allocation
  <2>5. m \in Place /\ IsVec(m, me.b, me.len, old.cap) /\ m.mode = "frozen"
    <3>1. m \in Place /\ IsVec(m, me.b, me.len, old.cap)
      BY <1>1, <1>2, FromVec
    <3> QED
      BY <3>1 DEF from_vec
  <2> HIDE DEF a, m, bl2, r, me, old, s
  <2>6. Fitted(m, a) /\ Shown(m, a, s)
    <3>1. me.len <= old.cap /\ 0 + old.cap = old.cap /\ old.cap <= old.cap
      BY <1>2, SMTT(30)
    <3>2. ASSUME NEW i \in 1 .. me.len PROVE 0 + i = i
      BY <1>2, SMTT(30)
    <3>3. Fitted(m, a)
      BY <2>4, <2>5, <3>1 DEF Fitted, IsVec
    <3>4. Shown(m, a, s)
      <4>1. Len(s) = me.len
        BY <1>1 DEF Shown
      <4>2. m.len = me.len /\ m.off = 0
        BY <2>5 DEF IsVec
      <4>3. ASSUME NEW i \in 1 .. me.len PROVE s[i] = a.mem[0 + i]
        BY <2>2, <2>4, <3>2
      <4> QED
        BY <4>1, <4>2, <4>3 DEF Shown
    <3> QED
      BY <3>3, <3>4
  <2>7. Others(hs, h, me.b) = {} /\ m.b = me.b
    BY <1>3, <2>5, OnlyHandle DEF me, IsVec
  <2>8. Consistent([hs EXCEPT ![h] = m], [bl EXCEPT ![m.b] = a], [tx EXCEPT ![h] = s])
    BY <1>1, <2>4, <2>5, <2>6, <2>7, Alone DEF me
  <2>9. r.bl = bl2 /\ r.me = m
    BY <2>1, SMTT(30) DEF Both
  <2> QED
    BY <2>3, <2>7, <2>8, <2>9 DEF Leads, r, s, me
<1>4. CASE ~is_unique(bl, me)
  <2> DEFINE m == [from_vec(Fresh, me.len, me.len) EXCEPT !.mode = "frozen"]
             bl2 == release_shared(Allocate(bl, Fresh, Window(bl, me), me.len), me.b)
  <2>1. r = Both(bl2, m) /\ me.kind = "arc"
    BY <1>2, <1>4 DEF to_vec, is_unique
  <2>2. m \in Place /\ IsVec(m, Fresh, me.len, me.len) /\ me.len <= me.len
    <3>1. m \in Place /\ IsVec(m, Fresh, me.len, me.len)
      BY <1>2, FromVec
    <3>2. me.len <= me.len
      BY <1>2, SMTT(30)
    <3> QED
      BY <3>1, <3>2
  <2> HIDE DEF m
  <2>3. Consistent([hs EXCEPT ![h] = m], bl2, [tx EXCEPT ![h] = tx[h]])
    BY <1>2, <2>1, <2>2, CopiesOut
  <2> HIDE DEF bl2, r
  <2>4. r.bl = bl2 /\ r.me = m
    BY <2>1, SMTT(30) DEF Both
  <2> QED
    BY <2>3, <2>4 DEF Leads, r
<1> QED
  BY <1>3, <1>4

(* put of a Bytes.                                                         *)
LEMMA Puts ==
    ASSUME SizeLaws, NEW hs, NEW bl, NEW tx, Consistent(hs, bl, tx), NEW h \in Handles, NEW o \in Handles,
           h # o, hs[h] # NoHandle, hs[o] # NoHandle, hs[h].mode = "mut",
           Fresh \in Blocks, On(hs, Fresh) = {}
    PROVE  Merges(hs, put(bl, hs[h], hs[o]).bl, tx, h, o, put(bl, hs[h], hs[o]).me)
<1> DEFINE r == put(bl, hs[h], hs[o])
           e == extend_from_slice(bl, hs[h], Window(bl, hs[o]))
           v == to_mut(bl, hs[o])
<1>1. CASE hs[o].len = 0
  <2>1. r = Both(drop(bl, hs[o]), hs[h])
    BY <1>1 DEF put
  <2>2. r.bl = drop(bl, hs[o]) /\ r.me = hs[h]
    BY <2>1, SMTT(30) DEF Both
  <2> HIDE DEF r
  <2> QED
    BY <1>1, <2>2, Absorbs DEF r
<1>2. CASE hs[o].len # 0 /\ hs[h].cap = 0 /\ is_unique(bl, hs[o])
  <2>1. r = Both(drop(v.bl, hs[h]), v.me)
    BY <1>2 DEF put
  <2>2. r.bl = drop(v.bl, hs[h]) /\ r.me = v.me
    BY <2>1, SMTT(30) DEF Both
  <2>3. Leads(hs, tx, o, v, tx[o]) /\ v.me \in Place
    BY ToMut
  <2> HIDE DEF r, v
  <2> DEFINE hs1 == [hs EXCEPT ![o] = v.me]
             tx1 == [tx EXCEPT ![o] = tx[o]]
  <2>4. Consistent(hs1, v.bl, tx1)
    BY <2>3 DEF Leads
  <2>5. hs1[h] = hs[h] /\ hs1[o] = v.me /\ v.me # NoHandle /\ tx1 = tx
    BY <2>3, Constants DEF Consistent
  <2>6. hs[h].len = 0
    <3>1. hs[h].len \in Nat /\ hs[h].len <= hs[h].cap
      BY HandleFacts DEF Place, Fitted
    <3> QED
      BY <1>2, <3>1, SMTT(30)
  <2>7. [hs1 EXCEPT ![h] = hs1[o], ![o] = NoHandle] = [hs EXCEPT ![h] = v.me, ![o] = NoHandle]
    BY <2>5 DEF Consistent
  <2> HIDE DEF hs1, tx1
  <2>8. Merges(hs1, drop(v.bl, hs1[h]), tx1, h, o, hs1[o])
    BY <2>4, <2>5, <2>6, Supplants
  <2>9. Merges(hs, drop(v.bl, hs[h]), tx, h, o, v.me)
    BY <2>5, <2>7, <2>8 DEF Merges
  <2> QED
    BY <2>2, <2>9 DEF r
<1>3. CASE hs[o].len # 0 /\ ~(hs[h].cap = 0 /\ is_unique(bl, hs[o]))
  <2>1. r = Both(drop(e.bl, hs[o]), e.me)
    BY <1>3 DEF put
  <2>2. r.bl = drop(e.bl, hs[o]) /\ r.me = e.me
    BY <2>1, SMTT(30) DEF Both
  <2>3. Merges(hs, drop(e.bl, hs[o]), tx, h, o, e.me)
    BY Appends
  <2> HIDE DEF r, e
  <2> QED
    BY <2>2, <2>3 DEF r
<1> QED
  BY <1>1, <1>2, <1>3

-----------------------------------------------------------------------------
(* The remaining operations on one handle.                                 *)

(* A window is a part of itself, and shows all of its text.                *)
LEMMA WholePart ==
    ASSUME NEW me \in Place, NEW a \in Allocation, NEW s, Fitted(me, a), Shown(me, a, s),
           NEW f \in Place, f.b = me.b, f.kind = me.kind, f.mode = me.mode \/ f.mode = "frozen",
           f.off = me.off, f.pos = me.pos, f.len = me.len, f.len <= f.cap, f.cap <= me.cap,
           f.kind = "vec" => f.cap = me.cap
    PROVE  Part(f, me) /\ Excerpt(s, f, me, s)
<1>1. /\ me.off \in Nat /\ me.len \in Nat /\ me.cap \in Nat /\ f.cap \in Nat /\ Len(s) = me.len
      /\ me.mode \in {"mut", "frozen"} /\ (me.kind = "vec" /\ me.mode = "mut" => me.pos = me.off)
  BY DEF Place, Fitted, Shown
<1>2. me.off <= me.off /\ me.off + f.cap <= me.off + me.cap /\ me.off + me.len <= me.off + me.len
  BY <1>1, SMTT(30)
<1>3. Part(f, me)
  BY <1>1, <1>2 DEF Part
<1>4. ASSUME NEW i \in 1 .. me.len PROVE me.off - me.off + i = i
  BY <1>1, SMTT(30)
<1>5. Excerpt(s, f, me, s)
  BY <1>1, <1>4 DEF Excerpt
<1> QED
  BY <1>3, <1>5

(* truncate.                                                               *)
LEMMA Truncates ==
    ASSUME NEW hs, NEW bl, NEW tx, Consistent(hs, bl, tx), NEW h \in Handles, hs[h] # NoHandle,
           NEW len \in 0 .. hs[h].len
    PROVE  Consistent([hs EXCEPT ![h] = [hs[h] EXCEPT !.len = len]], bl, [tx EXCEPT ![h] = SubSeq(tx[h], 1, len)])
<1> DEFINE me == hs[h]
           f == [me EXCEPT !.len = len]
           t == SubSeq(tx[h], 1, len)
<1>1. /\ me \in Place /\ bl[me.b] \in Allocation /\ Fitted(me, bl[me.b]) /\ Shown(me, bl[me.b], tx[h])
      /\ tx[h] \in Seq(Nat)
  BY HandleFacts
<1>2. me.len \in Nat /\ me.cap \in Nat /\ me.len <= me.cap
  BY <1>1 DEF Place, Fitted
<1>3. len \in Nat /\ len \in 0 .. me.len /\ len <= me.cap /\ me.cap <= me.cap
  BY <1>2, SMTT(30)
<1> HIDE DEF me
<1>4. /\ f \in Place /\ f.b = me.b /\ f.kind = me.kind /\ f.mode = me.mode /\ f.off = me.off
      /\ f.len = len /\ f.cap = me.cap /\ f.pos = me.pos
  BY <1>1, <1>3 DEF Place
<1> HIDE DEF f
<1>5. Part(f, me) /\ t \in Seq(Nat) /\ Excerpt(t, f, me, tx[h])
  BY <1>1, <1>3, <1>4, BeginFacts
<1> HIDE DEF t
<1>6. Consistent([hs EXCEPT ![h] = f], bl, [tx EXCEPT ![h] = t])
  BY <1>4, <1>5, Narrows DEF me
<1> QED
  BY <1>6 DEF f, t, me

(* freeze: the window of an Arc ends with its text.                        *)
LEMMA Freezes ==
    ASSUME NEW hs, NEW bl, NEW tx, Consistent(hs, bl, tx), NEW h \in Handles, hs[h] # NoHandle
    PROVE  Consistent([hs EXCEPT ![h] = [hs[h] EXCEPT !.mode = "frozen",
                                                      !.cap = IF hs[h].kind = "arc" THEN hs[h].len ELSE @]],
                      bl, [tx EXCEPT ![h] = tx[h]])
<1> DEFINE me == hs[h]
           cap == IF me.kind = "arc" THEN me.len ELSE me.cap
           f == [me EXCEPT !.mode = "frozen", !.cap = cap]
<1>1. /\ me \in Place /\ bl[me.b] \in Allocation /\ Fitted(me, bl[me.b]) /\ Shown(me, bl[me.b], tx[h])
      /\ tx[h] \in Seq(Nat)
  BY HandleFacts
<1>2. me.len \in Nat /\ me.cap \in Nat /\ me.len <= me.cap /\ me.kind \in {"vec", "arc"}
  BY <1>1 DEF Place, Fitted
<1>3. cap \in Nat /\ me.len <= cap /\ cap <= me.cap /\ (me.kind = "vec" => cap = me.cap)
  <2>1. me.len <= me.len /\ me.cap <= me.cap /\ "vec" # "arc"
    BY <1>2, SMTT(30)
  <2> QED
    BY <1>2, <2>1
<1>4. [hs[h] EXCEPT !.mode = "frozen", !.cap = IF hs[h].kind = "arc" THEN hs[h].len ELSE @] = f
  OBVIOUS
<1> HIDE DEF me, cap
<1>5. /\ f \in Place /\ f.b = me.b /\ f.kind = me.kind /\ f.mode = "frozen" /\ f.off = me.off
      /\ f.len = me.len /\ f.cap = cap /\ f.pos = me.pos
  BY <1>1, <1>3 DEF Place
<1> HIDE DEF f
<1>6. Part(f, me) /\ Excerpt(tx[h], f, me, tx[h])
  BY <1>1, <1>3, <1>5, WholePart
<1>7. Consistent([hs EXCEPT ![h] = f], bl, [tx EXCEPT ![h] = tx[h]])
  BY <1>1, <1>5, <1>6, Narrows DEF me
<1> QED
  BY <1>4, <1>7

(* A write through DerefMut: byte i of the window becomes w.               *)
LEMMA Overwrites ==
    ASSUME NEW hs, NEW bl, NEW tx, Consistent(hs, bl, tx), NEW h \in Handles, hs[h] # NoHandle,
           hs[h].mode = "mut", NEW i \in 1 .. hs[h].len, NEW w \in Nat
    PROVE  Consistent([hs EXCEPT ![h] = hs[h]], [bl EXCEPT ![hs[h].b].mem[hs[h].off + i] = w],
                      [tx EXCEPT ![h] = [tx[h] EXCEPT ![i] = w]])
<1> DEFINE me == hs[h]
           old == bl[me.b]
           at == me.off + i
           mem == [old.mem EXCEPT ![at] = w]
           a == [old EXCEPT !.mem = mem]
           s == tx[h]
           u == [s EXCEPT ![i] = w]
<1>1. /\ me \in Place /\ me.b \in Blocks /\ old \in Allocation /\ Fitted(me, old) /\ Shown(me, old, s)
      /\ s \in Seq(Nat) /\ bl \in [Blocks -> Allocation]
  BY HandleFacts DEF Consistent
<1>2. /\ me.off \in Nat /\ me.len \in Nat /\ me.cap \in Nat /\ old.cap \in Nat
      /\ me.off + me.cap <= old.cap /\ me.len <= me.cap /\ Len(s) = me.len
      /\ old.mem \in Seq(Nat) /\ Len(old.mem) = old.cap
  BY <1>1 DEF Place, Allocation, Fitted, Shown
<1>3. [bl EXCEPT ![me.b].mem[me.off + i] = w] = [bl EXCEPT ![me.b] = a]
  BY <1>1
<1> HIDE DEF me, old, s
<1>4. at \in 1 .. Len(old.mem) /\ me.off < at /\ at <= me.off + me.cap /\ i \in 1 .. Len(s)
  <2>1. i \in Nat /\ 1 <= i /\ i <= me.len
    BY <1>2, SMTT(30) DEF me
  <2>2. /\ me.off \in Nat /\ me.len \in Nat /\ me.cap \in Nat /\ old.cap \in Nat
        /\ me.off + me.cap <= old.cap /\ me.len <= me.cap
    BY <1>2
  <2>3. at \in 1 .. old.cap /\ me.off < at /\ at <= me.off + me.cap /\ i \in 1 .. me.len
    BY <2>1, <2>2, SMTT(30)
  <2> QED
    BY <1>2, <2>3
<1>5. mem \in Seq(Nat) /\ Len(mem) = Len(old.mem) /\ mem[at] = w
      /\ \A j \in 1 .. Len(old.mem) : j # at => mem[j] = old.mem[j]
  <2> HIDE DEF at
  <2> QED
    BY <1>2, <1>4, SMTT(30)
<1>6. u \in Seq(Nat) /\ Len(u) = Len(s) /\ u[i] = w /\ \A j \in 1 .. Len(s) : j # i => u[j] = s[j]
  BY <1>1, <1>4, SMTT(30)
<1> HIDE DEF mem, u, at
<1>7. a \in Allocation /\ a.mem = mem /\ a.cap = old.cap /\ a.ref_count = old.ref_count
  <2> DEFINE c == [old EXCEPT !.cap = Len(mem), !.mem = mem]
  <2>1. /\ c \in Allocation /\ c.ref_count = old.ref_count /\ c.cap = Len(mem) /\ c.mem = mem
        /\ Len(mem) = old.cap => a = c
    BY <1>1, <1>5, OtherMemory
  <2> HIDE DEF a, c
  <2> QED
    BY <1>2, <1>5, <2>1
<1> HIDE DEF a
<1>8. Writes(me, old, a)
  <2>1. ASSUME NEW j \in 1 .. old.cap
        PROVE  \/ a.mem[j] = old.mem[j]
               \/ me.mode = "mut" /\ me.off < j /\ j <= me.off + me.cap
    BY <1>2, <1>4, <1>5, <1>7 DEF me
  <2> QED
    BY <1>7, <2>1 DEF Writes
<1>9. Inside(me, me)
  <2>1. Extent(me) \in Nat
    BY <1>2 DEF Extent
  <2>2. me.off <= me.off /\ me.off + Extent(me) <= me.off + Extent(me)
    BY <1>2, <2>1, SMTT(30)
  <2> QED
    BY <2>2 DEF Inside
<1>10. Fitted(me, a)
  BY <1>1, <1>7 DEF Fitted
<1>11. Shown(me, a, u)
  <2>1. ASSUME NEW j \in 1 .. me.len PROVE u[j] = a.mem[me.off + j]
    <3>1. me.off + j \in 1 .. Len(old.mem) /\ s[j] = old.mem[me.off + j] /\ j \in 1 .. Len(s)
      <4>1. me.off + j \in 1 .. old.cap
        <5>1. /\ me.off \in Nat /\ me.len \in Nat /\ me.cap \in Nat /\ old.cap \in Nat
              /\ me.off + me.cap <= old.cap /\ me.len <= me.cap
          BY <1>2
        <5> QED
          BY <5>1, SMTT(30)
      <4> QED
        BY <1>1, <1>2, <4>1 DEF Shown
    <3>2. CASE j = i
      BY <1>5, <1>6, <1>7, <3>2 DEF at
    <3>3. CASE j # i
      <4>1. me.off + j # at
        BY <1>2, <3>3, SMTT(30) DEF at
      <4> QED
        BY <1>5, <1>6, <1>7, <3>1, <3>3, <4>1
    <3> QED
      BY <3>2, <3>3
  <2> QED
    BY <1>2, <1>6, <2>1 DEF Shown
<1>12. Consistent([hs EXCEPT ![h] = me], [bl EXCEPT ![me.b] = a], [tx EXCEPT ![h] = u])
  BY <1>1, <1>6, <1>8, <1>9, <1>10, <1>11, Restates DEF me, old
<1> QED
  BY <1>3, <1>12 DEF me, u, s

-----------------------------------------------------------------------------
(* The calls.                                                              *)

(* Forgetting what no handle shows keeps a layout consistent.              *)
LEMMA Forgets ==
    ASSUME NEW bl, Consistent(handles', bl, text')
    PROVE  Consistent(handles', Unread(bl), text')
<1> DEFINE hs == handles'
           tx == text'
           mem(b) == [i \in 1 .. Len(bl[b].mem) |-> IF Readable(b, i) THEN bl[b].mem[i] ELSE Uninit]
           a(b) == [bl[b] EXCEPT !.mem = mem(b)]
           bl2 == Unread(bl)
<1>1. Consistent(hs, bl, tx)
  OBVIOUS
<1>2. bl2 = [b \in Blocks |-> a(b)]
  BY DEF Unread
<1> HIDE DEF bl2
<1>3. ASSUME NEW b \in Blocks
      PROVE  /\ a(b) \in Allocation /\ a(b).cap = bl[b].cap /\ a(b).ref_count = bl[b].ref_count
             /\ a(b).mem = mem(b) /\ Len(mem(b)) = Len(bl[b].mem)
             /\ bl[b] = Free => a(b) = Free
  <2> DEFINE old == bl[b]
             m == mem(b)
  <2>1. old \in Allocation
    BY <1>1 DEF Consistent
  <2>2. old.mem \in Seq(Nat) /\ Len(old.mem) = old.cap
    BY <2>1 DEF Allocation
  <2> HIDE DEF hs, tx
  <2>3. m \in Seq(Nat) /\ Len(m) = Len(old.mem)
    <3> DEFINE n == Len(old.mem)
    <3>1. n \in Nat /\ \A i \in 1 .. n : old.mem[i] \in Nat
      BY <2>2, SMTT(30)
    <3>2. Uninit \in Nat
      BY SMTT(30) DEF Uninit
    <3>3. \A i \in 1 .. n : (IF Readable(b, i) THEN old.mem[i] ELSE Uninit) \in Nat
      BY <3>1, <3>2
    <3>4. m \in [1 .. n -> Nat]
      <4> HIDE DEF n
      <4>1. m = [i \in 1 .. n |-> IF Readable(b, i) THEN old.mem[i] ELSE Uninit]
        BY DEF n
      <4> QED
        BY <3>3, <4>1
    <3> HIDE DEF m, n
    <3>5. m \in Seq(Nat) /\ Len(m) = n
      BY <3>1, <3>4, SMTT(30)
    <3> QED
      BY <3>5 DEF n
  <2> HIDE DEF old, m
  <2>4. LET c == [old EXCEPT !.cap = Len(m), !.mem = m]
            d == [old EXCEPT !.mem = m]
        IN  /\ c \in Allocation /\ c.cap = Len(m) /\ c.mem = m
            /\ c.ref_count = old.ref_count /\ c.orig = old.orig
            /\ Len(m) = old.cap => d = c
    BY <2>1, <2>3, OtherMemory
  <2>5. LET d == [old EXCEPT !.mem = m]
        IN  d \in Allocation /\ d.cap = old.cap /\ d.ref_count = old.ref_count /\ d.mem = m
    BY <2>2, <2>3, <2>4
  <2>6. ASSUME old = Free PROVE [old EXCEPT !.mem = m] = Free
    <3>1. Len(old.mem) = 0 /\ <<>> \in Seq(Nat) /\ Len(<<>>) = 0 /\ Free.mem = <<>>
      BY <2>6, SMTT(30) DEF Free
    <3>2. \A i \in 1 .. Len(<<>>) : m[i] = <<>>[i]
      BY <3>1, SMTT(30)
    <3>3. m = <<>>
      BY <2>3, <3>1, <3>2, SameText
    <3>4. [Free EXCEPT !.mem = <<>>] = Free
      BY SMTT(30) DEF Free
    <3> QED
      BY <2>6, <3>3, <3>4
  <2> QED
    BY <2>3, <2>5, <2>6 DEF old, m
<1>4. bl2 \in [Blocks -> Allocation] /\ \A b \in Blocks : bl2[b] = a(b)
  BY <1>2, <1>3
<1> HIDE DEF a
<1>5. ASSUME NEW h \in Handles, hs[h] # NoHandle
      PROVE  Fitted(hs[h], bl2[hs[h].b]) /\ Shown(hs[h], bl2[hs[h].b], tx[h])
  <2> DEFINE me == hs[h]
  <2>1. /\ me \in Place /\ me.b \in Blocks /\ bl[me.b] \in Allocation
        /\ Fitted(me, bl[me.b]) /\ Shown(me, bl[me.b], tx[h])
    BY <1>1, <1>5, HandleFacts
  <2>2. /\ bl2[me.b].cap = bl[me.b].cap /\ bl2[me.b].ref_count = bl[me.b].ref_count
        /\ bl2[me.b].mem = mem(me.b)
    BY <1>3, <1>4, <2>1
  <2>3. Fitted(me, bl2[me.b])
    BY <2>1, <2>2 DEF Fitted
  <2>4. ASSUME NEW i \in 1 .. me.len PROVE bl2[me.b].mem[me.off + i] = bl[me.b].mem[me.off + i]
    <3>1. me.off \in Nat /\ me.len \in Nat /\ me.cap \in Nat /\ bl[me.b].cap \in Nat
      BY <2>1 DEF Place, Allocation
    <3>2. me.off + me.cap <= bl[me.b].cap /\ me.len <= me.cap /\ Len(bl[me.b].mem) = bl[me.b].cap
      BY <2>1 DEF Fitted, Allocation
    <3>3. me.off + i \in 1 .. Len(bl[me.b].mem) /\ me.off + i \in (me.off + 1) .. (me.off + me.len)
      BY <3>1, <3>2, InWindow
    <3>4. Readable(me.b, me.off + i)
      BY <1>5, <3>3 DEF Readable
    <3> QED
      BY <2>2, <3>3, <3>4
  <2>5. Shown(me, bl2[me.b], tx[h])
    BY <2>1, <2>4 DEF Shown
  <2> QED
    BY <2>3, <2>5
<1>6. ASSUME NEW b \in Blocks PROVE Counted(On(hs, b), bl2[b])
  <2>1. Counted(On(hs, b), bl[b])
    BY <1>1 DEF Consistent
  <2>2. bl2[b].ref_count = bl[b].ref_count /\ (bl[b] = Free => bl2[b] = Free)
    BY <1>3, <1>4
  <2> QED
    BY <2>1, <2>2 DEF Counted
<1> HIDE DEF hs, tx
<1>7. Consistent(hs, bl2, tx)
  BY <1>1, <1>4, <1>5, <1>6 DEF Consistent
<1> QED
  BY <1>7 DEF hs, tx, bl2

(* A call on one handle.                                                   *)
LEMMA OneHandle ==
    ASSUME NEW h, NEW r, NEW s, Becomes(h, r, s), Leads(handles, text, h, r, s)
    PROVE  Consistent(handles', blocks', text')
<1>1. /\ handles' = [handles EXCEPT ![h] = r.me] /\ blocks' = Unread(r.bl)
      /\ text' = [text EXCEPT ![h] = s]
  BY DEF Becomes
<1>2. Consistent(handles', r.bl, text')
  BY <1>1 DEF Leads
<1>3. Consistent(handles', Unread(r.bl), text')
  BY <1>2, Forgets
<1> QED
  BY <1>1, <1>3

(* A call on two handles.                                                  *)
LEMMA TwoHandles ==
    ASSUME NEW h, NEW r, NEW s, NEW o, NEW other, NEW s2, Become(h, r, s, o, other, s2),
           Consistent([handles EXCEPT ![h] = r.me, ![o] = other], r.bl, [text EXCEPT ![h] = s, ![o] = s2])
    PROVE  Consistent(handles', blocks', text')
<1>1. /\ handles' = [handles EXCEPT ![h] = r.me, ![o] = other] /\ blocks' = Unread(r.bl)
      /\ text' = [text EXCEPT ![h] = s, ![o] = s2]
  BY DEF Become
<1>2. Consistent(handles', r.bl, text')
  BY <1>1
<1>3. Consistent(handles', Unread(r.bl), text')
  BY <1>2, Forgets
<1> QED
  BY <1>1, <1>3

(* The allocation a call makes has no handles yet, and the number of a new *)
(* handle is not in use.                                                   *)
LEMMA FreshFacts ==
    ASSUME SizeLaws, IInv
    PROVE  /\ CanAllocate => Fresh \in Blocks /\ On(handles, Fresh) = {}
           /\ Spare # {} => Min(Spare) \in Handles /\ handles[Min(Spare)] = NoHandle
<1>1. ASSUME CanAllocate PROVE Fresh \in Blocks /\ On(handles, Fresh) = {}
  <2> DEFINE S == Blocks \ Used
  <2>1. S \in SUBSET Nat /\ S # {}
    BY <1>1, NumbersAssumption DEF CanAllocate
  <2> HIDE DEF S
  <2>2. Min(S) \in S
    BY <2>1 DEF SizeLaws
  <2>3. Fresh \in S
    BY <2>2 DEF Fresh, S
  <2>4. Fresh \in Blocks /\ Fresh \notin Used
    BY <2>3 DEF S
  <2>5. On(handles, Fresh) = {}
    <3> DEFINE f == Fresh
    <3>1. f \notin Used
      BY <2>4
    <3> HIDE DEF f
    <3>2. On(handles, f) = {}
      BY <3>1 DEF On, Used, Kept
    <3> QED
      BY <3>2 DEF f
  <2> QED
    BY <2>4, <2>5
<1>2. ASSUME Spare # {} PROVE Min(Spare) \in Handles /\ handles[Min(Spare)] = NoHandle
  <2>1. Spare \in SUBSET Nat
    BY NumbersAssumption DEF Spare
  <2>2. Min(Spare) \in Spare
    <3> DEFINE S == Spare
    <3>1. S \in SUBSET Nat /\ S # {}
      BY <1>2, <2>1
    <3> HIDE DEF S
    <3>2. Min(S) \in S
      BY <3>1 DEF SizeLaws
    <3> QED
      BY <3>2 DEF S
  <2> QED
    BY <2>2 DEF Spare, Kept
<1> QED
  BY <1>1, <1>2

(* The handles a call may be made on.                                      *)
LEMMA KeptFacts ==
    ASSUME IInv
    PROVE  /\ \A h \in Kept : h \in Handles /\ handles[h] # NoHandle
           /\ \A h \in Mutable : h \in Kept /\ handles[h].mode = "mut"
           /\ \A h \in Frozen : h \in Kept /\ handles[h].mode = "frozen"
<1>1. ASSUME NEW h \in Frozen PROVE h \in Kept /\ handles[h].mode = "frozen"
  <2>1. h \in Kept /\ handles[h].mode # "mut"
    BY DEF Frozen, Mutable
  <2>2. handles[h] \in Place
    BY <2>1 DEF Kept, IInv, Consistent
  <2> QED
    BY <2>1, <2>2 DEF Place
<1> QED
  BY <1>1 DEF Kept, Mutable

(* split_off.                                                              *)
LEMMA SplitOffKeeps ==
    ASSUME SizeLaws, IInv, NEW h \in Mutable, SplitOff(h)
    PROVE  Consistent(handles', blocks', text')
<1> DEFINE r == shallow_clone(blocks, handles[h])
           o == Min(Spare)
           n(at) == Smaller(at, r.me.len)
<1>1. PICK at \in 0 .. handles[h].cap :
         Become(h, Both(r.bl, [r.me EXCEPT !.cap = at, !.len = n(at)]), SubSeq(text[h], 1, n(at)),
                o, Forward(r.me, at), SubSeq(text[h], n(at) + 1, Len(text[h])))
  BY DEF SplitOff
<1>2. h \in Handles /\ handles[h] # NoHandle /\ handles[h].mode = "mut"
  BY KeptFacts
<1>3. o \in Handles /\ handles[o] = NoHandle
  BY FreshFacts DEF SplitOff
<1>4. PICK bl1 : Cloned(handles, blocks, text, h, r, bl1)
  BY <1>2, Clones DEF IInv
<1> HIDE DEF r, o
<1>5. h # o /\ r.me.mode = "mut" /\ at \in 0 .. r.me.cap
  BY <1>2, <1>3, <1>4 DEF Cloned
<1>6. Consistent([handles EXCEPT ![h] = [r.me EXCEPT !.cap = at, !.len = n(at)], ![o] = Forward(r.me, at)], r.bl,
                 [text EXCEPT ![h] = SubSeq(text[h], 1, n(at)), ![o] = SubSeq(text[h], n(at) + 1, Len(text[h]))])
  BY <1>2, <1>3, <1>4, <1>5, SplitsOff
<1> DEFINE f == [r.me EXCEPT !.cap = at, !.len = n(at)]
           q == Both(r.bl, f)
<1>7. q.bl = r.bl /\ q.me = f
  <2> HIDE DEF f
  <2> QED
    BY SMTT(30) DEF Both
<1> HIDE DEF q, f, n
<1>8. Become(h, q, SubSeq(text[h], 1, n(at)), o, Forward(r.me, at), SubSeq(text[h], n(at) + 1, Len(text[h])))
  BY <1>1 DEF q, f
<1>9. Consistent([handles EXCEPT ![h] = q.me, ![o] = Forward(r.me, at)], q.bl,
                 [text EXCEPT ![h] = SubSeq(text[h], 1, n(at)), ![o] = SubSeq(text[h], n(at) + 1, Len(text[h]))])
  BY <1>6, <1>7 DEF f
<1> QED
  BY <1>8, <1>9, TwoHandles

(* split_to.                                                               *)
LEMMA SplitToKeeps ==
    ASSUME SizeLaws, IInv, NEW h \in Mutable, SplitTo(h)
    PROVE  Consistent(handles', blocks', text')
<1> DEFINE r == shallow_clone(blocks, handles[h])
           o == Min(Spare)
<1>1. PICK at \in 0 .. handles[h].len :
         Become(h, Both(r.bl, Forward(r.me, at)), SubSeq(text[h], at + 1, Len(text[h])),
                o, [r.me EXCEPT !.cap = at, !.len = at], SubSeq(text[h], 1, at))
  BY DEF SplitTo
<1>2. h \in Handles /\ handles[h] # NoHandle /\ handles[h].mode = "mut"
  BY KeptFacts
<1>3. o \in Handles /\ handles[o] = NoHandle
  BY FreshFacts DEF SplitTo
<1>4. PICK bl1 : Cloned(handles, blocks, text, h, r, bl1)
  BY <1>2, Clones DEF IInv
<1> HIDE DEF r, o
<1>5. h # o /\ r.me.mode = "mut" /\ at \in 0 .. r.me.len
  BY <1>2, <1>3, <1>4 DEF Cloned
<1>6. Consistent([handles EXCEPT ![h] = Forward(r.me, at), ![o] = [r.me EXCEPT !.cap = at, !.len = at]], r.bl,
                 [text EXCEPT ![h] = SubSeq(text[h], at + 1, Len(text[h])), ![o] = SubSeq(text[h], 1, at)])
  BY <1>2, <1>3, <1>4, <1>5, SplitsTo
<1> DEFINE f == Forward(r.me, at)
           g == [r.me EXCEPT !.cap = at, !.len = at]
           q == Both(r.bl, f)
<1>7. q.bl = r.bl /\ q.me = f
  <2> HIDE DEF f
  <2> QED
    BY SMTT(30) DEF Both
<1> HIDE DEF q, f, g
<1>8. Become(h, q, SubSeq(text[h], at + 1, Len(text[h])), o, g, SubSeq(text[h], 1, at))
  BY <1>1 DEF q, f, g
<1>9. Consistent([handles EXCEPT ![h] = q.me, ![o] = g], q.bl,
                 [text EXCEPT ![h] = SubSeq(text[h], at + 1, Len(text[h])), ![o] = SubSeq(text[h], 1, at)])
  BY <1>6, <1>7 DEF f, g
<1> QED
  BY <1>8, <1>9, TwoHandles

(* A call whose parts are the allocations bl and the handle me.            *)
LEMMA BothLeads ==
    ASSUME NEW h, NEW bl, NEW me, NEW s, Becomes(h, Both(bl, me), s),
           Consistent([handles EXCEPT ![h] = me], bl, [text EXCEPT ![h] = s])
    PROVE  Consistent(handles', blocks', text')
<1> DEFINE r == Both(bl, me)
<1>1. r.bl = bl /\ r.me = me
  BY SMTT(30) DEF Both
<1> HIDE DEF r
<1>2. Becomes(h, r, s)
  BY DEF r
<1>3. Leads(handles, text, h, r, s)
  BY <1>1 DEF Leads
<1> QED
  BY <1>2, <1>3, OneHandle

(* truncate, freeze, drop, a write through DerefMut, and Bytes::advance.   *)
LEMMA PlainCallsKeep ==
    ASSUME SizeLaws, IInv, NEW h \in Kept,
           Truncate(h) \/ Freeze(h) \/ Drop(h) \/ (h \in Mutable /\ Overwrite(h))
           \/ (h \in Frozen /\ AdvanceFrozen(h))
    PROVE  Consistent(handles', blocks', text')
<1>1. h \in Handles /\ handles[h] # NoHandle /\ Consistent(handles, blocks, text) /\ written \in Nat
  BY KeptFacts DEF IInv
<1>2. CASE Truncate(h)
  <2>1. PICK len \in 0 .. handles[h].len :
           Becomes(h, Both(blocks, [handles[h] EXCEPT !.len = len]), SubSeq(text[h], 1, len))
    BY <1>2 DEF Truncate
  <2>2. Consistent([handles EXCEPT ![h] = [handles[h] EXCEPT !.len = len]], blocks,
                   [text EXCEPT ![h] = SubSeq(text[h], 1, len)])
    BY <1>1, Truncates
  <2> DEFINE f == [handles[h] EXCEPT !.len = len]
  <2> HIDE DEF f
  <2>3. Becomes(h, Both(blocks, f), SubSeq(text[h], 1, len))
    BY <2>1 DEF f
  <2>4. Consistent([handles EXCEPT ![h] = f], blocks, [text EXCEPT ![h] = SubSeq(text[h], 1, len)])
    BY <2>2 DEF f
  <2> QED
    BY <2>3, <2>4, BothLeads
<1>3. CASE Freeze(h)
  <2> DEFINE f == [handles[h] EXCEPT !.mode = "frozen",
                                     !.cap = IF handles[h].kind = "arc" THEN handles[h].len ELSE @]
  <2>1. Becomes(h, Both(blocks, f), text[h])
    BY <1>3 DEF Freeze
  <2>2. Consistent([handles EXCEPT ![h] = f], blocks, [text EXCEPT ![h] = text[h]])
    BY <1>1, Freezes
  <2> HIDE DEF f
  <2> QED
    BY <2>1, <2>2, BothLeads
<1>4. CASE Drop(h)
  <2>1. Becomes(h, Both(drop(blocks, handles[h]), NoHandle), <<>>)
    BY <1>4 DEF Drop
  <2>2. <<>> \in Seq(Nat)
    BY SMTT(30)
  <2>3. Consistent([handles EXCEPT ![h] = NoHandle], drop(blocks, handles[h]), [text EXCEPT ![h] = <<>>])
    BY <1>1, <2>2, Drops
  <2> QED
    BY <2>1, <2>3, BothLeads
<1>5. CASE h \in Mutable /\ Overwrite(h)
  <2> DEFINE w == written + 1
  <2>1. PICK i \in 1 .. handles[h].len :
           Becomes(h, Both([blocks EXCEPT ![handles[h].b].mem[handles[h].off + i] = w], handles[h]),
                   [text[h] EXCEPT ![i] = w])
    BY <1>5 DEF Overwrite
  <2>2. w \in Nat /\ handles[h].mode = "mut"
    <3>1. w \in Nat
      BY <1>1, SMTT(30)
    <3> QED
      BY <1>5, <3>1, KeptFacts
  <2> HIDE DEF w
  <2>3. Consistent([handles EXCEPT ![h] = handles[h]],
                   [blocks EXCEPT ![handles[h].b].mem[handles[h].off + i] = w],
                   [text EXCEPT ![h] = [text[h] EXCEPT ![i] = w]])
    BY <1>1, <2>2, Overwrites
  <2> QED
    BY <2>1, <2>3, BothLeads
<1>6. CASE h \in Frozen /\ AdvanceFrozen(h)
  <2>1. PICK count \in 1 .. handles[h].len :
           Becomes(h, Both(blocks, Forward(handles[h], count)), SubSeq(text[h], count + 1, Len(text[h])))
    BY <1>6 DEF AdvanceFrozen
  <2>2. handles[h] \in Place /\ handles[h].mode = "frozen"
    BY <1>1, <1>6, HandleFacts, KeptFacts
  <2>3. handles[h].len \in Nat
    BY <2>2 DEF Place
  <2>4. count \in 0 .. handles[h].len /\ "frozen" # "mut"
    BY <2>3, SMTT(30)
  <2>5. Consistent([handles EXCEPT ![h] = Forward(handles[h], count)], blocks,
                   [text EXCEPT ![h] = SubSeq(text[h], count + 1, Len(text[h]))])
    BY <1>1, <2>2, <2>4, GoesForward
  <2> QED
    BY <2>1, <2>5, BothLeads
<1> QED
  BY <1>2, <1>3, <1>4, <1>5, <1>6

(* advance, reserve, try_reclaim, extend_from_slice, and the conversions.  *)
LEMMA MovingCallsKeep ==
    ASSUME SizeLaws, IInv, NEW h \in Kept,
           \/ Advance(h)
           \/ h \in Mutable /\ (Reserve(h) \/ TryReclaim(h) \/ Extend(h))
           \/ IntoMut(h) \/ IntoVec(h)
    PROVE  Consistent(handles', blocks', text')
<1>1. h \in Handles /\ handles[h] # NoHandle /\ Consistent(handles, blocks, text) /\ written \in Nat
  BY KeptFacts DEF IInv
<1>2. CanAllocate => Fresh \in Blocks /\ On(handles, Fresh) = {}
  BY FreshFacts
<1>3. \A n \in 1 .. MaxBytes : n \in Nat
  BY NumbersAssumption, SMTT(30)
<1>4. h \in Mutable => handles[h].mode = "mut"
  BY KeptFacts
<1>5. CASE Advance(h)
  <2>1. PICK count \in 1 .. handles[h].len :
           Becomes(h, advance_unchecked(blocks, handles[h], count), SubSeq(text[h], count + 1, Len(text[h])))
    BY <1>5 DEF Advance
  <2>2. handles[h] \in Place
    BY <1>1, HandleFacts
  <2>3. handles[h].len \in Nat
    BY <2>2 DEF Place
  <2>4. count \in 0 .. handles[h].len
    BY <2>3, SMTT(30)
  <2>5. Leads(handles, text, h, advance_unchecked(blocks, handles[h], count), SubSeq(text[h], count + 1, Len(text[h])))
    BY <1>1, <2>4, Advances
  <2> QED
    BY <2>1, <2>5, OneHandle
<1>6. CASE h \in Mutable /\ Reserve(h)
  <2>1. PICK additional \in 1 .. MaxBytes : Becomes(h, reserve(blocks, handles[h], additional), text[h])
    BY <1>6 DEF Reserve
  <2>2. Reserved(handles, blocks, text, h, additional, TRUE, reserve(blocks, handles[h], additional))
    BY <1>1, <1>2, <1>3, <1>4, <1>6, Reserves DEF Reserve
  <2>3. Leads(handles, text, h, reserve(blocks, handles[h], additional), text[h])
    BY <2>2 DEF Reserved
  <2> QED
    BY <2>1, <2>3, OneHandle
<1>7. CASE h \in Mutable /\ TryReclaim(h)
  <2>1. PICK additional \in 1 .. MaxBytes : Becomes(h, try_reclaim(blocks, handles[h], additional), text[h])
    BY <1>7 DEF TryReclaim
  <2>2. Reserved(handles, blocks, text, h, additional, FALSE, try_reclaim(blocks, handles[h], additional))
    BY <1>1, <1>3, <1>4, <1>7, Reserves
  <2>3. Leads(handles, text, h, try_reclaim(blocks, handles[h], additional), text[h])
    BY <2>2 DEF Reserved
  <2> QED
    BY <2>1, <2>3, OneHandle
<1>8. CASE h \in Mutable /\ Extend(h)
  <2>1. PICK n \in 1 .. MaxBytes : Becomes(h, extend_from_slice(blocks, handles[h], Bytes(n)), text[h] \o Bytes(n))
    BY <1>8 DEF Extend
  <2>2. Bytes(n) \in Seq(Nat)
    BY <1>1, <1>3, SMTT(30) DEF Bytes
  <2>3. Leads(handles, text, h, extend_from_slice(blocks, handles[h], Bytes(n)), text[h] \o Bytes(n))
    BY <1>1, <1>2, <1>4, <1>8, <2>2, Extends DEF Extend
  <2> QED
    BY <2>1, <2>3, OneHandle
<1>9. CASE IntoMut(h)
  <2>1. Becomes(h, to_mut(blocks, handles[h]), text[h]) /\ CanAllocate
    BY <1>9 DEF IntoMut
  <2>2. Leads(handles, text, h, to_mut(blocks, handles[h]), text[h])
    BY <1>1, <1>2, <2>1, ToMut
  <2> QED
    BY <2>1, <2>2, OneHandle
<1>10. CASE IntoVec(h)
  <2>1. Becomes(h, to_vec(blocks, handles[h]), text[h]) /\ CanAllocate
    BY <1>10 DEF IntoVec
  <2>2. Leads(handles, text, h, to_vec(blocks, handles[h]), text[h])
    BY <1>1, <1>2, <2>1, ToVec
  <2> QED
    BY <2>1, <2>2, OneHandle
<1> QED
  BY <1>5, <1>6, <1>7, <1>8, <1>9, <1>10

(* unsplit, and put of a Bytes.                                            *)
LEMMA MergingCallsKeep ==
    ASSUME SizeLaws, IInv, NEW h \in Mutable, NEW o,
           (o \in Mutable /\ Unsplit(h, o)) \/ (o \in Frozen /\ PutBytes(h, o))
    PROVE  Consistent(handles', blocks', text')
<1>1. h \in Handles /\ handles[h] # NoHandle /\ handles[h].mode = "mut" /\ Consistent(handles, blocks, text)
  BY KeptFacts DEF IInv
<1>2. CanAllocate => Fresh \in Blocks /\ On(handles, Fresh) = {}
  BY FreshFacts
<1>3. CASE o \in Mutable /\ Unsplit(h, o)
  <2> DEFINE r == unsplit(blocks, handles[h], handles[o])
  <2>1. h # o /\ CanAllocate /\ Become(h, r, text[h] \o text[o], o, NoHandle, <<>>)
    BY <1>3 DEF Unsplit
  <2>2. o \in Handles /\ handles[o] # NoHandle /\ handles[o].mode = "mut"
    BY <1>3, KeptFacts
  <2>3. Merges(handles, r.bl, text, h, o, r.me)
    BY <1>1, <1>2, <2>1, <2>2, Unsplits
  <2> HIDE DEF r
  <2>4. Consistent([handles EXCEPT ![h] = r.me, ![o] = NoHandle], r.bl,
                   [text EXCEPT ![h] = text[h] \o text[o], ![o] = <<>>])
    BY <2>3 DEF Merges
  <2> QED
    BY <2>1, <2>4, TwoHandles
<1>4. CASE o \in Frozen /\ PutBytes(h, o)
  <2> DEFINE r == put(blocks, handles[h], handles[o])
  <2>1. CanAllocate /\ Become(h, r, text[h] \o text[o], o, NoHandle, <<>>)
    BY <1>4 DEF PutBytes
  <2>2. o \in Handles /\ handles[o] # NoHandle /\ handles[o].mode = "frozen" /\ "frozen" # "mut"
    <3>1. "frozen" # "mut"
      BY SMTT(30)
    <3> QED
      BY <1>4, <3>1, KeptFacts
  <2>3. h # o
    BY <1>1, <2>2
  <2>4. Merges(handles, r.bl, text, h, o, r.me)
    BY <1>1, <1>2, <2>1, <2>2, <2>3, Puts
  <2> HIDE DEF r
  <2>5. Consistent([handles EXCEPT ![h] = r.me, ![o] = NoHandle], r.bl,
                   [text EXCEPT ![h] = text[h] \o text[o], ![o] = <<>>])
    BY <2>4 DEF Merges
  <2> QED
    BY <2>1, <2>5, TwoHandles
<1> QED
  BY <1>3, <1>4

(* Bytes::clone of a counted allocation.                                   *)
LEMMA CloneFrozenKeeps ==
    ASSUME SizeLaws, IInv, NEW h \in Frozen, CloneFrozen(h)
    PROVE  Consistent(handles', blocks', text')
<1> DEFINE r == shallow_clone(blocks, handles[h])
           o == Min(Spare)
<1>1. handles[h].kind = "arc" /\ Become(h, r, text[h], o, handles[h], text[h])
  BY DEF CloneFrozen
<1>2. h \in Handles /\ handles[h] # NoHandle /\ handles[h].mode = "frozen"
  BY KeptFacts
<1>3. o \in Handles /\ handles[o] = NoHandle
  BY FreshFacts DEF CloneFrozen
<1>4. r.me = handles[h]
  BY <1>1, SMTT(30) DEF shallow_clone, Both
<1>5. PICK bl1 : Cloned(handles, blocks, text, h, r, bl1)
  BY <1>2, Clones DEF IInv
<1> HIDE DEF r, o
<1>6. h # o /\ r.me.mode = "frozen"
  BY <1>2, <1>3, <1>4
<1>7. Consistent([handles EXCEPT ![h] = r.me, ![o] = r.me], r.bl, [text EXCEPT ![h] = text[h], ![o] = text[h]])
  BY <1>2, <1>3, <1>5, <1>6, ClonesFrozen
<1>8. Consistent([handles EXCEPT ![h] = r.me, ![o] = handles[h]], r.bl, [text EXCEPT ![h] = text[h], ![o] = text[h]])
  BY <1>4, <1>7
<1> QED
  BY <1>1, <1>8, TwoHandles

(* Nothing is written, or a number of bytes more.                          *)
LEMMA WrittenIsNumber ==
    ASSUME IInv, Call
    PROVE  written' \in Nat
<1>1. written \in Nat
  BY DEF IInv
<1>2. \/ UNCHANGED written
      \/ \E h : Extend(h) \/ Overwrite(h)
  BY DEF Call, SplitOff, SplitTo, Truncate, Advance, Reserve, TryReclaim, Unsplit, Freeze, PutBytes,
         CloneFrozen, AdvanceFrozen, IntoMut, IntoVec, Drop
<1>3. ASSUME NEW n \in Nat, CanWrite(n) PROVE written' \in Nat
  BY <1>1, <1>3, SMTT(30) DEF CanWrite
<1>4. ASSUME NEW h, Extend(h) \/ Overwrite(h) PROVE \E n \in Nat : CanWrite(n)
  <2>1. \A n \in 1 .. MaxBytes : n \in Nat
    BY NumbersAssumption, SMTT(30)
  <2>2. 1 \in Nat
    BY SMTT(30)
  <2> QED
    BY <1>4, <2>1, <2>2 DEF Extend, Overwrite
<1> QED
  BY <1>1, <1>2, <1>3, <1>4

(* Every call leads from a consistent layout to another.                   *)
LEMMA CallKeeps ==
    ASSUME SizeLaws, IInv, Call
    PROVE  Consistent(handles', blocks', text')
<1>1. \A h \in Mutable : h \in Kept
  BY KeptFacts
<1>2. \A h \in Frozen : h \in Kept
  BY KeptFacts
<1>3. CASE \E h \in Mutable : SplitOff(h) \/ SplitTo(h)
  BY <1>3, SplitOffKeeps, SplitToKeeps
<1>4. CASE \E h \in Mutable : Truncate(h) \/ Overwrite(h) \/ Freeze(h)
  BY <1>1, <1>4, PlainCallsKeep
<1>5. CASE \E h \in Mutable : Advance(h) \/ Reserve(h) \/ TryReclaim(h) \/ Extend(h)
  BY <1>1, <1>5, MovingCallsKeep
<1>6. CASE \E h \in Mutable : (\E o \in Mutable : Unsplit(h, o)) \/ (\E o \in Frozen : PutBytes(h, o))
  BY <1>6, MergingCallsKeep
<1>7. CASE \E h \in Frozen : CloneFrozen(h) \/ AdvanceFrozen(h) \/ IntoMut(h)
  <2>1. PICK h \in Frozen : CloneFrozen(h) \/ AdvanceFrozen(h) \/ IntoMut(h)
    BY <1>7
  <2>2. CASE CloneFrozen(h)
    BY <2>2, CloneFrozenKeeps
  <2>3. CASE AdvanceFrozen(h)
    BY <1>2, <2>3, PlainCallsKeep
  <2>4. CASE IntoMut(h)
    BY <1>2, <2>4, MovingCallsKeep
  <2> QED
    BY <2>1, <2>2, <2>3, <2>4
<1>8. CASE \E h \in Kept : IntoVec(h) \/ Drop(h)
  BY <1>8, PlainCallsKeep, MovingCallsKeep
<1> QED
  BY <1>3, <1>4, <1>5, <1>6, <1>7, <1>8 DEF Call

(* with_capacity, zeroed or a copy of a slice.                             *)
LEMMA InitKeeps ==
    ASSUME SizeLaws, Init
    PROVE  IInv
<1> DEFINE h == Min(Handles)
           b == Min(Blocks)
           hs == [k \in Handles |-> NoHandle]
           bl == [k \in Blocks |-> Free]
           tx == [k \in Handles |-> <<>>]
           s(n) == [i \in 1 .. n |-> i]
           me(n) == from_vec(b, n, InitCap)
           a(n) == [cap |-> InitCap, mem |-> Put(Blank(InitCap), 0, s(n)), ref_count |-> 0, orig |-> 0]
<1>1. PICK n \in 0 .. Smaller(InitCap, MaxBytes) :
         /\ handles = [k \in Handles |-> IF k = h THEN me(n) ELSE NoHandle]
         /\ blocks = [bl EXCEPT ![b] = a(n)]
         /\ text = [k \in Handles |-> IF k = h THEN s(n) ELSE <<>>]
         /\ written = n
  <2>1. PICK n \in 0 .. Smaller(InitCap, MaxBytes) :
           /\ handles = [k \in Handles |-> IF k = h THEN me(n) ELSE NoHandle]
           /\ blocks = Allocate(bl, b, s(n), InitCap)
           /\ text = [k \in Handles |-> IF k = h THEN s(n) ELSE <<>>]
           /\ written = n
    BY DEF Init
  <2>2. blocks = [bl EXCEPT ![b] = a(n)]
    BY <2>1 DEF Allocate
  <2> HIDE DEF h, b, hs, bl, tx, s, me, a
  <2> QED
    BY <2>1, <2>2
<1>2. h \in Handles /\ b \in Blocks
  <2>1. Handles \in SUBSET Nat /\ Handles # {} /\ Blocks \in SUBSET Nat /\ Blocks # {}
    BY NumbersAssumption
  <2> QED
    BY <2>1 DEF SizeLaws
<1>3. n \in Nat /\ n <= InitCap /\ InitCap \in Nat
  BY NumbersAssumption, SMTT(30) DEF Smaller
<1>4. s(n) \in Seq(Nat) /\ Len(s(n)) = n
  BY <1>3, SMTT(30)
<1> HIDE DEF h, b, s
<1>5. /\ Put(Blank(InitCap), 0, s(n)) \in Seq(Nat) /\ Len(Put(Blank(InitCap), 0, s(n))) = InitCap
      /\ \A i \in 1 .. Len(s(n)) : Put(Blank(InitCap), 0, s(n))[i] = s(n)[i]
  BY <1>3, <1>4, FilledFacts
<1>6. me(n) \in Place /\ IsVec(me(n), b, n, InitCap) /\ me(n).mode = "mut"
  BY <1>2, <1>3, FromVec
<1>7. a(n) \in Allocation /\ a(n).ref_count = 0 /\ a(n).cap = InitCap /\ a(n).mem = Put(Blank(InitCap), 0, s(n))
  <2> DEFINE m == Put(Blank(InitCap), 0, s(n))
  <2>1. 0 \in Reprs
    BY WidthAssumption, SMTT(30) DEF Reprs
  <2> HIDE DEF m, Reprs
  <2>2. LET c == [cap |-> InitCap, mem |-> m, ref_count |-> 0, orig |-> 0]
        IN  c \in Allocation /\ c.ref_count = 0 /\ c.cap = InitCap /\ c.mem = m
    <3>1. m \in Seq(Nat) /\ Len(m) = InitCap
      BY <1>5 DEF m
    <3> QED
      BY <1>3, <2>1, <3>1, SMTT(30) DEF Allocation
  <2> QED
    BY <2>2 DEF m
<1> HIDE DEF me, a
<1>8. Consistent(hs, bl, tx)
  <2>1. Free \in Allocation /\ <<>> \in Seq(Nat) /\ Free.ref_count = 0
    <3>1. <<>> \in Seq(Nat) /\ Free.ref_count = 0
      BY SMTT(30) DEF Free
    <3> QED
      BY <3>1, Constants
  <2>2. \A k \in Blocks : On(hs, k) = {}
    BY DEF On
  <2>3. \A k \in Blocks : Counted(On(hs, k), bl[k])
    BY <2>1, <2>2 DEF Counted
  <2> QED
    BY <2>1, <2>2, <2>3 DEF Consistent
<1>9. Others(hs, h, me(n).b) = {} /\ hs[h] = NoHandle
  BY <1>2 DEF Others, On
<1>10. me(n).b = b /\ me(n).off = 0 /\ me(n).len = n /\ me(n).cap = InitCap /\ me(n).kind = "vec" /\ me(n).pos = 0
  BY <1>6 DEF IsVec
<1>11. Fitted(me(n), a(n))
  <2>1. 0 + InitCap = InitCap /\ InitCap <= InitCap /\ "vec" # "arc"
    BY <1>3, SMTT(30)
  <2> QED
    BY <1>3, <1>7, <1>10, <2>1 DEF Fitted
<1>12. Shown(me(n), a(n), s(n))
  <2>1. \A i \in 1 .. n : 0 + i = i
    BY <1>3, SMTT(30)
  <2>2. ASSUME NEW i \in 1 .. n PROVE s(n)[i] = a(n).mem[me(n).off + i]
    <3>1. me(n).off + i = i
      BY <1>10, <2>1
    <3>2. Put(Blank(InitCap), 0, s(n))[i] = s(n)[i]
      BY <1>4, <1>5
    <3> QED
      BY <1>7, <3>1, <3>2
  <2> QED
    BY <1>4, <1>10, <2>2 DEF Shown
<1>13. Consistent([hs EXCEPT ![h] = me(n)], [bl EXCEPT ![me(n).b] = a(n)], [tx EXCEPT ![h] = s(n)])
  <2> HIDE DEF hs, bl, tx
  <2>1. a(n).ref_count \in {0, 1}
    BY <1>7
  <2> QED
    BY <1>2, <1>4, <1>6, <1>7, <1>8, <1>9, <1>11, <1>12, <2>1, Alone
<1>14. handles = [hs EXCEPT ![h] = me(n)] /\ text = [tx EXCEPT ![h] = s(n)]
  BY <1>1
<1>15. Consistent(handles, blocks, text)
  BY <1>1, <1>10, <1>13, <1>14
<1> QED
  BY <1>1, <1>3, <1>15 DEF IInv

-----------------------------------------------------------------------------
(* What the invariant says.                                                *)

(* The holder of a handle finds what it put there.                         *)
LEMMA ShowsText == IInv => TextIsKept
<1> SUFFICES ASSUME IInv, NEW h \in Kept PROVE Window(blocks, handles[h]) = text[h]
  BY DEF TextIsKept
<1>1. h \in Handles /\ handles[h] # NoHandle /\ Consistent(handles, blocks, text)
  BY KeptFacts DEF IInv
<1>2. /\ handles[h] \in Place /\ blocks[handles[h].b] \in Allocation
      /\ Fitted(handles[h], blocks[handles[h].b]) /\ Shown(handles[h], blocks[handles[h].b], text[h])
      /\ text[h] \in Seq(Nat)
  BY <1>1, HandleFacts
<1> QED
  BY <1>2, WindowFacts

(* Two handles of one allocation, one of them mutable, reach no byte both. *)
LEMMA KeepsApart == IInv => WritableIsPrivate
<1> SUFFICES ASSUME IInv, NEW h \in Mutable, NEW o \in Kept, h # o, handles[h].b = handles[o].b
             PROVE  Reach(h) \cap Reach(o) = {}
  BY DEF WritableIsPrivate
<1> DEFINE me == handles[h]
           other == handles[o]
<1>1. /\ h \in Handles /\ handles[h] # NoHandle /\ handles[h].mode = "mut"
      /\ o \in Handles /\ handles[o] # NoHandle /\ Consistent(handles, blocks, text)
  BY KeptFacts DEF IInv
<1>2. /\ me \in Place /\ other \in Place /\ me.b \in Blocks
      /\ h \in On(handles, me.b) /\ o \in On(handles, me.b)
  BY <1>1, HandleFacts
<1>3. Apart(me, other)
  <2>1. Compatible(me, other)
    BY <1>1, <1>2 DEF Consistent
  <2> QED
    BY <1>1, <2>1 DEF Compatible
<1>4. Reach(h) = {me.off + i : i \in 1 .. Extent(me)} /\ Reach(o) = {other.off + i : i \in 1 .. Extent(other)}
  <2>1. h \in Mutable <=> me.mode = "mut"
    BY <1>1
  <2>2. o \in Mutable <=> other.mode = "mut"
    BY DEF Mutable
  <2> QED
    BY <2>1, <2>2 DEF Reach, Extent
<1>5. me.off \in Nat /\ Extent(me) \in Nat /\ other.off \in Nat /\ Extent(other) \in Nat
  BY <1>2 DEF Place, Extent
<1> HIDE DEF me, other
<1>6. ASSUME NEW i \in 1 .. Extent(me), NEW j \in 1 .. Extent(other) PROVE me.off + i # other.off + j
  <2> DEFINE m == me.off
             n == other.off
             x == Extent(me)
             y == Extent(other)
  <2>1. x = 0 \/ y = 0 \/ m + x <= n \/ n + y <= m
    BY <1>3 DEF Apart
  <2>2. m \in Nat /\ n \in Nat /\ x \in Nat /\ y \in Nat /\ i \in 1 .. x /\ j \in 1 .. y
    BY <1>5
  <2> HIDE DEF m, n, x, y
  <2>3. m + i # n + j
    BY <2>1, <2>2, SMTT(30)
  <2> QED
    BY <2>3 DEF m, n
<1> QED
  BY <1>4, <1>6

(* The counts and the ends of the windows are those of the allocations.    *)
LEMMA CountsMatch == IInv => HandlesMatchAllocation
<1> SUFFICES ASSUME IInv PROVE HandlesMatchAllocation
  OBVIOUS
<1>1. Consistent(handles, blocks, text)
  BY DEF IInv
<1>2. ASSUME NEW b \in Blocks
      PROVE  LET on == {h \in Kept : handles[h].b = b} IN
             /\ on = {} => blocks[b] = Free
             /\ blocks[b].ref_count # 0 => Cardinality(on) = blocks[b].ref_count
             /\ \A h \in on : IF handles[h].kind = "vec" THEN on = {h} /\ blocks[b].ref_count = 0
                                                         ELSE blocks[b].ref_count # 0
  <2> DEFINE on == On(handles, b)
  <2>1. {h \in Kept : handles[h].b = b} = on
    BY DEF On, Kept
  <2>2. Counted(on, blocks[b])
    BY <1>1 DEF Consistent
  <2>3. ASSUME NEW h \in on
        PROVE  IF handles[h].kind = "vec" THEN on = {h} /\ blocks[b].ref_count = 0
                                          ELSE blocks[b].ref_count # 0
    <3>1. h \in Handles /\ handles[h] # NoHandle /\ handles[h].b = b
      BY DEF On
    <3>2. Fitted(handles[h], blocks[b]) /\ handles[h] \in Place
      BY <1>1, <3>1, HandleFacts
    <3>3. handles[h].kind \in {"vec", "arc"}
      BY <3>2 DEF Place
    <3>4. ASSUME handles[h].kind = "vec", NEW o \in on PROVE o = h
      <4>1. "vec" # "arc"
        BY SMTT(30)
      <4> QED
        BY <1>1, <3>4, <4>1 DEF Consistent, Compatible
    <3>5. handles[h].kind = "vec" => on = {h}
      BY <3>4
    <3> QED
      BY <3>2, <3>3, <3>5 DEF Fitted
  <2> HIDE DEF on
  <2> QED
    BY <2>1, <2>2, <2>3 DEF Counted
<1>3. ASSUME NEW h \in Kept, handles[h].kind = "vec"
      PROVE  /\ handles[h].mode = "mut" => handles[h].pos = handles[h].off
             /\ handles[h].off + handles[h].cap = blocks[handles[h].b].cap
  <2>1. Fitted(handles[h], blocks[handles[h].b])
    BY <1>1, HandleFacts DEF Kept
  <2> QED
    BY <1>3, <2>1 DEF Fitted
<1> QED
  BY <1>2, <1>3 DEF HandlesMatchAllocation

(* reserve and try_reclaim.                                                *)
LEMMA MakesRoom == SizeLaws /\ IInv => ReserveMakesRoom
<1> SUFFICES ASSUME SizeLaws, IInv, NEW h \in Mutable, NEW additional \in 1 .. MaxBytes
             PROVE  LET r == reserve(blocks, handles[h], additional)
                        t == try_reclaim(blocks, handles[h], additional)
                    IN  /\ CanAllocate => r.me.cap - r.me.len >= additional
                        /\ IF t.ok THEN /\ t.me.cap - t.me.len >= additional
                                        /\ t.bl[t.me.b].cap = blocks[handles[h].b].cap
                                   ELSE t.bl = blocks /\ t.me = handles[h]
  BY DEF ReserveMakesRoom
<1> DEFINE r == reserve(blocks, handles[h], additional)
           t == try_reclaim(blocks, handles[h], additional)
<1>1. h \in Handles /\ handles[h] # NoHandle /\ handles[h].mode = "mut" /\ Consistent(handles, blocks, text)
  BY KeptFacts DEF IInv
<1>2. additional \in Nat
  BY NumbersAssumption, SMTT(30)
<1>3. /\ Fresh \in Blocks /\ On(handles, Fresh) = {} => Reserved(handles, blocks, text, h, additional, TRUE, r)
      /\ Reserved(handles, blocks, text, h, additional, FALSE, t)
  BY <1>1, <1>2, Reserves
<1>4. CanAllocate => Reserved(handles, blocks, text, h, additional, TRUE, r)
  BY <1>3, FreshFacts
<1> HIDE DEF r, t
<1>5. ASSUME NEW p \in Place, additional <= p.cap - p.len PROVE p.cap - p.len >= additional
  <2>1. p.cap \in Nat /\ p.len \in Nat
    BY DEF Place
  <2> QED
    BY <1>2, <1>5, <2>1, SMTT(30)
<1>6. CanAllocate => r.me.cap - r.me.len >= additional
  BY <1>4, <1>5 DEF Reserved
<1>7. IF t.ok THEN t.me.cap - t.me.len >= additional /\ t.bl[t.me.b].cap = blocks[handles[h].b].cap
              ELSE t.bl = blocks /\ t.me = handles[h]
  BY <1>3, <1>5 DEF Reserved
<1> QED
  BY <1>6, <1>7 DEF r, t

-----------------------------------------------------------------------------
(* The theorems.                                                           *)

INSTANCE FiniteSums

(* The laws of sizes and of least numbers.  The handles are finitely many, *)
(* and so are the powers of two that Bits counts.                          *)
LEMMA Sizes == SizeLaws
<1>1. ASSUME NEW S \in SUBSET Handles PROVE IsFiniteSet(S) /\ Cardinality(S) \in Nat
  <2>1. IsFiniteSet(S)
    BY NumbersAssumption, FS_Subset
  <2> QED
    BY <2>1, FS_CardinalityType
<1>2. ASSUME NEW S \in SUBSET Handles PROVE Cardinality(S) = 0 <=> S = {}
  BY <1>1, FS_EmptySet
<1>3. ASSUME NEW S \in SUBSET Handles, NEW h \in Handles \ S PROVE Cardinality(S \cup {h}) = Cardinality(S) + 1
  BY <1>1, FS_AddElement
<1>4. ASSUME NEW S \in SUBSET Nat, S # {} PROVE Min(S) \in S
  <2>1. \E x \in S : \A y \in S : x <= y
    BY <1>4, LeastNumber
  <2> QED
    BY <2>1 DEF Min
<1>5. ASSUME NEW n \in Nat PROVE Bits(n) \in Nat
  <2> DEFINE S == {w \in 0 .. n : 2^w <= n}
  <2>1. 0 \in Int /\ n \in Int
    BY SMTT(30)
  <2>2. IsFiniteSet(0 .. n)
    BY <2>1, FS_Interval
  <2>3. S \subseteq 0 .. n
    OBVIOUS
  <2> HIDE DEF S
  <2>4. IsFiniteSet(S)
    BY <2>2, <2>3, FS_Subset
  <2>5. Cardinality(S) \in Nat
    BY <2>4, FS_CardinalityType
  <2> QED
    BY <2>5 DEF Bits, S
<1>6. ASSUME NEW n \in Nat PROVE original_capacity_to_repr(n) \in Reprs
  <2> DEFINE d == 2^MIN_ORIGINAL_CAPACITY_WIDTH
             m == Bits(n \div d)
             k == MAX_ORIGINAL_CAPACITY_WIDTH - MIN_ORIGINAL_CAPACITY_WIDTH
  <2>1. MIN_ORIGINAL_CAPACITY_WIDTH \in 0 .. MAX_ORIGINAL_CAPACITY_WIDTH /\ k \in Nat
    BY WidthAssumption, SMTT(30)
  <2>2. d \in Nat \ {0}
    BY <2>1, WidthAssumption
  <2>3. n \div d \in Nat
    <3> HIDE DEF d
    <3> QED
      BY <2>2, SMTT(30)
  <2>4. m \in Nat
    BY <1>5, <2>3
  <2>5. original_capacity_to_repr(n) = Smaller(m, k) /\ Reprs = 0 .. k
    BY DEF original_capacity_to_repr, Reprs
  <2> HIDE DEF m, k
  <2>6. Smaller(m, k) \in 0 .. k
    BY <2>1, <2>4, SMTT(30) DEF Smaller
  <2> QED
    BY <2>5, <2>6
<1> QED
  BY <1>1, <1>2, <1>3, <1>4, <1>6 DEF SizeLaws

(* The layout is always consistent: every window lies in its allocation    *)
(* and shows its holder's text, no two handles of an allocation overlap    *)
(* where one may write, and every count is the number of handles.          *)
THEOREM LayoutIsConsistent == Spec => []IInv
<1>1. Init => IInv
  BY InitKeeps, Sizes
<1>2. IInv /\ [Next]_vars => IInv'
  <2> SUFFICES ASSUME IInv, [Next]_vars PROVE IInv'
    OBVIOUS
  <2>1. CASE Call
    <3>1. Consistent(handles', blocks', text') /\ written' \in Nat
      BY <2>1, CallKeeps, WrittenIsNumber, Sizes
    <3> QED
      BY <3>1 DEF IInv
  <2>2. CASE UNCHANGED vars
    BY <2>2 DEF vars, IInv
  <2> QED
    BY <2>1, <2>2 DEF Next
<1> QED
  BY <1>1, <1>2, PTL DEF Spec

(* No call loses, moves, exposes or overwrites bytes of another handle.    *)
THEOREM TextKept == Spec => []TextIsKept
<1>1. IInv => TextIsKept
  BY ShowsText
<1> QED
  BY <1>1, LayoutIsConsistent, PTL

(* What a handle may write, its spare capacity included, no other handle   *)
(* of the allocation reaches.                                              *)
THEOREM WritablePrivate == Spec => []WritableIsPrivate
<1>1. IInv => WritableIsPrivate
  BY KeepsApart
<1> QED
  BY <1>1, LayoutIsConsistent, PTL

(* Counts are the numbers of handles, an allocation without handles is     *)
(* freed, and rebuild_vec finds the Vec again.                             *)
THEOREM HandlesMatch == Spec => []HandlesMatchAllocation
<1>1. IInv => HandlesMatchAllocation
  BY CountsMatch
<1> QED
  BY <1>1, LayoutIsConsistent, PTL

(* reserve makes the room it is asked for, and try_reclaim makes it        *)
(* without an allocation or changes nothing.                               *)
THEOREM RoomIsMade == Spec => []ReserveMakesRoom
<1>1. IInv => ReserveMakesRoom
  BY MakesRoom, Sizes
<1> QED
  BY <1>1, LayoutIsConsistent, PTL
=============================================================================
