--------------------------- MODULE BytesMutLayout ---------------------------
(***************************************************************************)
(* Layouts of BytesMut and Bytes, for any number of handles, allocations   *)
(* and bytes: handles hs, allocations bl and texts tx, the windows of the  *)
(* handles in the allocations and what their holders put there.  Every     *)
(* part of an operation takes one consistent layout to another; the parts  *)
(* here are those of advancing, reserving, extending, cloning, splitting   *)
(* and joining.                                                            *)
(***************************************************************************)
EXTENDS BytesMut, TLAPS

USE ZenonT(30)

Reprs == 0 .. MAX_ORIGINAL_CAPACITY_WIDTH - MIN_ORIGINAL_CAPACITY_WIDTH
Place == [mode : {"mut", "frozen"}, kind : {"vec", "arc"}, b : Blocks, off : Nat, pos : Nat,
          len : Nat, cap : Nat, orig : Reprs]
Allocation == {a \in [cap : Nat, mem : Seq(Nat), ref_count : Nat, orig : Reprs] : Len(a.mem) = a.cap}

(* A window lies in its allocation.  The handle of a Vec finds its start   *)
(* and its end again; the allocation of an Arc is counted.                 *)
Fitted(me, a) ==
    /\ me.len <= me.cap /\ me.off + me.cap <= a.cap
    /\ me.kind = "vec" =>
          /\ me.off + me.cap = a.cap /\ a.ref_count = 0
          /\ me.mode = "mut" => me.pos = me.off
    /\ me.kind = "arc" => a.ref_count # 0

(* The window shows s.                                                     *)
Shown(me, a, s) ==
    /\ Len(s) = me.len
    /\ \A i \in 1 .. me.len : s[i] = a.mem[me.off + i]

(* Two windows without a byte in common.                                   *)
Extent(me) == IF me.mode = "mut" THEN me.cap ELSE me.len
Apart(me, other) ==
    \/ Extent(me) = 0 \/ Extent(other) = 0
    \/ me.off + Extent(me) <= other.off
    \/ other.off + Extent(other) <= me.off

(* Two handles of one allocation: both count, and what one may write the   *)
(* other does not reach.                                                   *)
Compatible(me, other) ==
    /\ me.kind = "arc" /\ other.kind = "arc"
    /\ me.mode = "mut" \/ other.mode = "mut" => Apart(me, other)

On(hs, b) == {h \in Handles : hs[h] # NoHandle /\ hs[h].b = b}
Counted(on, a) ==
    /\ on = {} => a = Free
    /\ a.ref_count # 0 => Cardinality(on) = a.ref_count

Consistent(hs, bl, tx) ==
    /\ hs \in [Handles -> {NoHandle} \cup Place]
    /\ bl \in [Blocks -> Allocation]
    /\ tx \in [Handles -> Seq(Nat)]
    /\ \A h \in Handles : hs[h] # NoHandle =>
          Fitted(hs[h], bl[hs[h].b]) /\ Shown(hs[h], bl[hs[h].b], tx[h])
    /\ \A b \in Blocks : \A h, o \in On(hs, b) : h # o => Compatible(hs[h], hs[o])
    /\ \A b \in Blocks : Counted(On(hs, b), bl[b])

(* What is used of the sizes of finite sets, of handles and in Bits, and   *)
(* of least numbers.                                                       *)
SizeLaws ==
    /\ \A S \in SUBSET Handles : Cardinality(S) \in Nat /\ (Cardinality(S) = 0 <=> S = {})
    /\ \A S \in SUBSET Handles : \A h \in Handles \ S : Cardinality(S \cup {h}) = Cardinality(S) + 1
    /\ \A n \in Nat : original_capacity_to_repr(n) \in Reprs
    /\ \A S \in SUBSET Nat : S # {} => Min(S) \in S

-----------------------------------------------------------------------------
(* Layouts.                                                                *)

(* Positions in a window of len bytes at off, with the capacity cap, in an *)
(* allocation of top.                                                      *)
LEMMA InWindow ==
    ASSUME NEW off \in Nat, NEW len \in Nat, NEW cap \in Nat, NEW top \in Nat,
           len <= cap, off + cap <= top, NEW i \in 1 .. len
    PROVE  off + i \in 1 .. top /\ off + i \in (off + 1) .. (off + len)
<1> QED
  BY SMTT(30)

(* Position i, of a window at off, is behind the first m and among n more. *)
Behind(off, m, n, i) ==
    /\ i - m \in 1 .. n /\ off + m + (i - m) = off + i
    /\ off + m < off + i /\ off + i <= off + m + n /\ (off + i) - (off + m) = i - m

(* Positions behind the first m of a window of m + n bytes at off.         *)
LEMMA BehindFirst ==
    ASSUME NEW off \in Nat, NEW m \in Nat, NEW n \in Nat, NEW i \in 1 .. m + n, ~(i <= m)
    PROVE  Behind(off, m, n, i)
<1> QED
  BY SMTT(30) DEF Behind

(* A capacity with room for additional bytes behind len.                   *)
Enough(cap, len, additional) == cap \in Nat /\ len <= cap /\ additional <= cap - len

(* What is left behind off of an allocation of top.                        *)
LEMMA EnoughBehind ==
    ASSUME NEW off \in Nat, NEW len \in Nat, NEW additional \in Nat, NEW top \in Nat,
           len + off + additional <= top
    PROVE  Enough(top - off, len, additional) /\ off + (top - off) = top /\ off + (top - off) <= top
<1> QED
  BY SMTT(30) DEF Enough

(* All of an allocation of top.                                            *)
LEMMA EnoughInAll ==
    ASSUME NEW len \in Nat, NEW additional \in Nat, NEW top \in Nat, top >= len + additional
    PROVE  Enough(top, len, additional) /\ 0 + top <= top
<1> QED
  BY SMTT(30) DEF Enough

(* Just what is asked for, where it fits behind off.                       *)
LEMMA EnoughInPlace ==
    ASSUME NEW off \in Nat, NEW len \in Nat, NEW additional \in Nat, NEW top \in Nat,
           top >= len + additional + off
    PROVE  Enough(len + additional, len, additional) /\ off + (len + additional) <= top
<1> QED
  BY SMTT(30) DEF Enough

(* Positions of a window of len bytes at off are before its end.           *)
LEMMA BeforeEnd ==
    ASSUME NEW off \in Nat, NEW len \in Nat, NEW i \in 1 .. len
    PROVE  off + i \in 1 .. (len + off) /\ off + i \in 1 .. (off + len)
<1> QED
  BY SMTT(30)

(* A window moved to the front, with all the capacity there is.            *)
InFront(off, cap, len, additional, top) ==
    /\ off \in Nat /\ off = 0 /\ cap \in Nat /\ off + cap = top /\ len <= cap
    /\ additional <= cap - len /\ off + cap <= top

(* A window of a Vec, which ends where its allocation ends, has as much    *)
(* more capacity at the front as it was behind the front.                  *)
LEMMA EnoughInFront ==
    ASSUME NEW off \in Nat, NEW pos \in Nat, NEW len \in Nat, NEW cap \in Nat, NEW top \in Nat,
           NEW additional \in Nat, pos = off, off + cap = top, len <= cap, cap - len + pos >= additional
    PROVE  InFront(off - pos, cap + pos, len, additional, top)
<1> QED
  BY SMTT(30) DEF InFront

(* Positions counted from the front.                                       *)
LEMMA FromFront ==
    ASSUME NEW n \in Nat, NEW i \in 1 .. n
    PROVE  0 + i = i
<1> QED
  BY SMTT(30)

(* The larger of what is asked for and what there was.                     *)
LEMMA EnoughAsked ==
    ASSUME NEW len \in Nat, NEW additional \in Nat, NEW cap \in Nat
    PROVE  Enough(Larger(len + additional, cap), len, additional)
<1> QED
  BY SMTT(30) DEF Enough, Larger

(* What Vec::reserve is asked for beyond the end of a window, where the    *)
(* capacity is to double at least.                                         *)
Doubles(off, len, additional, top) ==
    LET more == Larger(2 * top, len + additional + off) - (off + len) IN
    more \in Nat /\ off + len + more >= len + additional + off

LEMMA AsksForMore ==
    ASSUME NEW off \in Nat, NEW len \in Nat, NEW cap \in Nat, NEW additional \in Nat, NEW top \in Nat,
           len <= cap, off + cap <= top
    PROVE  Doubles(off, len, additional, top)
<1> QED
  BY SMTT(30) DEF Doubles, Larger

(* The end of a window lies in its allocation.                             *)
LEMMA EndWithin ==
    ASSUME NEW off \in Nat, NEW len \in Nat, NEW cap \in Nat, NEW top \in Nat,
           len <= cap, off + cap <= top
    PROVE  off + len \in Nat /\ off + len <= top /\ len + off \in Nat /\ len + off <= top
<1> QED
  BY SMTT(30)

(* The end of a window that grows by n.                                    *)
LEMMA GrowsWithin ==
    ASSUME NEW len \in Nat, NEW n \in Nat, NEW cap \in Nat, n <= cap - len
    PROVE  len + n \in Nat /\ len + n <= cap
<1> QED
  BY SMTT(30)

(* A handle in use is not NoHandle, and nothing is on a freed allocation.  *)
LEMMA Constants == (\A p \in Place : p # NoHandle) /\ Free \in Allocation
<1>1. \A p \in Place : p # NoHandle
  BY SMTT(30) DEF Place, NoHandle
<1>2. <<>> \in Seq(Nat) /\ Len(<<>>) = 0 /\ 0 \in Reprs
  BY WidthAssumption, SMTT(30) DEF Reprs
<1> QED
  BY <1>1, <1>2, SMTT(30) DEF Free, Allocation

(* What holds of one handle of a consistent layout.                        *)
LEMMA HandleFacts ==
    ASSUME NEW hs, NEW bl, NEW tx, Consistent(hs, bl, tx), NEW h \in Handles, hs[h] # NoHandle
    PROVE  /\ hs[h] \in Place /\ hs[h].b \in Blocks /\ bl[hs[h].b] \in Allocation
           /\ Fitted(hs[h], bl[hs[h].b]) /\ Shown(hs[h], bl[hs[h].b], tx[h]) /\ tx[h] \in Seq(Nat)
           /\ h \in On(hs, hs[h].b)
<1>1. hs[h] \in Place /\ tx[h] \in Seq(Nat)
  BY DEF Consistent
<1>2. hs[h].b \in Blocks
  BY <1>1 DEF Place
<1> QED
  BY <1>1, <1>2 DEF Consistent, On

(* An allocation a that the handles other than h can stay on.              *)
Others(hs, h, b) == On(hs, b) \ {h}
Suits(hs, tx, h, b, a) ==
    /\ a \in Allocation
    /\ \A o \in Others(hs, h, b) : Fitted(hs[o], a) /\ Shown(hs[o], a, tx[o])

(* Handle h is put at me, new or in place of what it was there, and the    *)
(* allocation becomes a.                                                   *)
LEMMA Settles ==
    ASSUME NEW hs, NEW bl, NEW tx, Consistent(hs, bl, tx), NEW h \in Handles, NEW me \in Place,
           hs[h] = NoHandle \/ hs[h].b = me.b,
           NEW a, Suits(hs, tx, h, me.b, a), Counted(On(hs, me.b) \cup {h}, a),
           NEW s \in Seq(Nat), Fitted(me, a), Shown(me, a, s),
           \A o \in Others(hs, h, me.b) : Compatible(me, hs[o])
    PROVE  Consistent([hs EXCEPT ![h] = me], [bl EXCEPT ![me.b] = a], [tx EXCEPT ![h] = s])
<1> DEFINE hs2 == [hs EXCEPT ![h] = me]
           bl2 == [bl EXCEPT ![me.b] = a]
           tx2 == [tx EXCEPT ![h] = s]
<1>1. me.b \in Blocks /\ me # NoHandle
  BY Constants DEF Place
<1>2. /\ hs2 \in [Handles -> {NoHandle} \cup Place] /\ hs2[h] = me
      /\ \A k \in Handles : k # h => hs2[k] = hs[k]
  BY DEF Consistent
<1>3. /\ bl2 \in [Blocks -> Allocation] /\ bl2[me.b] = a
      /\ \A b \in Blocks : b # me.b => bl2[b] = bl[b]
  BY <1>1 DEF Consistent, Suits
<1>4. /\ tx2 \in [Handles -> Seq(Nat)] /\ tx2[h] = s
      /\ \A k \in Handles : k # h => tx2[k] = tx[k]
  BY DEF Consistent
<1> HIDE DEF hs2, bl2, tx2
<1>5. On(hs2, me.b) = On(hs, me.b) \cup {h}
  BY <1>1, <1>2 DEF On
<1>6. \A b \in Blocks : b # me.b => On(hs2, b) = On(hs, b)
  BY <1>1, <1>2 DEF On
<1>7. ASSUME NEW k \in Handles, hs2[k] # NoHandle
      PROVE  Fitted(hs2[k], bl2[hs2[k].b]) /\ Shown(hs2[k], bl2[hs2[k].b], tx2[k])
  <2>1. CASE k = h
    BY <1>2, <1>3, <1>4, <2>1
  <2>2. CASE k # h /\ hs[k].b = me.b
    <3>1. k \in Others(hs, h, me.b)
      BY <1>2, <1>7, <2>2 DEF Others, On
    <3> QED
      BY <1>2, <1>3, <1>4, <2>2, <3>1 DEF Suits
  <2>3. CASE k # h /\ hs[k].b # me.b
    <3>1. hs[k] # NoHandle /\ hs2[k] = hs[k] /\ tx2[k] = tx[k]
      BY <1>2, <1>4, <1>7, <2>3
    <3>2. hs[k].b \in Blocks
      BY <3>1, HandleFacts
    <3> QED
      BY <1>3, <2>3, <3>1, <3>2 DEF Consistent
  <2> QED
    BY <2>1, <2>2, <2>3
<1>8. ASSUME NEW b \in Blocks, NEW k \in On(hs2, b), NEW o \in On(hs2, b), k # o
      PROVE  Compatible(hs2[k], hs2[o])
  <2>1. CASE b # me.b
    <3>1. k # h /\ o # h
      BY <1>2, <2>1 DEF On
    <3> QED
      BY <1>2, <1>6, <1>8, <2>1, <3>1 DEF Consistent, On
  <2>2. CASE b = me.b
    <3>1. CASE k = h
      BY <1>2, <1>5, <1>8, <2>2, <3>1 DEF Others, On
    <3>2. CASE o = h
      <4>1. Compatible(me, hs[k])
        BY <1>5, <1>8, <2>2, <3>2 DEF Others
      <4>2. Compatible(hs[k], me)
        BY <4>1 DEF Compatible, Apart
      <4> QED
        BY <1>2, <1>8, <3>2, <4>2 DEF On
    <3>3. CASE k # h /\ o # h
      BY <1>2, <1>5, <1>8, <2>2, <3>3 DEF Consistent, On
    <3> QED
      BY <3>1, <3>2, <3>3
  <2> QED
    BY <2>1, <2>2
<1>9. \A b \in Blocks : Counted(On(hs2, b), bl2[b])
  BY <1>3, <1>5, <1>6 DEF Consistent
<1> QED
  BY <1>2, <1>3, <1>4, <1>7, <1>8, <1>9 DEF Consistent, hs2, bl2, tx2

(* Handle h goes, and its allocation becomes a.                            *)
LEMMA Leaves ==
    ASSUME NEW hs, NEW bl, NEW tx, Consistent(hs, bl, tx), NEW h \in Handles, hs[h] # NoHandle,
           NEW a, Suits(hs, tx, h, hs[h].b, a), Counted(Others(hs, h, hs[h].b), a),
           NEW s \in Seq(Nat)
    PROVE  Consistent([hs EXCEPT ![h] = NoHandle], [bl EXCEPT ![hs[h].b] = a], [tx EXCEPT ![h] = s])
<1> DEFINE hs2 == [hs EXCEPT ![h] = NoHandle]
           bl2 == [bl EXCEPT ![hs[h].b] = a]
           tx2 == [tx EXCEPT ![h] = s]
<1>1. hs[h].b \in Blocks
  BY HandleFacts
<1>2. /\ hs2 \in [Handles -> {NoHandle} \cup Place] /\ hs2[h] = NoHandle
      /\ \A k \in Handles : k # h => hs2[k] = hs[k]
  BY DEF Consistent
<1>3. /\ bl2 \in [Blocks -> Allocation] /\ bl2[hs[h].b] = a
      /\ \A b \in Blocks : b # hs[h].b => bl2[b] = bl[b]
  BY <1>1 DEF Consistent, Suits
<1>4. /\ tx2 \in [Handles -> Seq(Nat)] /\ tx2[h] = s
      /\ \A k \in Handles : k # h => tx2[k] = tx[k]
  BY DEF Consistent
<1> HIDE DEF hs2, bl2, tx2
<1>5. On(hs2, hs[h].b) = Others(hs, h, hs[h].b)
  BY <1>2 DEF On, Others
<1>6. \A b \in Blocks : b # hs[h].b => On(hs2, b) = On(hs, b)
  BY <1>2 DEF On
<1>7. ASSUME NEW k \in Handles, hs2[k] # NoHandle
      PROVE  Fitted(hs2[k], bl2[hs2[k].b]) /\ Shown(hs2[k], bl2[hs2[k].b], tx2[k])
  <2>1. k # h /\ hs[k] # NoHandle /\ hs2[k] = hs[k] /\ tx2[k] = tx[k]
    BY <1>2, <1>4, <1>7
  <2>2. CASE hs[k].b = hs[h].b
    <3>1. k \in Others(hs, h, hs[h].b)
      BY <2>1, <2>2 DEF Others, On
    <3> QED
      BY <1>3, <2>1, <2>2, <3>1 DEF Suits
  <2>3. CASE hs[k].b # hs[h].b
    <3>1. hs[k].b \in Blocks
      BY <2>1, HandleFacts
    <3> QED
      BY <1>3, <2>1, <2>3, <3>1 DEF Consistent
  <2> QED
    BY <2>2, <2>3
<1>8. ASSUME NEW b \in Blocks, NEW k \in On(hs2, b), NEW o \in On(hs2, b), k # o
      PROVE  Compatible(hs2[k], hs2[o])
  BY <1>2, <1>8 DEF Consistent, On
<1>9. \A b \in Blocks : Counted(On(hs2, b), bl2[b])
  BY <1>3, <1>5, <1>6 DEF Consistent
<1> QED
  BY <1>2, <1>3, <1>4, <1>7, <1>8, <1>9 DEF Consistent, hs2, bl2, tx2

(* An allocation counted anew.                                             *)
LEMMA Recounted ==
    ASSUME NEW old \in Allocation, NEW n \in Nat
    PROVE  LET a == [old EXCEPT !.ref_count = n]
           IN  a \in Allocation /\ a.ref_count = n /\ a.cap = old.cap /\ a.mem = old.mem
<1> DEFINE R == [cap : Nat, mem : Seq(Nat), ref_count : Nat, orig : Reprs]
           a == [old EXCEPT !.ref_count = n]
<1>1. old \in R
  BY DEF Allocation
<1>2. a \in R /\ a.ref_count = n /\ a.cap = old.cap /\ a.mem = old.mem
  BY <1>1
<1> HIDE DEF a
<1>3. a \in Allocation
  BY <1>2 DEF Allocation
<1> QED
  BY <1>2, <1>3 DEF a

(* One handle less.                                                        *)
LEMMA Without ==
    ASSUME SizeLaws, NEW S \in SUBSET Handles, NEW h \in S
    PROVE  /\ Cardinality(S) \in Nat /\ Cardinality(S \ {h}) \in Nat
           /\ Cardinality(S) = Cardinality(S \ {h}) + 1
           /\ S \ {h} = {} <=> Cardinality(S) = 1
<1> DEFINE T == S \ {h}
<1>1. T \in SUBSET Handles /\ h \in Handles \ T /\ T \cup {h} = S
  OBVIOUS
<1> HIDE DEF T
<1>2. Cardinality(S) = Cardinality(T) + 1
  BY <1>1 DEF SizeLaws
<1>3. Cardinality(S) \in Nat /\ Cardinality(T) \in Nat /\ (Cardinality(T) = 0 <=> T = {})
  BY <1>1 DEF SizeLaws
<1>4. T = {} <=> Cardinality(S) = 1
  BY <1>2, <1>3, SMTT(30)
<1> QED
  BY <1>2, <1>3, <1>4 DEF T

(* A Vec, and an Arc counted once, have one handle.                        *)
LEMMA OnlyHandle ==
    ASSUME SizeLaws, NEW hs, NEW bl, NEW tx, Consistent(hs, bl, tx),
           NEW h \in Handles, hs[h] # NoHandle
    PROVE  /\ is_unique(bl, hs[h]) => Others(hs, h, hs[h].b) = {}
           /\ hs[h].kind = "arc" => Cardinality(On(hs, hs[h].b)) = bl[hs[h].b].ref_count
           /\ \A o \in Others(hs, h, hs[h].b) : hs[o] # NoHandle /\ Compatible(hs[h], hs[o])
<1> DEFINE on == On(hs, hs[h].b)
<1>1. hs[h] \in Place /\ hs[h].b \in Blocks /\ Fitted(hs[h], bl[hs[h].b]) /\ h \in on
  BY HandleFacts
<1>2. \A o \in Others(hs, h, hs[h].b) : hs[o] # NoHandle /\ Compatible(hs[h], hs[o])
  BY <1>1 DEF Consistent, Others, On
<1>3. hs[h].kind = "arc" => Cardinality(on) = bl[hs[h].b].ref_count
  BY <1>1 DEF Fitted, Consistent, Counted
<1>4. on \in SUBSET Handles
  BY DEF On
<1> HIDE DEF on
<1>5. Cardinality(on) = 1 => on \ {h} = {}
  BY <1>1, <1>4, Without
<1>6. CASE hs[h].kind = "vec"
  BY <1>2, <1>6 DEF Compatible
<1>7. CASE hs[h].kind = "arc"
  BY <1>2, <1>3, <1>5, <1>7 DEF is_unique, Others, on
<1> QED
  BY <1>1, <1>2, <1>3, <1>6, <1>7 DEF Place, on

(* drop and release_shared: the last handle frees the allocation, any      *)
(* other one is counted off.                                               *)
LEMMA Drops ==
    ASSUME SizeLaws, NEW hs, NEW bl, NEW tx, Consistent(hs, bl, tx),
           NEW h \in Handles, hs[h] # NoHandle, NEW s \in Seq(Nat)
    PROVE  Consistent([hs EXCEPT ![h] = NoHandle], drop(bl, hs[h]), [tx EXCEPT ![h] = s])
<1> DEFINE b == hs[h].b
           a == IF is_unique(bl, hs[h]) THEN Free ELSE [bl[b] EXCEPT !.ref_count = @ - 1]
<1>1. hs[h] \in Place /\ b \in Blocks /\ bl[b] \in Allocation /\ Fitted(hs[h], bl[b]) /\ h \in On(hs, b)
  BY HandleFacts
<1>2. drop(bl, hs[h]) = [bl EXCEPT ![b] = a]
  BY <1>1 DEF drop, release_shared, is_unique, Place
<1>3. Suits(hs, tx, h, b, a) /\ Counted(Others(hs, h, b), a)
  <2>1. CASE is_unique(bl, hs[h])
    <3>1. a = Free /\ Others(hs, h, b) = {}
      BY <2>1, OnlyHandle
    <3> QED
      BY <3>1, Constants DEF Suits, Counted, Free
  <2>2. CASE ~is_unique(bl, hs[h])
    <3> DEFINE n == bl[b].ref_count
    <3>1. a = [bl[b] EXCEPT !.ref_count = n - 1] /\ hs[h].kind = "arc" /\ n # 0 /\ n # 1 /\ n \in Nat
      BY <1>1, <2>2 DEF is_unique, Place, Fitted, Allocation
    <3>2. /\ a \in Allocation /\ a.ref_count = n - 1 /\ a.cap = bl[b].cap /\ a.mem = bl[b].mem
          /\ n - 1 # 0
      <4>1. n - 1 \in Nat /\ n - 1 # 0
        <5> HIDE DEF n
        <5> QED
          BY <3>1, SMTT(30)
      <4> DEFINE k == n - 1
      <4>2. LET c == [bl[b] EXCEPT !.ref_count = k]
            IN  c \in Allocation /\ c.ref_count = k /\ c.cap = bl[b].cap /\ c.mem = bl[b].mem
        <5> HIDE DEF k
        <5>1. k \in Nat
          BY <4>1 DEF k
        <5> QED
          BY <1>1, <5>1, Recounted
      <4> HIDE DEF a
      <4> QED
        BY <3>1, <4>1, <4>2
    <3>3. Cardinality(Others(hs, h, b)) = n - 1 /\ Others(hs, h, b) # {}
      <4>1. On(hs, b) \in SUBSET Handles /\ Cardinality(On(hs, b)) = n
        BY <3>1, OnlyHandle DEF On
      <4>2. Cardinality(On(hs, b)) = Cardinality(Others(hs, h, b)) + 1
            /\ Cardinality(Others(hs, h, b)) \in Nat
            /\ (Others(hs, h, b) = {} <=> Cardinality(On(hs, b)) = 1)
        BY <1>1, <4>1, Without DEF Others
      <4> HIDE DEF a, b, n
      <4>3. n \in Nat /\ n # 1
        BY <3>1
      <4> QED
        BY <4>1, <4>2, <4>3, SMTT(30)
    <3>4. ASSUME NEW o \in Others(hs, h, b) PROVE Fitted(hs[o], a) /\ Shown(hs[o], a, tx[o])
      <4>1. /\ hs[o] # NoHandle /\ hs[o].b = b /\ o \in Handles
            /\ hs[o].kind = "arc"
        <5>1. Compatible(hs[h], hs[o])
          BY <3>4, OnlyHandle
        <5> QED
          BY <3>4, <5>1 DEF Others, On, Compatible
      <4>2. Fitted(hs[o], bl[b]) /\ Shown(hs[o], bl[b], tx[o])
        BY <4>1, HandleFacts
      <4> HIDE DEF a, b, n
      <4> QED
        BY <3>2, <4>1, <4>2 DEF Fitted, Shown
    <3> HIDE DEF a, b, n
    <3> QED
      BY <3>2, <3>3, <3>4 DEF Suits, Counted
  <2> QED
    BY <2>1, <2>2
<1> HIDE DEF a
<1>4. Consistent([hs EXCEPT ![h] = NoHandle], [bl EXCEPT ![b] = a], [tx EXCEPT ![h] = s])
  BY <1>3, Leaves
<1> QED
  BY <1>2, <1>4

(* A handle within the window of an earlier one, which it may write no     *)
(* more than that.                                                         *)
Inside(me, old) ==
    /\ me.b = old.b /\ me.kind = old.kind
    /\ me.mode = old.mode \/ me.mode = "frozen"
    /\ old.off <= me.off /\ me.off + Extent(me) <= old.off + Extent(old)

(* Only bytes change that the handle me may write.                         *)
Writes(me, old, a) ==
    /\ a \in Allocation /\ a.cap = old.cap /\ a.ref_count = old.ref_count
    /\ \A i \in 1 .. old.cap : \/ a.mem[i] = old.mem[i]
                               \/ me.mode = "mut" /\ me.off < i /\ i <= me.off + me.cap

(* A narrower window stays apart from the other ones.                      *)
LEMMA NarrowerIsCompatible ==
    ASSUME NEW me \in Place, NEW old \in Place, NEW other \in Place,
           Inside(me, old), Compatible(old, other)
    PROVE  Compatible(me, other)
<1>1. /\ me.mode = "mut" => old.mode = "mut"
      /\ me.kind = "arc" /\ other.kind = "arc"
  BY SMTT(30) DEF Inside, Compatible
<1>2. /\ Extent(me) \in Nat /\ Extent(old) \in Nat /\ Extent(other) \in Nat
      /\ me.off \in Nat /\ old.off \in Nat /\ other.off \in Nat
  BY DEF Extent, Place
<1>3. old.off <= me.off /\ me.off + Extent(me) <= old.off + Extent(old)
  BY DEF Inside
<1>4. ASSUME Apart(old, other) PROVE Apart(me, other)
  BY <1>2, <1>3, <1>4, SMTT(30) DEF Apart
<1> QED
  BY <1>1, <1>4 DEF Compatible

(* The other handles of an allocation show what they did.                  *)
LEMMA OthersKeep ==
    ASSUME NEW me \in Place, NEW other \in Place, Compatible(me, other),
           NEW old \in Allocation, NEW a, Writes(me, old, a), NEW s,
           Fitted(other, old), Shown(other, old, s)
    PROVE  Fitted(other, a) /\ Shown(other, a, s)
<1>1. Fitted(other, a)
  BY DEF Fitted, Writes
<1>2. /\ me.off \in Nat /\ me.cap \in Nat /\ other.off \in Nat /\ other.len \in Nat /\ other.cap \in Nat
      /\ old.cap \in Nat /\ other.len <= other.cap /\ other.off + other.cap <= old.cap
  BY DEF Place, Allocation, Fitted
<1>3. ASSUME NEW i \in 1 .. other.len PROVE a.mem[other.off + i] = old.mem[other.off + i]
  <2>1. other.off + i \in 1 .. old.cap
    BY <1>2, SMTT(30)
  <2>2. CASE me.mode = "mut"
    <3>1. Apart(me, other) /\ Extent(me) = me.cap /\ (Extent(other) = other.cap \/ Extent(other) = other.len)
      BY <2>2 DEF Compatible, Extent
    <3>2. ~(me.off < other.off + i /\ other.off + i <= me.off + me.cap)
      BY <1>2, <3>1, SMTT(30) DEF Apart
    <3> QED
      BY <2>1, <3>2 DEF Writes
  <2>3. CASE me.mode # "mut"
    BY <2>1, <2>3 DEF Writes
  <2> QED
    BY <2>2, <2>3
<1> QED
  BY <1>1, <1>3 DEF Shown

(* A handle stays on its allocation, in a part of its window, and writes   *)
(* no more than it may.                                                    *)
LEMMA Restates ==
    ASSUME NEW hs, NEW bl, NEW tx, Consistent(hs, bl, tx), NEW h \in Handles, hs[h] # NoHandle,
           NEW me \in Place, Inside(me, hs[h]), NEW a, Writes(hs[h], bl[hs[h].b], a),
           Fitted(me, a), NEW s \in Seq(Nat), Shown(me, a, s)
    PROVE  Consistent([hs EXCEPT ![h] = me], [bl EXCEPT ![me.b] = a], [tx EXCEPT ![h] = s])
<1>1. hs[h] \in Place /\ bl[me.b] \in Allocation /\ me.b = hs[h].b /\ h \in On(hs, me.b) /\ me.b \in Blocks
  BY HandleFacts DEF Inside
<1>2. ASSUME NEW o \in Others(hs, h, me.b)
      PROVE  Compatible(me, hs[o]) /\ Fitted(hs[o], a) /\ Shown(hs[o], a, tx[o])
  <2>1. /\ o \in Handles /\ hs[o] # NoHandle /\ hs[o].b = me.b /\ Compatible(hs[h], hs[o])
    BY <1>1, <1>2 DEF Consistent, Others, On
  <2>2. hs[o] \in Place /\ Fitted(hs[o], bl[me.b]) /\ Shown(hs[o], bl[me.b], tx[o])
    BY <2>1, HandleFacts
  <2>3. Compatible(me, hs[o])
    BY <1>1, <2>1, <2>2, NarrowerIsCompatible
  <2>4. Fitted(hs[o], a) /\ Shown(hs[o], a, tx[o])
    BY <1>1, <2>1, <2>2, OthersKeep
  <2> QED
    BY <2>3, <2>4
<1>3. Suits(hs, tx, h, me.b, a)
  BY <1>2 DEF Suits, Writes
<1>4. Counted(On(hs, me.b) \cup {h}, a)
  <2>1. On(hs, me.b) \cup {h} = On(hs, me.b)
    BY <1>1
  <2> QED
    BY <1>1, <2>1 DEF Consistent, Counted, Writes
<1> QED
  BY <1>1, <1>2, <1>3, <1>4, Settles

(* A handle alone on its allocation, or put on one that no handle uses.    *)
LEMMA Alone ==
    ASSUME SizeLaws, NEW hs, NEW bl, NEW tx, Consistent(hs, bl, tx), NEW h \in Handles,
           NEW me \in Place, hs[h] = NoHandle \/ hs[h].b = me.b, Others(hs, h, me.b) = {},
           NEW a \in Allocation, a.ref_count \in {0, 1}, Fitted(me, a),
           NEW s \in Seq(Nat), Shown(me, a, s)
    PROVE  Consistent([hs EXCEPT ![h] = me], [bl EXCEPT ![me.b] = a], [tx EXCEPT ![h] = s])
<1>1. On(hs, me.b) \cup {h} = {h}
  BY DEF Others
<1>2. Cardinality({h}) = 1
  <2>1. {} \in SUBSET Handles /\ h \in Handles \ {} /\ {} \cup {h} = {h}
    OBVIOUS
  <2>2. Cardinality({} \cup {h}) = Cardinality({}) + 1 /\ Cardinality({}) = 0
    BY <2>1 DEF SizeLaws
  <2> QED
    BY <2>1, <2>2, SMTT(30)
<1>3. Counted({h}, a)
  BY <1>2 DEF Counted
<1>4. Suits(hs, tx, h, me.b, a)
  BY DEF Suits
<1> QED
  BY <1>1, <1>3, <1>4, Settles

(* A new handle on a counted allocation.                                   *)
LEMMA Joins ==
    ASSUME SizeLaws, NEW hs, NEW bl, NEW tx, Consistent(hs, bl, tx), NEW o \in Handles,
           hs[o] = NoHandle, NEW me \in Place, me.kind = "arc", On(hs, me.b) # {},
           Fitted(me, bl[me.b]), NEW s \in Seq(Nat), Shown(me, bl[me.b], s),
           \A k \in On(hs, me.b) : Compatible(me, hs[k])
    PROVE  Consistent([hs EXCEPT ![o] = me], [bl EXCEPT ![me.b].ref_count = @ + 1], [tx EXCEPT ![o] = s])
<1> DEFINE b == me.b
           n == bl[b].ref_count
           a == [bl[b] EXCEPT !.ref_count = n + 1]
           on == On(hs, b)
<1>1. b \in Blocks /\ bl[b] \in Allocation
  BY DEF Place, Consistent
<1>2. n \in Nat /\ n # 0
  BY <1>1 DEF Allocation, Fitted
<1>4. n + 1 \in Nat /\ n + 1 # 0
  <2> HIDE DEF n
  <2> QED
    BY <1>2, SMTT(30)
<1>3. a \in Allocation /\ a.ref_count = n + 1 /\ a.cap = bl[b].cap /\ a.mem = bl[b].mem
  BY <1>1, <1>4, Recounted
<1>5. [bl EXCEPT ![me.b].ref_count = @ + 1] = [bl EXCEPT ![me.b] = a]
  BY <1>1
<1> HIDE DEF a, n
<1>6. Suits(hs, tx, o, b, a)
  <2>1. ASSUME NEW k \in Others(hs, o, b) PROVE Fitted(hs[k], a) /\ Shown(hs[k], a, tx[k])
    <3>1. k \in Handles /\ hs[k] # NoHandle /\ hs[k].b = b /\ hs[k].kind = "arc"
      BY <2>1 DEF Others, On, Compatible
    <3>2. Fitted(hs[k], bl[b]) /\ Shown(hs[k], bl[b], tx[k])
      BY <3>1, HandleFacts
    <3> QED
      BY <1>3, <1>4, <3>1, <3>2 DEF Fitted, Shown
  <2> QED
    BY <1>3, <2>1 DEF Suits
<1>7. Counted(on \cup {o}, a)
  <2>1. on \in SUBSET Handles /\ o \in Handles \ on
    BY DEF On
  <2>2. Cardinality(on) = n
    BY <1>1, <1>2 DEF Consistent, Counted, n
  <2>3. Cardinality(on \cup {o}) = n + 1
    BY <2>1, <2>2 DEF SizeLaws
  <2> QED
    BY <1>3, <2>3 DEF Counted
<1>8. Fitted(me, a) /\ Shown(me, a, s)
  BY <1>3, <1>4 DEF Fitted, Shown
<1>9. \A k \in Others(hs, o, b) : Compatible(me, hs[k])
  BY DEF Others
<1>10. Consistent([hs EXCEPT ![o] = me], [bl EXCEPT ![me.b] = a], [tx EXCEPT ![o] = s])
  BY <1>6, <1>7, <1>8, <1>9, Settles
<1> QED
  BY <1>5, <1>10

(* What handle o stands for is known as h from now on.                     *)
LEMMA Moves ==
    ASSUME SizeLaws, NEW hs, NEW bl, NEW tx, Consistent(hs, bl, tx), NEW h \in Handles,
           hs[h] = NoHandle, NEW o \in Handles, hs[o] # NoHandle, NEW s \in Seq(Nat)
    PROVE  Consistent([hs EXCEPT ![h] = hs[o], ![o] = NoHandle], bl, [tx EXCEPT ![h] = tx[o], ![o] = s])
<1> DEFINE hs2 == [hs EXCEPT ![h] = hs[o], ![o] = NoHandle]
           tx2 == [tx EXCEPT ![h] = tx[o], ![o] = s]
           src(k) == IF k = h THEN o ELSE k
<1>1. h # o /\ tx[o] \in Seq(Nat)
  BY HandleFacts
<1>2. /\ hs2 \in [Handles -> {NoHandle} \cup Place] /\ tx2 \in [Handles -> Seq(Nat)]
      /\ hs2[h] = hs[o] /\ hs2[o] = NoHandle /\ tx2[h] = tx[o]
      /\ \A k \in Handles : k # h /\ k # o => hs2[k] = hs[k] /\ tx2[k] = tx[k]
  BY <1>1 DEF Consistent
<1>3. ASSUME NEW k \in Handles, hs2[k] # NoHandle
      PROVE  /\ src(k) \in Handles /\ hs2[k] = hs[src(k)] /\ tx2[k] = tx[src(k)] /\ k # o
             /\ hs[src(k)] # NoHandle
  BY <1>1, <1>2, <1>3
<1> HIDE DEF hs2, tx2
<1>4. ASSUME NEW k \in Handles, hs2[k] # NoHandle
      PROVE  Fitted(hs2[k], bl[hs2[k].b]) /\ Shown(hs2[k], bl[hs2[k].b], tx2[k])
  <2>1. src(k) \in Handles /\ hs2[k] = hs[src(k)] /\ tx2[k] = tx[src(k)] /\ hs[src(k)] # NoHandle
    BY <1>3, <1>4
  <2> HIDE DEF src
  <2> QED
    BY <2>1, HandleFacts
<1>5. ASSUME NEW b \in Blocks, NEW j \in On(hs2, b), NEW k \in On(hs2, b), j # k
      PROVE  Compatible(hs2[j], hs2[k])
  <2>1. src(j) \in On(hs, b) /\ src(k) \in On(hs, b) /\ hs2[j] = hs[src(j)] /\ hs2[k] = hs[src(k)]
    BY <1>3, <1>5 DEF On
  <2>2. j # o /\ k # o
    BY <1>3, <1>5 DEF On
  <2>3. src(j) # src(k)
    BY <1>5, <2>2
  <2> HIDE DEF src
  <2> QED
    BY <2>1, <2>3 DEF Consistent
<1>6. ASSUME NEW b \in Blocks PROVE Counted(On(hs2, b), bl[b])
  <2>1. Counted(On(hs, b), bl[b])
    BY DEF Consistent
  <2>2. CASE hs[o].b # b
    <3>1. On(hs2, b) = On(hs, b)
      BY <1>2, <2>2 DEF On
    <3> QED
      BY <2>1, <3>1
  <2>3. CASE hs[o].b = b
    <3> DEFINE S == On(hs, b)
               T == S \ {o}
    <3>1. S \in SUBSET Handles /\ o \in S /\ On(hs2, b) = T \cup {h}
      BY <1>1, <1>2, <2>3 DEF On
    <3>2. T \in SUBSET Handles /\ h \in Handles \ T
      BY <1>1 DEF On
    <3> HIDE DEF S
    <3>3. Cardinality(S) = Cardinality(T) + 1
      BY <3>1, Without
    <3> HIDE DEF T
    <3>4. Cardinality(T \cup {h}) = Cardinality(T) + 1
      BY <3>2 DEF SizeLaws
    <3> QED
      BY <2>1, <3>1, <3>3, <3>4 DEF Counted, S
  <2> QED
    BY <2>2, <2>3
<1> QED
  BY <1>2, <1>4, <1>5, <1>6 DEF Consistent, hs2, tx2

-----------------------------------------------------------------------------
(* Memory.                                                                 *)

(* The bytes written at an offset replace those that were there.           *)
LEMMA PutFacts ==
    ASSUME NEW mem \in Seq(Nat), NEW at \in Nat, NEW s \in Seq(Nat)
    PROVE  /\ Put(mem, at, s) \in Seq(Nat) /\ Len(Put(mem, at, s)) = Len(mem)
           /\ \A i \in 1 .. Len(mem) :
                 Put(mem, at, s)[i] = IF at < i /\ i <= at + Len(s) THEN s[i - at] ELSE mem[i]
<1>1. Len(mem) \in Nat /\ Len(s) \in Nat /\ (\A i \in 1 .. Len(mem) : mem[i] \in Nat)
      /\ (\A i \in 1 .. Len(s) : s[i] \in Nat)
  BY SMTT(30)
<1>2. ASSUME NEW i \in 1 .. Len(mem)
      PROVE  i - at \in 1 .. Len(s) <=> at < i /\ i <= at + Len(s)
  BY <1>1, SMTT(30)
<1> QED
  BY <1>1, <1>2, SMTT(30) DEF Put

(* Memory that is not written yet.                                         *)
LEMMA BlankFacts ==
    ASSUME NEW n \in Nat
    PROVE  Blank(n) \in Seq(Nat) /\ Len(Blank(n)) = n
<1> QED
  BY SMTT(30) DEF Blank, Uninit

(* A new allocation begins with what it is made of.                        *)
LEMMA FilledFacts ==
    ASSUME NEW n \in Nat, NEW s \in Seq(Nat), Len(s) <= n
    PROVE  /\ Put(Blank(n), 0, s) \in Seq(Nat) /\ Len(Put(Blank(n), 0, s)) = n
           /\ \A i \in 1 .. Len(s) : Put(Blank(n), 0, s)[i] = s[i]
<1>1. Blank(n) \in Seq(Nat) /\ Len(Blank(n)) = n
  BY BlankFacts
<1>2. 0 \in Nat
  OBVIOUS
<1> DEFINE m == Blank(n)
           p == Put(m, 0, s)
<1> HIDE DEF m
<1>3. p \in Seq(Nat) /\ Len(p) = Len(m)
      /\ \A i \in 1 .. Len(m) : p[i] = IF 0 < i /\ i <= 0 + Len(s) THEN s[i - 0] ELSE m[i]
  BY <1>1, <1>2, PutFacts DEF m
<1> HIDE DEF p
<1>4. ASSUME NEW i \in 1 .. Len(s) PROVE p[i] = s[i]
  <2>1. i \in 1 .. Len(m) /\ 0 < i /\ i <= 0 + Len(s) /\ i - 0 = i
    BY <1>1, SMTT(30) DEF m
  <2> QED
    BY <1>3, <2>1
<1> QED
  BY <1>1, <1>3, <1>4 DEF p, m

(* Texts of the same length and with the same bytes.                       *)
LEMMA SameText ==
    ASSUME NEW s \in Seq(Nat), NEW t \in Seq(Nat), Len(s) = Len(t), \A i \in 1 .. Len(t) : s[i] = t[i]
    PROVE  s = t
<1> QED
  BY SMTT(30)

(* The n bytes behind the first m.                                         *)
LEMMA SliceFacts ==
    ASSUME NEW s \in Seq(Nat), NEW m \in Nat, NEW n \in Nat, m + n <= Len(s)
    PROVE  /\ SubSeq(s, m + 1, m + n) \in Seq(Nat) /\ Len(SubSeq(s, m + 1, m + n)) = n
           /\ \A i \in 1 .. n : SubSeq(s, m + 1, m + n)[i] = s[m + i]
<1>1. SubSeq(s, m + 1, m + n) \in Seq(Nat)
  BY SMTT(30)
<1>2. Len(SubSeq(s, m + 1, m + n)) = n
  BY SMTT(30)
<1>3. \A i \in 1 .. n : SubSeq(s, m + 1, m + n)[i] = s[m + i]
  BY SMTT(30)
<1> QED
  BY <1>1, <1>2, <1>3

(* A window is the text it shows.                                          *)
LEMMA WindowFacts ==
    ASSUME NEW bl, NEW me \in Place, bl[me.b] \in Allocation, Fitted(me, bl[me.b]),
           NEW s \in Seq(Nat), Shown(me, bl[me.b], s)
    PROVE  Window(bl, me) = s
<1> DEFINE mem == bl[me.b].mem
<1>1. /\ mem \in Seq(Nat) /\ me.off \in Nat /\ me.len \in Nat /\ me.cap \in Nat /\ Len(mem) \in Nat
      /\ me.len <= me.cap /\ me.off + me.cap <= Len(mem)
  BY SMTT(30) DEF Place, Allocation, Fitted
<1>2. Len(s) = me.len /\ \A i \in 1 .. me.len : s[i] = mem[me.off + i]
  BY DEF Shown
<1> HIDE DEF mem
<1>3. me.off + me.len <= Len(mem)
  BY <1>1, SMTT(30)
<1> DEFINE w == SubSeq(mem, me.off + 1, me.off + me.len)
<1>4. w \in Seq(Nat) /\ Len(w) = me.len /\ \A i \in 1 .. me.len : w[i] = mem[me.off + i]
  BY <1>1, <1>3, SliceFacts
<1> HIDE DEF w
<1>5. w = s
  BY <1>2, <1>4, SameText
<1> QED
  BY <1>5 DEF w, mem, Window

(* Parts of a text, and a text made longer.                                *)
LEMMA TextFacts ==
    ASSUME NEW s \in Seq(Nat)
    PROVE  /\ \A n \in 0 .. Len(s) :
                 /\ SubSeq(s, 1, n) \in Seq(Nat) /\ Len(SubSeq(s, 1, n)) = n
                 /\ \A i \in 1 .. n : SubSeq(s, 1, n)[i] = s[i]
           /\ \A n \in 0 .. Len(s) :
                 /\ SubSeq(s, n + 1, Len(s)) \in Seq(Nat) /\ Len(SubSeq(s, n + 1, Len(s))) = Len(s) - n
                 /\ \A i \in 1 .. Len(s) - n : SubSeq(s, n + 1, Len(s))[i] = s[n + i]
           /\ Len(s) \in Nat
<1>1. ASSUME NEW n \in 0 .. Len(s)
      PROVE  /\ SubSeq(s, 1, n) \in Seq(Nat) /\ Len(SubSeq(s, 1, n)) = n
             /\ \A i \in 1 .. n : SubSeq(s, 1, n)[i] = s[i]
  BY SMTT(30)
<1>2. ASSUME NEW n \in 0 .. Len(s)
      PROVE  /\ SubSeq(s, n + 1, Len(s)) \in Seq(Nat) /\ Len(SubSeq(s, n + 1, Len(s))) = Len(s) - n
             /\ \A i \in 1 .. Len(s) - n : SubSeq(s, n + 1, Len(s))[i] = s[n + i]
  BY SMTT(30)
<1>3. Len(s) \in Nat
  BY SMTT(30)
<1> QED
  BY <1>1, <1>2, <1>3

(* original_capacity_from_repr gives a capacity.                           *)
LEMMA OriginalCapacity ==
    ASSUME NEW repr \in Reprs
    PROVE  original_capacity_from_repr(repr) \in Nat
<1>1. CASE repr = 0
  BY <1>1 DEF original_capacity_from_repr
<1>2. CASE repr # 0
  <2>1. repr + MIN_ORIGINAL_CAPACITY_WIDTH - 1 \in 0 .. MAX_ORIGINAL_CAPACITY_WIDTH
    BY <1>2, WidthAssumption, SMTT(30) DEF Reprs
  <2> QED
    BY <1>2, <2>1, WidthAssumption DEF original_capacity_from_repr
<1> QED
  BY <1>1, <1>2

(* The handle of a Vec, with its data at the front.                        *)
IsVec(me, b, len, cap) ==
    /\ me.kind = "vec" /\ me.b = b /\ me.off = 0 /\ me.pos = 0 /\ me.len = len /\ me.cap = cap

(* from_vec makes one, as a BytesMut.                                      *)
LEMMA FromVec ==
    ASSUME SizeLaws, NEW b \in Blocks, NEW len \in Nat, NEW cap \in Nat
    PROVE  /\ from_vec(b, len, cap) \in Place /\ IsVec(from_vec(b, len, cap), b, len, cap)
           /\ from_vec(b, len, cap).mode = "mut"
           /\ \A repr \in Reprs :
                 /\ [from_vec(b, len, cap) EXCEPT !.orig = repr] \in Place
                 /\ IsVec([from_vec(b, len, cap) EXCEPT !.orig = repr], b, len, cap)
           /\ [from_vec(b, len, cap) EXCEPT !.mode = "frozen"] \in Place
           /\ IsVec([from_vec(b, len, cap) EXCEPT !.mode = "frozen"], b, len, cap)
<1> DEFINE q == original_capacity_to_repr(cap)
<1>1. q \in Reprs
  BY DEF SizeLaws
<1>2. from_vec(b, len, cap) = [mode |-> "mut", kind |-> "vec", b |-> b, off |-> 0, pos |-> 0,
                               len |-> len, cap |-> cap, orig |-> q]
  BY DEF from_vec
<1> HIDE DEF q
<1> QED
  BY <1>1, <1>2, SMTT(30) DEF Place, IsVec

(* The bytes of a handle copied to a new allocation, and the old one       *)
(* released: reserve, to_vec and to_mut of a shared handle.                *)
LEMMA CopiesOut ==
    ASSUME SizeLaws, NEW hs, NEW bl, NEW tx, Consistent(hs, bl, tx), NEW h \in Handles,
           hs[h] # NoHandle, hs[h].kind = "arc", NEW b \in Blocks, On(hs, b) = {},
           NEW cap \in Nat, hs[h].len <= cap, NEW me \in Place, IsVec(me, b, hs[h].len, cap)
    PROVE  Consistent([hs EXCEPT ![h] = me],
                      release_shared(Allocate(bl, b, Window(bl, hs[h]), cap), hs[h].b),
                      [tx EXCEPT ![h] = tx[h]])
<1> DEFINE w == tx[h]
           c == hs[h].b
           a == [cap |-> cap, mem |-> Put(Blank(cap), 0, w), ref_count |-> 0, orig |-> 0]
           hs1 == [hs EXCEPT ![h] = NoHandle]
           bl1 == release_shared(bl, c)
           tx1 == [tx EXCEPT ![h] = w]
<1>1. /\ hs[h] \in Place /\ c \in Blocks /\ bl[c] \in Allocation /\ Fitted(hs[h], bl[c])
      /\ Shown(hs[h], bl[c], w) /\ w \in Seq(Nat) /\ h \in On(hs, c)
  BY HandleFacts
<1>2. Window(bl, hs[h]) = w /\ Len(w) = hs[h].len
  BY <1>1, WindowFacts DEF Shown
<1>3. b # c
  BY <1>1
<1>4. a \in Allocation /\ a.ref_count \in {0, 1} /\ Fitted(me, a) /\ Shown(me, a, w)
  <2> DEFINE m == Put(Blank(cap), 0, w)
  <2>1. m \in Seq(Nat) /\ Len(m) = cap /\ \A i \in 1 .. Len(w) : m[i] = w[i]
    BY <1>1, <1>2, FilledFacts
  <2>2. 0 \in Reprs
    BY WidthAssumption, SMTT(30) DEF Reprs
  <2>3. a = [cap |-> cap, mem |-> m, ref_count |-> 0, orig |-> 0]
    OBVIOUS
  <2> HIDE DEF m, a
  <2>4. /\ a \in Allocation /\ a.ref_count = 0 /\ a.cap = cap /\ a.mem = m
    BY <2>1, <2>2, <2>3, SMTT(30) DEF Allocation
  <2>5. Fitted(me, a)
    BY <2>4, SMTT(30) DEF Fitted, IsVec
  <2>6. hs[h].len \in Nat
    BY <1>1 DEF Place
  <2>7. Shown(me, a, w)
    BY <1>2, <2>1, <2>4, <2>6, SMTT(30) DEF Shown, IsVec
  <2> QED
    BY <2>4, <2>5, <2>7
<1>5. release_shared(Allocate(bl, b, Window(bl, hs[h]), cap), c) = [bl1 EXCEPT ![b] = a]
  <2>1. Allocate(bl, b, Window(bl, hs[h]), cap) = [bl EXCEPT ![b] = a]
    BY <1>2 DEF Allocate
  <2>2. bl \in [Blocks -> Allocation]
    BY DEF Consistent
  <2> HIDE DEF a, c
  <2> DEFINE x == IF bl[c].ref_count # 1 THEN [bl[c] EXCEPT !.ref_count = @ - 1] ELSE Free
             bl2 == [bl EXCEPT ![b] = a]
  <2>3. bl2[c] = bl[c]
    BY <1>1, <1>3, <2>2
  <2>4. bl1 = [bl EXCEPT ![c] = x]
    BY <1>1, <2>2 DEF release_shared
  <2>5. release_shared(bl2, c) = [bl2 EXCEPT ![c] = x]
    <3> HIDE DEF bl2
    <3> QED
      BY <2>3 DEF release_shared
  <2> HIDE DEF x
  <2>6. [bl2 EXCEPT ![c] = x] = [[bl EXCEPT ![c] = x] EXCEPT ![b] = a]
    BY <1>1, <1>3, <2>2
  <2> QED
    BY <2>1, <2>4, <2>5, <2>6
<1> HIDE DEF a, w, c
<1>6. Consistent(hs1, bl1, tx1)
  <2>1. drop(bl, hs[h]) = bl1
    BY DEF drop, c
  <2>2. Consistent(hs1, drop(bl, hs[h]), tx1)
    BY <1>1, Drops
  <2> QED
    BY <2>1, <2>2
<1>7. hs1[h] = NoHandle /\ Others(hs1, h, b) = {}
  <2>1. hs \in [Handles -> {NoHandle} \cup Place]
    BY DEF Consistent
  <2> QED
    BY <2>1 DEF Others, On
<1>8. [hs1 EXCEPT ![h] = me] = [hs EXCEPT ![h] = me] /\ [tx1 EXCEPT ![h] = w] = [tx EXCEPT ![h] = w]
  OBVIOUS
<1>9. me.b = b
  BY DEF IsVec
<1> HIDE DEF hs1, bl1, tx1
<1>10. Consistent([hs1 EXCEPT ![h] = me], [bl1 EXCEPT ![b] = a], [tx1 EXCEPT ![h] = w])
  BY <1>1, <1>4, <1>6, <1>7, <1>9, Alone
<1> QED
  BY <1>5, <1>8, <1>10 DEF w, c

(* An allocation with other memory.                                        *)
LEMMA OtherMemory ==
    ASSUME NEW old \in Allocation, NEW m \in Seq(Nat)
    PROVE  LET a == [old EXCEPT !.cap = Len(m), !.mem = m]
               c == [old EXCEPT !.mem = m]
           IN  /\ a \in Allocation /\ a.cap = Len(m) /\ a.mem = m
               /\ a.ref_count = old.ref_count /\ a.orig = old.orig
               /\ Len(m) = old.cap => c = a
<1> DEFINE R == [cap : Nat, mem : Seq(Nat), ref_count : Nat, orig : Reprs]
           n == Len(m)
           a == [old EXCEPT !.cap = n, !.mem = m]
<1>1. old \in R /\ n \in Nat
  BY SMTT(30) DEF Allocation
<1> HIDE DEF n
<1>2. a \in R /\ a.cap = n /\ a.mem = m /\ a.ref_count = old.ref_count /\ a.orig = old.orig
  BY <1>1
<1>3. n = old.cap => [old EXCEPT !.mem = m] = a
  BY <1>1
<1> HIDE DEF a
<1>4. a \in Allocation
  BY <1>2 DEF Allocation, n
<1> QED
  BY <1>2, <1>3, <1>4 DEF a, n

(* An allocation made larger, its first len bytes as they were.            *)
Grows(old, a, len) ==
    /\ a \in Allocation /\ a.ref_count = old.ref_count /\ a.orig = old.orig /\ old.cap <= a.cap
    /\ \A i \in 1 .. len : a.mem[i] = old.mem[i]

Reallocated(bl, b, len, additional, bl2) ==
    bl2 = [bl EXCEPT ![b] = bl2[b]] /\ Grows(bl[b], bl2[b], len) /\ len + additional <= bl2[b].cap

(* Vec::reserve keeps the first len bytes and has room for additional.     *)
LEMMA VecReserveFacts ==
    ASSUME NEW bl \in [Blocks -> Allocation], NEW b \in Blocks, NEW len \in Nat, NEW additional \in Nat,
           len <= bl[b].cap
    PROVE  Reallocated(bl, b, len, additional, VecReserve(bl, b, len, additional))
<1> DEFINE old == bl[b]
           cap == Larger(2 * old.cap, len + additional)
           m == Put(Blank(cap), 0, SubSeq(old.mem, 1, len))
           v == VecReserve(bl, b, len, additional)
<1>1. old \in Allocation /\ old.cap \in Nat /\ old.mem \in Seq(Nat) /\ Len(old.mem) = old.cap
  BY DEF Allocation
<1>2. CASE old.cap - len >= additional
  <2>1. v = bl /\ v[b] = old
    BY <1>2 DEF VecReserve
  <2>2. bl = [bl EXCEPT ![b] = old]
    OBVIOUS
  <2>3. len + additional <= old.cap /\ old.cap <= old.cap
    BY <1>1, <1>2, SMTT(30)
  <2>4. Grows(old, old, len)
    BY <1>1, <2>3 DEF Grows
  <2> HIDE DEF v
  <2>5. Reallocated(bl, b, len, additional, v)
    BY <2>1, <2>2, <2>3, <2>4 DEF Reallocated
  <2> QED
    BY <2>5 DEF v
<1>3. CASE ~(old.cap - len >= additional)
  <2> DEFINE a == [old EXCEPT !.cap = cap, !.mem = m]
  <2>1. v = [bl EXCEPT ![b] = a] /\ v[b] = a
    BY <1>3 DEF VecReserve
  <2>2. cap \in Nat /\ old.cap <= cap /\ len + additional <= cap /\ len <= cap
    BY <1>1, SMTT(30) DEF Larger
  <2> DEFINE p == SubSeq(old.mem, 1, len)
  <2>3. p \in Seq(Nat) /\ Len(p) = len /\ \A i \in 1 .. len : p[i] = old.mem[i]
    <3>1. len \in 0 .. Len(old.mem)
      BY <1>1, SMTT(30)
    <3> QED
      BY <1>1, <3>1, TextFacts
  <2> HIDE DEF p, cap, old
  <2>4. m \in Seq(Nat) /\ Len(m) = cap /\ \A i \in 1 .. len : m[i] = p[i]
    <3>1. /\ Put(Blank(cap), 0, p) \in Seq(Nat) /\ Len(Put(Blank(cap), 0, p)) = cap
          /\ \A i \in 1 .. Len(p) : Put(Blank(cap), 0, p)[i] = p[i]
      BY <2>2, <2>3, FilledFacts
    <3> QED
      BY <2>3, <3>1 DEF p
  <2> HIDE DEF m
  <2>5. a \in Allocation /\ a.ref_count = old.ref_count /\ a.orig = old.orig /\ a.cap = cap /\ a.mem = m
    <3> DEFINE c == [old EXCEPT !.cap = Len(m), !.mem = m]
    <3>1. c = a
      BY <2>4
    <3>2. c \in Allocation /\ c.ref_count = old.ref_count /\ c.orig = old.orig /\ c.cap = Len(m) /\ c.mem = m
      BY <1>1, <2>4, OtherMemory
    <3> HIDE DEF a, c
    <3> QED
      BY <2>4, <3>1, <3>2
  <2> HIDE DEF a
  <2>6. Grows(old, a, len)
    BY <2>2, <2>3, <2>4, <2>5 DEF Grows
  <2> HIDE DEF v
  <2>7. Reallocated(bl, b, len, additional, v)
    BY <2>1, <2>2, <2>5, <2>6 DEF Reallocated, old
  <2> QED
    BY <2>7 DEF v
<1> QED
  BY <1>2, <1>3

(* The bytes of a handle at the front of its allocation.                   *)
Fronted(old, s) == [old EXCEPT !.mem = Put(@, 0, s)]
Moved(bl, me, s, a) ==
    /\ MoveToFront(bl, me) = [bl EXCEPT ![me.b] = a]
    /\ a \in Allocation /\ a.cap = bl[me.b].cap /\ a.ref_count = bl[me.b].ref_count
    /\ \A i \in 1 .. me.len : a.mem[i] = s[i]

(* MoveToFront puts them there.                                            *)
LEMMA FrontFacts ==
    ASSUME NEW bl \in [Blocks -> Allocation], NEW me \in Place, Fitted(me, bl[me.b]),
           NEW s \in Seq(Nat), Shown(me, bl[me.b], s)
    PROVE  Moved(bl, me, s, Fronted(bl[me.b], s))
<1> DEFINE old == bl[me.b]
           a == Fronted(old, s)
           m == Put(old.mem, 0, s)
<1>1. me.b \in Blocks /\ old \in Allocation /\ old.cap \in Nat /\ old.mem \in Seq(Nat) /\ Len(old.mem) = old.cap
  BY DEF Allocation, Place
<1>2. Window(bl, me) = s /\ Len(s) = me.len
  BY <1>1, WindowFacts DEF Shown
<1>3. MoveToFront(bl, me) = [bl EXCEPT ![me.b] = a]
  BY <1>2 DEF MoveToFront, Fronted
<1>4. me.len \in Nat /\ me.len <= old.cap
  <2>1. me.len \in Nat /\ me.cap \in Nat /\ me.off \in Nat /\ me.len <= me.cap /\ me.off + me.cap <= old.cap
    BY DEF Place, Fitted
  <2> QED
    BY <1>1, <2>1, SMTT(30)
<1> HIDE DEF old
<1>5. /\ m \in Seq(Nat) /\ Len(m) = old.cap
      /\ \A i \in 1 .. Len(old.mem) : m[i] = IF 0 < i /\ i <= 0 + Len(s) THEN s[i - 0] ELSE old.mem[i]
  <2>1. 0 \in Nat
    OBVIOUS
  <2> QED
    BY <1>1, <2>1, PutFacts
<1> HIDE DEF m
<1>6. ASSUME NEW i \in 1 .. me.len PROVE m[i] = s[i]
  <2>1. i \in 1 .. Len(old.mem) /\ 0 < i /\ i <= 0 + Len(s) /\ i - 0 = i
    BY <1>1, <1>2, <1>4, SMTT(30)
  <2> QED
    BY <1>5, <2>1
<1>7. a \in Allocation /\ a.cap = old.cap /\ a.ref_count = old.ref_count /\ a.orig = old.orig /\ a.mem = m
  <2>1. a = [old EXCEPT !.mem = m]
    BY DEF Fronted, m
  <2> DEFINE c == [old EXCEPT !.cap = Len(m), !.mem = m]
  <2>2. /\ c \in Allocation /\ c.ref_count = old.ref_count /\ c.orig = old.orig /\ c.cap = Len(m) /\ c.mem = m
        /\ Len(m) = old.cap => [old EXCEPT !.mem = m] = c
    BY <1>1, <1>5, OtherMemory
  <2> HIDE DEF a, c
  <2> QED
    BY <1>5, <2>1, <2>2
<1> HIDE DEF a
<1>8. \A i \in 1 .. me.len : a.mem[i] = s[i]
  BY <1>6, <1>7
<1>9. Moved(bl, me, s, a)
  BY <1>3, <1>7, <1>8 DEF Moved, old
<1> QED
  BY <1>9 DEF old, a

-----------------------------------------------------------------------------
(* Operations on one handle.                                               *)

(* The outcome r of a part of an operation on handle h, which now shows s. *)
Leads(hs, tx, h, r, s) ==
    Consistent([hs EXCEPT ![h] = r.me], r.bl, [tx EXCEPT ![h] = s])

(* A part f of the window of me, and what it shows of the text s.          *)
Part(f, me) ==
    /\ f.b = me.b /\ f.kind = me.kind /\ (f.mode = me.mode \/ f.mode = "frozen")
    /\ me.off <= f.off /\ f.off + f.cap <= me.off + me.cap /\ f.len <= f.cap
    /\ f.mode = "frozen" => f.off + f.len <= me.off + me.len
    /\ f.kind = "vec" => /\ f.off + f.cap = me.off + me.cap
                         /\ f.mode = "mut" => f.pos = f.off
Excerpt(t, f, me, s) ==
    /\ Len(t) = f.len
    /\ \A i \in 1 .. f.len : f.off - me.off + i \in 1 .. me.len /\ t[i] = s[f.off - me.off + i]

(* A part of a window that fits its allocation fits it too.                *)
LEMMA PartFacts ==
    ASSUME NEW me \in Place, NEW f \in Place, NEW a \in Allocation, NEW s, NEW t,
           Fitted(me, a), Shown(me, a, s), Part(f, me), Excerpt(t, f, me, s)
    PROVE  Inside(f, me) /\ Fitted(f, a) /\ Shown(f, a, t)
<1>1. /\ me.off \in Nat /\ me.len \in Nat /\ me.cap \in Nat /\ f.off \in Nat /\ f.len \in Nat
      /\ f.cap \in Nat /\ a.cap \in Nat
      /\ f.mode \in {"mut", "frozen"} /\ me.mode \in {"mut", "frozen"}
  BY DEF Place, Allocation
<1>2. Fitted(f, a)
  BY <1>1, SMTT(30) DEF Fitted, Part
<1>3. me.len <= me.cap /\ f.len <= f.cap /\ me.off <= f.off /\ f.off + f.cap <= me.off + me.cap
  BY DEF Part, Fitted
<1>4. f.off + Extent(f) <= me.off + Extent(me)
  <2>1. CASE f.mode = "frozen"
    <3>1. Extent(f) = f.len /\ (Extent(me) = me.len \/ Extent(me) = me.cap) /\ f.off + f.len <= me.off + me.len
      BY <1>1, <2>1 DEF Extent, Part
    <3> QED
      BY <1>1, <1>3, <3>1, SMTT(30)
  <2>2. CASE f.mode # "frozen"
    <3>1. Extent(f) = f.cap /\ Extent(me) = me.cap
      BY <1>1, <2>2 DEF Extent, Part
    <3> QED
      BY <1>3, <3>1
  <2> QED
    BY <2>1, <2>2
<1>5. Inside(f, me)
  BY <1>4 DEF Inside, Part
<1>6. ASSUME NEW i \in 1 .. f.len PROVE t[i] = a.mem[f.off + i]
  <2>1. f.off - me.off + i \in 1 .. me.len /\ t[i] = s[f.off - me.off + i]
    BY DEF Excerpt
  <2>2. me.off + (f.off - me.off + i) = f.off + i
    BY <1>1, <1>3, SMTT(30)
  <2>3. s[f.off - me.off + i] = a.mem[me.off + (f.off - me.off + i)]
    BY <2>1 DEF Shown
  <2> QED
    BY <2>1, <2>2, <2>3
<1> QED
  BY <1>2, <1>5, <1>6 DEF Shown, Excerpt

(* A handle narrowed, and nothing else changed.                            *)
LEMMA Narrows ==
    ASSUME NEW hs, NEW bl, NEW tx, Consistent(hs, bl, tx), NEW h \in Handles, hs[h] # NoHandle,
           NEW f \in Place, Part(f, hs[h]), NEW t \in Seq(Nat), Excerpt(t, f, hs[h], tx[h])
    PROVE  Consistent([hs EXCEPT ![h] = f], bl, [tx EXCEPT ![h] = t])
<1>1. /\ hs[h] \in Place /\ bl[hs[h].b] \in Allocation /\ Fitted(hs[h], bl[hs[h].b]) /\ hs[h].b \in Blocks
      /\ Shown(hs[h], bl[hs[h].b], tx[h])
  BY HandleFacts
<1>2. Inside(f, hs[h]) /\ Fitted(f, bl[hs[h].b]) /\ Shown(f, bl[hs[h].b], t) /\ f.b = hs[h].b
  BY <1>1, PartFacts DEF Part
<1>3. Writes(hs[h], bl[hs[h].b], bl[hs[h].b])
  BY <1>1 DEF Writes
<1>4. [bl EXCEPT ![hs[h].b] = bl[hs[h].b]] = bl
  BY <1>1 DEF Consistent
<1>5. Consistent([hs EXCEPT ![h] = f], [bl EXCEPT ![f.b] = bl[hs[h].b]], [tx EXCEPT ![h] = t])
  BY <1>2, <1>3, Restates
<1> QED
  BY <1>2, <1>4, <1>5

(* A Vec counted once as an Arc, and otherwise as it was.                  *)
Promoted(hs, bl, tx, h, p) ==
    /\ Leads(hs, tx, h, p, tx[h])
    /\ p.me \in Place /\ p.me.kind = "arc" /\ p.me.mode = hs[h].mode /\ p.me.b = hs[h].b
    /\ p.me.off = hs[h].off /\ p.me.len = hs[h].len /\ p.me.cap = hs[h].cap
    /\ p.bl = [bl EXCEPT ![hs[h].b].ref_count = 1, ![hs[h].b].orig = hs[h].orig]

(* promote_to_shared with a count of one.                                  *)
LEMMA Promotes ==
    ASSUME SizeLaws, NEW hs, NEW bl, NEW tx, Consistent(hs, bl, tx), NEW h \in Handles,
           hs[h] # NoHandle, hs[h].kind = "vec"
    PROVE  Promoted(hs, bl, tx, h, promote_to_shared(bl, hs[h], 1))
<1> DEFINE me == hs[h]
           old == bl[me.b]
           a == [old EXCEPT !.ref_count = 1, !.orig = me.orig]
           m2 == [me EXCEPT !.kind = "arc", !.pos = 0, !.orig = 0]
<1>1. /\ me \in Place /\ old \in Allocation /\ Fitted(me, old) /\ me.b \in Blocks
      /\ Shown(me, old, tx[h]) /\ tx[h] \in Seq(Nat) /\ Others(hs, h, me.b) = {}
  BY HandleFacts, OnlyHandle DEF is_unique
<1>2. 0 \in Reprs /\ 0 \in Nat /\ 1 \in Nat /\ me.orig \in Reprs /\ 1 # 0
  <2>1. 0 \in Reprs /\ 1 # 0
    BY WidthAssumption, SMTT(30) DEF Reprs
  <2> QED
    BY <1>1, <2>1 DEF Place
<1>3. promote_to_shared(bl, me, 1) = Both([bl EXCEPT ![me.b] = a], m2)
  BY <1>1 DEF promote_to_shared, Consistent
<1> HIDE DEF old, me
<1>4. /\ a \in Allocation /\ a.ref_count = 1 /\ a.cap = old.cap /\ a.mem = old.mem
  BY <1>1, <1>2 DEF Allocation
<1>5. /\ m2 \in Place /\ m2.kind = "arc" /\ m2.mode = me.mode /\ m2.b = me.b /\ m2.off = me.off
      /\ m2.len = me.len /\ m2.cap = me.cap
  BY <1>1, <1>2 DEF Place
<1> HIDE DEF a, m2
<1>6. Fitted(m2, a) /\ Shown(m2, a, tx[h])
  BY <1>1, <1>2, <1>4, <1>5 DEF Fitted, Shown
<1>7. Consistent([hs EXCEPT ![h] = m2], [bl EXCEPT ![me.b] = a], [tx EXCEPT ![h] = tx[h]])
  BY <1>1, <1>4, <1>5, <1>6, Alone DEF me
<1>8. [bl EXCEPT ![me.b] = a] = [bl EXCEPT ![hs[h].b].ref_count = 1, ![hs[h].b].orig = hs[h].orig]
  BY <1>1 DEF me, a, old, Consistent
<1> DEFINE p == promote_to_shared(bl, hs[h], 1)
<1>9. p.bl = [bl EXCEPT ![me.b] = a] /\ p.me = m2
  <2> DEFINE x == [bl EXCEPT ![me.b] = a]
  <2>1. p = Both(x, m2)
    BY <1>3 DEF me
  <2> HIDE DEF p, x
  <2>2. p.bl = x /\ p.me = m2
    BY <2>1, SMTT(30) DEF Both
  <2> QED
    BY <2>2 DEF x
<1> HIDE DEF p
<1>10. Leads(hs, tx, h, p, tx[h])
  BY <1>7, <1>9 DEF Leads
<1>11. Promoted(hs, bl, tx, h, p)
  BY <1>5, <1>8, <1>9, <1>10 DEF Promoted, me
<1> QED
  BY <1>11 DEF p

(* Forward, and the cut of a window: fields.                               *)
LEMMA ForwardFacts ==
    ASSUME NEW me \in Place, NEW count \in 0 .. me.cap
    PROVE  LET f == Forward(me, count) IN
           /\ f \in Place /\ f.b = me.b /\ f.kind = me.kind /\ f.mode = me.mode /\ f.pos = me.pos
           /\ f.off = me.off + count /\ f.len = (IF me.len < count THEN 0 ELSE me.len - count)
           /\ f.cap = me.cap - count
<1> DEFINE off == me.off + count
           len == IF me.len < count THEN 0 ELSE me.len - count
           cap == me.cap - count
<1>1. off \in Nat /\ len \in Nat /\ cap \in Nat
  <2>1. me.off \in Nat /\ me.len \in Nat /\ me.cap \in Nat
    BY DEF Place
  <2> QED
    BY <2>1, SMTT(30)
<1>2. Forward(me, count) = [me EXCEPT !.off = off, !.len = len, !.cap = cap]
  BY DEF Forward
<1> HIDE DEF off, len, cap
<1>3. /\ [me EXCEPT !.off = off, !.len = len, !.cap = cap] \in Place
  BY <1>1 DEF Place
<1>4. LET f == [me EXCEPT !.off = off, !.len = len, !.cap = cap] IN
      /\ f.b = me.b /\ f.kind = me.kind /\ f.mode = me.mode /\ f.pos = me.pos
      /\ f.off = off /\ f.len = len /\ f.cap = cap
  BY DEF Place
<1> DEFINE f == Forward(me, count)
<1>5. /\ f \in Place /\ f.b = me.b /\ f.kind = me.kind /\ f.mode = me.mode /\ f.pos = me.pos
      /\ f.off = off /\ f.len = len /\ f.cap = cap
  BY <1>2, <1>3, <1>4
<1> HIDE DEF f
<1> QED
  BY <1>5 DEF f, off, len, cap

(* The end of a window, from count on.                                     *)
LEMMA EndFacts ==
    ASSUME NEW me \in Place, NEW a \in Allocation, NEW s \in Seq(Nat), Fitted(me, a), Shown(me, a, s),
           NEW count \in 0 .. me.cap, NEW f \in Place, f.b = me.b, f.kind = me.kind, f.mode = me.mode,
           f.off = me.off + count, f.len = (IF me.len < count THEN 0 ELSE me.len - count),
           f.cap = me.cap - count, f.mode = "frozen" => count <= me.len,
           f.kind = "vec" /\ f.mode = "mut" => f.pos = me.pos + count,
           NEW n \in Nat, n = Smaller(count, me.len)
    PROVE  /\ Part(f, me) /\ SubSeq(s, n + 1, Len(s)) \in Seq(Nat)
           /\ Excerpt(SubSeq(s, n + 1, Len(s)), f, me, s)
<1>1. /\ me.off \in Nat /\ me.len \in Nat /\ me.cap \in Nat /\ me.pos \in Nat /\ me.len <= me.cap
      /\ me.kind = "vec" /\ me.mode = "mut" => me.pos = me.off
      /\ Len(s) = me.len
  BY DEF Place, Fitted, Shown
<1>2. Part(f, me)
  <2>1. ASSUME NEW off \in Nat, NEW len \in Nat, NEW cap \in Nat, len <= cap, count \in 0 .. cap
        PROVE  /\ off <= off + count /\ off + count + (cap - count) = off + cap
               /\ off + cap <= off + cap
               /\ (IF len < count THEN 0 ELSE len - count) <= cap - count
               /\ count <= len => off + count + (IF len < count THEN 0 ELSE len - count) <= off + len
    BY <2>1, SMTT(30)
  <2>2. LET off == me.off
            len == me.len
            cap == me.cap
        IN  /\ off <= off + count /\ off + count + (cap - count) = off + cap
            /\ off + cap <= off + cap
            /\ (IF len < count THEN 0 ELSE len - count) <= cap - count
            /\ count <= len => off + count + (IF len < count THEN 0 ELSE len - count) <= off + len
    BY <1>1, <2>1
  <2>3. /\ me.off <= f.off /\ f.off + f.cap = me.off + me.cap /\ f.off + f.cap <= me.off + me.cap
        /\ f.len <= f.cap /\ (count <= me.len => f.off + f.len <= me.off + me.len)
    BY <2>2
  <2> QED
    BY <1>1, <2>3 DEF Part
<1>3. n \in 0 .. Len(s) /\ f.len = me.len - n /\ (f.len # 0 => n = count)
  BY <1>1, SMTT(30) DEF Smaller
<1> DEFINE t == SubSeq(s, n + 1, Len(s))
<1>4. t \in Seq(Nat) /\ Len(t) = me.len - n /\ \A i \in 1 .. Len(s) - n : t[i] = s[n + i]
  BY <1>1, <1>3, TextFacts
<1> HIDE DEF t
<1>5. ASSUME NEW i \in 1 .. f.len
      PROVE  f.off - me.off + i \in 1 .. me.len /\ t[i] = s[f.off - me.off + i]
  <2>1. f.off - me.off + i = n + i /\ n + i \in 1 .. me.len /\ i \in 1 .. Len(s) - n
    BY <1>1, <1>3, SMTT(30)
  <2> QED
    BY <1>4, <2>1
<1> QED
  BY <1>2, <1>3, <1>4, <1>5 DEF Excerpt, t

(* The beginning of a window, up to at, with what is there of its text.    *)
LEMMA BeginFacts ==
    ASSUME NEW me \in Place, NEW a \in Allocation, NEW s \in Seq(Nat), Fitted(me, a), Shown(me, a, s),
           NEW n \in 0 .. me.len, NEW f \in Place, f.b = me.b, f.kind = me.kind, f.mode = me.mode,
           f.off = me.off, f.len = n, n <= f.cap, f.cap <= me.cap,
           f.kind = "vec" => f.cap = me.cap /\ f.pos = me.pos
    PROVE  /\ Part(f, me) /\ SubSeq(s, 1, n) \in Seq(Nat) /\ Excerpt(SubSeq(s, 1, n), f, me, s)
<1>1. /\ me.off \in Nat /\ me.len \in Nat /\ me.cap \in Nat /\ me.pos \in Nat /\ me.len <= me.cap
      /\ me.kind = "vec" /\ me.mode = "mut" => me.pos = me.off
      /\ Len(s) = me.len /\ f.cap \in Nat
  BY DEF Place, Fitted, Shown
<1>2. Part(f, me)
  BY <1>1, SMTT(30) DEF Part
<1> DEFINE t == SubSeq(s, 1, n)
<1>3. t \in Seq(Nat) /\ Len(t) = n /\ \A i \in 1 .. n : t[i] = s[i]
  BY <1>1, TextFacts
<1> HIDE DEF t
<1>4. ASSUME NEW i \in 1 .. f.len
      PROVE  f.off - me.off + i \in 1 .. me.len /\ t[i] = s[f.off - me.off + i]
  <2>1. f.off - me.off + i = i /\ i \in 1 .. me.len /\ i \in 1 .. n
    BY <1>1, SMTT(30)
  <2> QED
    BY <1>3, <2>1
<1> QED
  BY <1>2, <1>3, <1>4 DEF Excerpt, t

(* Forward: a handle gives up the first count bytes of its window.         *)
LEMMA GoesForward ==
    ASSUME NEW hs, NEW bl, NEW tx, Consistent(hs, bl, tx), NEW h \in Handles, hs[h] # NoHandle,
           NEW count \in 0 .. hs[h].len, NEW m \in Place,
           m.b = hs[h].b, m.kind = hs[h].kind, m.mode = hs[h].mode, m.off = hs[h].off,
           m.len = hs[h].len, m.cap = hs[h].cap,
           m.kind = "vec" /\ m.mode = "mut" => m.pos = hs[h].pos + count
    PROVE  /\ Consistent([hs EXCEPT ![h] = Forward(m, count)], bl,
                         [tx EXCEPT ![h] = SubSeq(tx[h], count + 1, Len(tx[h]))])
           /\ Forward(m, count) \in Place
<1> DEFINE me == hs[h]
           f == Forward(m, count)
           t == SubSeq(tx[h], count + 1, Len(tx[h]))
<1>1. /\ me \in Place /\ bl[me.b] \in Allocation /\ Fitted(me, bl[me.b]) /\ Shown(me, bl[me.b], tx[h])
      /\ tx[h] \in Seq(Nat)
  BY HandleFacts
<1> HIDE DEF me
<1>2. /\ count \in 0 .. me.cap /\ count \in Nat /\ count <= me.len /\ count = Smaller(count, me.len)
  <2>1. me.len \in Nat /\ me.cap \in Nat /\ me.len <= me.cap /\ count \in 0 .. me.len
    BY <1>1 DEF Place, Fitted, me
  <2> QED
    BY <2>1, SMTT(30) DEF Smaller
<1>3. /\ f \in Place /\ f.b = m.b /\ f.kind = m.kind /\ f.mode = m.mode /\ f.pos = m.pos
      /\ f.off = m.off + count /\ f.len = (IF m.len < count THEN 0 ELSE m.len - count)
      /\ f.cap = m.cap - count
  BY <1>2, ForwardFacts DEF me
<1>4. /\ f.b = me.b /\ f.kind = me.kind /\ f.mode = me.mode /\ f.off = me.off + count
      /\ f.len = (IF me.len < count THEN 0 ELSE me.len - count) /\ f.cap = me.cap - count
      /\ f.kind = "vec" /\ f.mode = "mut" => f.pos = me.pos + count
  BY <1>3 DEF me
<1> HIDE DEF f
<1>5. Part(f, me) /\ t \in Seq(Nat) /\ Excerpt(t, f, me, tx[h])
  BY <1>1, <1>2, <1>3, <1>4, EndFacts
<1> HIDE DEF t
<1>6. Consistent([hs EXCEPT ![h] = f], bl, [tx EXCEPT ![h] = t])
  BY <1>3, <1>5, Narrows DEF me
<1> QED
  BY <1>3, <1>6 DEF f, t

(* advance_unchecked: the data word takes the new offset, or the Vec is    *)
(* promoted when the offset does not fit it.                               *)
LEMMA Advances ==
    ASSUME SizeLaws, NEW hs, NEW bl, NEW tx, Consistent(hs, bl, tx), NEW h \in Handles,
           hs[h] # NoHandle, NEW count \in 0 .. hs[h].len
    PROVE  /\ Leads(hs, tx, h, advance_unchecked(bl, hs[h], count), SubSeq(tx[h], count + 1, Len(tx[h])))
           /\ advance_unchecked(bl, hs[h], count).me \in Place
<1> DEFINE me == hs[h]
           r == advance_unchecked(bl, me, count)
           t == SubSeq(tx[h], count + 1, Len(tx[h]))
<1>1. /\ me \in Place /\ bl[me.b] \in Allocation /\ Fitted(me, bl[me.b]) /\ Shown(me, bl[me.b], tx[h])
      /\ tx[h] \in Seq(Nat)
  BY HandleFacts
<1>2. CASE count = 0
  <2>1. r.bl = bl /\ r.me = me
    BY <1>2, SMTT(30) DEF advance_unchecked, Both
  <2>2. t = tx[h]
    BY <1>1, <1>2, SMTT(30)
  <2>3. [hs EXCEPT ![h] = me] = hs /\ [tx EXCEPT ![h] = tx[h]] = tx
    BY DEF Consistent
  <2> HIDE DEF r, t, me
  <2> QED
    BY <1>1, <2>1, <2>2, <2>3 DEF Leads, r, t, me
<1>3. CASE count # 0 /\ me.kind = "vec" /\ me.pos + count > MAX_VEC_POS
  <2> DEFINE p == promote_to_shared(bl, me, 1)
             hs1 == [hs EXCEPT ![h] = p.me]
             tx1 == [tx EXCEPT ![h] = tx[h]]
             f == Forward(p.me, count)
  <2>1. /\ Leads(hs, tx, h, p, tx[h])
        /\ p.me \in Place /\ p.me.kind = "arc" /\ p.me.mode = me.mode /\ p.me.b = me.b
        /\ p.me.off = me.off /\ p.me.len = me.len /\ p.me.cap = me.cap
    <3>1. Promoted(hs, bl, tx, h, p)
      BY <1>3, Promotes
    <3> QED
      BY <3>1 DEF Promoted
  <2>2. r = Both(p.bl, f)
    BY <1>3 DEF advance_unchecked
  <2> HIDE DEF p, r, me
  <2>3. Consistent(hs1, p.bl, tx1)
    BY <2>1 DEF Leads
  <2>4. hs1[h] = p.me /\ tx1[h] = tx[h] /\ p.me # NoHandle
    BY <2>1, Constants DEF Consistent
  <2>5. [hs1 EXCEPT ![h] = f] = [hs EXCEPT ![h] = f] /\ [tx1 EXCEPT ![h] = t] = [tx EXCEPT ![h] = t]
    OBVIOUS
  <2>6. count \in 0 .. p.me.len /\ "arc" # "vec"
    BY <2>1 DEF me
  <2> HIDE DEF hs1, tx1, f
  <2>7. Consistent([hs1 EXCEPT ![h] = f], p.bl, [tx1 EXCEPT ![h] = t]) /\ f \in Place
    <3> DEFINE t1 == SubSeq(tx1[h], count + 1, Len(tx1[h]))
    <3>1. hs1[h] # NoHandle /\ count \in 0 .. hs1[h].len
      BY <2>4, <2>6
    <3>2. Consistent([hs1 EXCEPT ![h] = f], p.bl, [tx1 EXCEPT ![h] = t1]) /\ f \in Place
      BY <2>1, <2>3, <2>4, <3>1, GoesForward DEF f
    <3>3. t1 = t
      BY <2>4
    <3> QED
      BY <3>2, <3>3
  <2>8. r.bl = p.bl /\ r.me = f
    BY <2>2, SMTT(30) DEF Both
  <2> HIDE DEF t
  <2> QED
    BY <2>5, <2>7, <2>8 DEF Leads, r, t, me
<1>4. CASE count # 0 /\ ~(me.kind = "vec" /\ me.pos + count > MAX_VEC_POS)
  <2> DEFINE q == IF me.kind = "vec" THEN me.pos + count ELSE me.pos
             m == [me EXCEPT !.pos = q]
             f == Forward(m, count)
  <2>1. r = Both(bl, f)
    BY <1>4 DEF advance_unchecked
  <2>2. q \in Nat /\ (me.kind = "vec" => q = me.pos + count)
    <3>1. me.pos \in Nat /\ me.len \in Nat
      BY <1>1 DEF Place
    <3> QED
      BY <3>1, SMTT(30)
  <2> HIDE DEF r, me, q
  <2>3. /\ m \in Place /\ m.b = me.b /\ m.kind = me.kind /\ m.mode = me.mode /\ m.off = me.off
        /\ m.len = me.len /\ m.cap = me.cap /\ m.pos = q
    BY <1>1, <2>2 DEF Place
  <2> HIDE DEF m
  <2>4. Consistent([hs EXCEPT ![h] = f], bl, [tx EXCEPT ![h] = t]) /\ f \in Place
    BY <2>2, <2>3, GoesForward DEF me
  <2> HIDE DEF f, t
  <2>5. r.bl = bl /\ r.me = f
    BY <2>1, SMTT(30) DEF Both
  <2> QED
    BY <2>4, <2>5 DEF Leads, r, t, me
<1> QED
  BY <1>2, <1>3, <1>4

-----------------------------------------------------------------------------
(* Reserving.                                                              *)

(* The outcome r of reserving room for additional bytes: the handle shows  *)
(* what it did and has the room.  Without leave to allocate it may be      *)
(* refused, and then nothing has changed.                                  *)
Reserved(hs, bl, tx, h, additional, allocate, r) ==
    /\ Leads(hs, tx, h, r, tx[h]) /\ r.me \in Place /\ r.me.mode = "mut"
    /\ r.ok => additional <= r.me.cap - r.me.len
    /\ ~r.ok => ~allocate /\ r.bl = bl /\ r.me = hs[h]
    /\ ~allocate /\ r.ok => r.bl[r.me.b].cap = bl[hs[h].b].cap

(* A handle that has the room is one outcome of reserve.                   *)
LEMMA GrownIsReserved ==
    ASSUME NEW hs, NEW bl, NEW tx, NEW h, NEW additional, NEW allocate \in BOOLEAN, NEW m \in Place,
           m.mode = "mut", NEW bl2, Consistent([hs EXCEPT ![h] = m], bl2, [tx EXCEPT ![h] = tx[h]]),
           additional <= m.cap - m.len, ~allocate => bl2[m.b].cap = bl[hs[h].b].cap
    PROVE  Reserved(hs, bl, tx, h, additional, allocate, Grown(bl2, m))
<1> DEFINE r == Grown(bl2, m)
<1>1. r.bl = bl2 /\ r.me = m /\ r.ok = TRUE
  BY SMTT(30) DEF Grown
<1> HIDE DEF r
<1>2. Reserved(hs, bl, tx, h, additional, allocate, r)
  BY <1>1 DEF Reserved, Leads
<1> QED
  BY <1>2 DEF r

(* A refusal is the other: nothing has changed.                            *)
LEMMA RefusedIsReserved ==
    ASSUME NEW hs, NEW bl, NEW tx, Consistent(hs, bl, tx), NEW h \in Handles, hs[h] # NoHandle,
           hs[h].mode = "mut", NEW additional
    PROVE  Reserved(hs, bl, tx, h, additional, FALSE, Refused(bl, hs[h]))
<1> DEFINE r == Refused(bl, hs[h])
<1>1. r.bl = bl /\ r.me = hs[h] /\ r.ok = FALSE
  BY SMTT(30) DEF Refused
<1>2. [hs EXCEPT ![h] = hs[h]] = hs /\ [tx EXCEPT ![h] = tx[h]] = tx /\ hs[h] \in Place
  BY DEF Consistent
<1> HIDE DEF r
<1>3. Reserved(hs, bl, tx, h, additional, FALSE, r)
  BY <1>1, <1>2 DEF Reserved, Leads
<1> QED
  BY <1>3 DEF r

(* The only handle of its allocation put elsewhere in it, or in a larger   *)
(* one in its place, with the same bytes s.                                *)
Relocation(me, old, s, m, a) ==
    /\ m \in Place /\ m.b = me.b /\ m.kind = me.kind /\ m.len = me.len /\ m.len <= m.cap
    /\ a \in Allocation /\ a.ref_count = old.ref_count /\ m.off + m.cap <= a.cap
    /\ m.kind = "vec" => m.off + m.cap = a.cap /\ (m.mode = "mut" => m.pos = m.off)
    /\ \A i \in 1 .. m.len : a.mem[m.off + i] = s[i]
(* reserve moves data to the front, or grows a Vec: the layout stays       *)
(* consistent.                                                             *)
LEMMA Relocates ==
    ASSUME SizeLaws, NEW hs, NEW bl, NEW tx, Consistent(hs, bl, tx), NEW h \in Handles,
           hs[h] # NoHandle, is_unique(bl, hs[h]),
           NEW m, NEW a, Relocation(hs[h], bl[hs[h].b], tx[h], m, a)
    PROVE  Consistent([hs EXCEPT ![h] = m], [bl EXCEPT ![m.b] = a], [tx EXCEPT ![h] = tx[h]])
<1>1. /\ hs[h] \in Place /\ Fitted(hs[h], bl[hs[h].b]) /\ Shown(hs[h], bl[hs[h].b], tx[h])
      /\ tx[h] \in Seq(Nat) /\ Others(hs, h, m.b) = {}
  BY HandleFacts, OnlyHandle DEF Relocation
<1>2. m \in Place /\ a \in Allocation /\ m.b = hs[h].b
  BY DEF Relocation
<1>3. a.ref_count \in {0, 1}
  BY <1>1 DEF is_unique, Fitted, Relocation
<1>4. Fitted(m, a)
  BY <1>1 DEF Fitted, Relocation
<1>5. Shown(m, a, tx[h])
  BY <1>1 DEF Shown, Relocation
<1> QED
  BY <1>1, <1>2, <1>3, <1>4, <1>5, Alone

(* reserve_inner of a Vec: the data moved to the front when there is room  *)
(* and it does not overlap, a larger Vec otherwise.                        *)
LEMMA ReserveVec ==
    ASSUME SizeLaws, NEW hs, NEW bl, NEW tx, Consistent(hs, bl, tx), NEW h \in Handles,
           hs[h] # NoHandle, hs[h].mode = "mut", hs[h].kind = "vec",
           NEW additional \in Nat, NEW allocate \in BOOLEAN
    PROVE  Reserved(hs, bl, tx, h, additional, allocate, reserve_vec(bl, hs[h], additional, allocate))
<1> DEFINE me == hs[h]
           old == bl[me.b]
           s == tx[h]
<1>1. /\ me \in Place /\ me.b \in Blocks /\ old \in Allocation /\ Fitted(me, old) /\ Shown(me, old, s)
      /\ s \in Seq(Nat) /\ is_unique(bl, me) /\ bl \in [Blocks -> Allocation]
  BY HandleFacts DEF is_unique, Consistent
<1>2. /\ me.off \in Nat /\ me.pos \in Nat /\ me.len \in Nat /\ me.cap \in Nat /\ old.cap \in Nat
      /\ me.pos = me.off /\ me.off + me.cap = old.cap /\ me.len <= me.cap /\ 0 \in Nat
      /\ \A i \in 1 .. me.len : s[i] = old.mem[me.off + i]
  BY <1>1 DEF Place, Allocation, Fitted, Shown
<1>3. CASE me.cap - me.len + me.pos >= additional /\ me.pos >= me.len
  <2> DEFINE off == me.off - me.pos
             cap == me.cap + me.pos
             m == [me EXCEPT !.off = off, !.pos = 0, !.cap = cap]
             a == Fronted(old, s)
  <2>1. reserve_vec(bl, me, additional, allocate) = Grown(MoveToFront(bl, me), m)
    BY <1>3 DEF reserve_vec
  <2>2. /\ MoveToFront(bl, me) = [bl EXCEPT ![me.b] = a]
        /\ a \in Allocation /\ a.cap = old.cap /\ a.ref_count = old.ref_count
        /\ \A i \in 1 .. me.len : a.mem[i] = s[i]
    <3>1. Moved(bl, me, s, a)
      BY <1>1, FrontFacts
    <3> QED
      BY <3>1 DEF Moved
  <2>3. /\ off \in Nat /\ off = 0 /\ cap \in Nat /\ off + cap = old.cap /\ me.len <= cap
        /\ additional <= cap - me.len /\ off + cap <= old.cap
    <3> HIDE DEF me, old
    <3>1. InFront(off, cap, me.len, additional, old.cap)
      BY <1>2, <1>3, EnoughInFront
    <3> HIDE DEF off, cap
    <3> QED
      BY <3>1 DEF InFront
  <2>4. ASSUME NEW i \in 1 .. me.len PROVE a.mem[off + i] = s[i]
    <3> HIDE DEF me, off
    <3>1. off + i = i
      BY <1>2, <2>3, FromFront
    <3> QED
      BY <2>2, <3>1
  <2> HIDE DEF off, cap, a, me, old, s
  <2>5. /\ m \in Place /\ m.b = me.b /\ m.kind = me.kind /\ m.mode = me.mode /\ m.off = off
        /\ m.len = me.len /\ m.cap = cap /\ m.pos = 0
    BY <1>1, <1>2, <2>3 DEF Place
  <2> HIDE DEF m
  <2>6. Consistent([hs EXCEPT ![h] = m], [bl EXCEPT ![m.b] = a], [tx EXCEPT ![h] = s])
    <3>1. Relocation(me, old, s, m, a)
      BY <1>2, <2>2, <2>3, <2>4, <2>5 DEF Relocation
    <3> QED
      BY <1>1, <3>1, Relocates DEF me, s, old
  <2>7. [bl EXCEPT ![m.b] = a][m.b].cap = old.cap
    BY <1>1, <2>2, <2>5
  <2>8. Reserved(hs, bl, tx, h, additional, allocate, Grown([bl EXCEPT ![m.b] = a], m))
    BY <2>3, <2>5, <2>6, <2>7, GrownIsReserved DEF me, s, old
  <2> QED
    BY <2>1, <2>2, <2>5, <2>8 DEF me
<1>4. CASE ~(me.cap - me.len + me.pos >= additional /\ me.pos >= me.len) /\ ~allocate
  <2>1. reserve_vec(bl, me, additional, allocate) = Refused(bl, me) /\ allocate = FALSE
    BY <1>4 DEF reserve_vec
  <2> QED
    BY <2>1, RefusedIsReserved
<1>5. CASE ~(me.cap - me.len + me.pos >= additional /\ me.pos >= me.len) /\ allocate
  <2> DEFINE n == me.len + me.pos
             bl2 == VecReserve(bl, me.b, n, additional)
             a == bl2[me.b]
             cap == a.cap - me.pos
             m == [me EXCEPT !.off = me.pos, !.cap = cap]
  <2>1. reserve_vec(bl, me, additional, allocate) = Grown(bl2, m)
    BY <1>5 DEF reserve_vec
  <2>2. n \in Nat /\ n <= old.cap
    <3>1. me.pos + me.cap <= old.cap
      BY <1>1, <1>2 DEF Fitted
    <3> HIDE DEF me, old
    <3> QED
      BY <1>2, <3>1, EndWithin
  <2>3. bl2 = [bl EXCEPT ![me.b] = a] /\ Grows(old, a, n) /\ n + additional <= a.cap
    <3> HIDE DEF n, me
    <3>1. Reallocated(bl, me.b, n, additional, bl2)
      BY <1>1, <2>2, VecReserveFacts
    <3> HIDE DEF bl2
    <3> QED
      BY <3>1 DEF Reallocated
  <2> HIDE DEF bl2, a
  <2>4. /\ a \in Allocation /\ a.ref_count = old.ref_count /\ a.cap \in Nat
        /\ \A i \in 1 .. n : a.mem[i] = old.mem[i]
    BY <2>3 DEF Grows, Allocation
  <2>5. cap \in Nat /\ me.pos + cap = a.cap /\ me.len <= cap /\ additional <= cap - me.len /\ a.cap <= a.cap
    <3> HIDE DEF me
    <3>1. Enough(cap, me.len, additional) /\ me.pos + cap = a.cap /\ me.pos + cap <= a.cap
      BY <1>2, <2>3, <2>4, EnoughBehind
    <3> HIDE DEF cap
    <3> QED
      BY <3>1 DEF Enough
  <2>6. ASSUME NEW i \in 1 .. me.len PROVE a.mem[me.pos + i] = s[i]
    <3>1. me.pos + i \in 1 .. n
      BY <1>2, BeforeEnd
    <3> QED
      BY <1>2, <2>4, <3>1
  <2> HIDE DEF me, old, s, cap, n
  <2>7. /\ m \in Place /\ m.b = me.b /\ m.kind = me.kind /\ m.mode = me.mode /\ m.off = me.pos
        /\ m.len = me.len /\ m.cap = cap /\ m.pos = me.pos
    BY <1>1, <1>2, <2>5 DEF Place
  <2> HIDE DEF m
  <2>8. Consistent([hs EXCEPT ![h] = m], [bl EXCEPT ![m.b] = a], [tx EXCEPT ![h] = s])
    <3>1. Relocation(me, old, s, m, a)
      BY <1>1, <2>4, <2>5, <2>6, <2>7 DEF Relocation
    <3> QED
      BY <1>1, <3>1, Relocates DEF me, s, old
  <2>9. Reserved(hs, bl, tx, h, additional, allocate, Grown(bl2, m))
    BY <1>5, <2>3, <2>5, <2>7, <2>8, GrownIsReserved DEF me, s
  <2> QED
    BY <2>1, <2>9 DEF me
<1> QED
  BY <1>3, <1>4, <1>5

(* reserve_inner of the only handle of an Arc: its capacity was smaller    *)
(* than what there is, or the data moves to the front, or the Vec grows.   *)
LEMMA ReserveUnique ==
    ASSUME SizeLaws, NEW hs, NEW bl, NEW tx, Consistent(hs, bl, tx), NEW h \in Handles,
           hs[h] # NoHandle, hs[h].mode = "mut", hs[h].kind = "arc", bl[hs[h].b].ref_count = 1,
           NEW additional \in Nat, NEW allocate \in BOOLEAN
    PROVE  Reserved(hs, bl, tx, h, additional, allocate, reserve_unique(bl, hs[h], additional, allocate))
<1> DEFINE me == hs[h]
           old == bl[me.b]
           s == tx[h]
           new_cap == me.len + additional
<1>1. /\ me \in Place /\ me.b \in Blocks /\ old \in Allocation /\ Fitted(me, old) /\ Shown(me, old, s)
      /\ s \in Seq(Nat) /\ is_unique(bl, me) /\ bl \in [Blocks -> Allocation]
  BY HandleFacts DEF is_unique, Consistent
<1>2. /\ me.off \in Nat /\ me.len \in Nat /\ me.cap \in Nat /\ old.cap \in Nat
      /\ me.off + me.cap <= old.cap /\ me.len <= me.cap /\ 0 \in Nat
      /\ \A i \in 1 .. me.len : s[i] = old.mem[me.off + i]
      /\ me.kind # "vec"
  BY <1>1 DEF Place, Allocation, Fitted, Shown
<1>3. CASE old.cap >= new_cap + me.off
  <2> DEFINE m == [me EXCEPT !.cap = new_cap]
  <2>1. reserve_unique(bl, me, additional, allocate) = Grown(bl, m)
    BY <1>3 DEF reserve_unique
  <2>2. new_cap \in Nat /\ me.len <= new_cap /\ me.off + new_cap <= old.cap /\ additional <= new_cap - me.len
    <3> HIDE DEF me, old
    <3>1. Enough(new_cap, me.len, additional) /\ me.off + new_cap <= old.cap
      BY <1>2, <1>3, EnoughInPlace
    <3> HIDE DEF new_cap
    <3> QED
      BY <3>1 DEF Enough
  <2> HIDE DEF new_cap, me, old, s
  <2>3. /\ m \in Place /\ m.b = me.b /\ m.kind = me.kind /\ m.mode = me.mode /\ m.off = me.off
        /\ m.len = me.len /\ m.cap = new_cap
    BY <1>1, <1>2, <2>2 DEF Place
  <2> HIDE DEF m
  <2>4. Relocation(me, old, s, m, old)
    BY <1>1, <1>2, <2>2, <2>3 DEF Relocation
  <2>5. Consistent([hs EXCEPT ![h] = m], [bl EXCEPT ![m.b] = old], [tx EXCEPT ![h] = s])
    BY <1>1, <2>4, Relocates DEF me, s, old
  <2>6. [bl EXCEPT ![m.b] = old] = bl
    BY <1>1, <2>3 DEF old
  <2>7. Reserved(hs, bl, tx, h, additional, allocate, Grown(bl, m))
    <3>1. Consistent([hs EXCEPT ![h] = m], bl, [tx EXCEPT ![h] = s])
      BY <2>5, <2>6
    <3>2. bl[m.b].cap = bl[me.b].cap
      BY <2>3
    <3> QED
      BY <2>2, <2>3, <3>1, <3>2, GrownIsReserved DEF me, s
  <2> QED
    BY <2>1, <2>7 DEF me
<1>4. CASE ~(old.cap >= new_cap + me.off) /\ old.cap >= new_cap /\ me.off >= me.len
  <2> DEFINE cap == old.cap
             m == [me EXCEPT !.off = 0, !.cap = cap]
             a == Fronted(old, s)
  <2>1. reserve_unique(bl, me, additional, allocate) = Grown(MoveToFront(bl, me), m)
    BY <1>4 DEF reserve_unique
  <2>2. /\ MoveToFront(bl, me) = [bl EXCEPT ![me.b] = a]
        /\ a \in Allocation /\ a.cap = old.cap /\ a.ref_count = old.ref_count
        /\ \A i \in 1 .. me.len : a.mem[i] = s[i]
    <3>1. Moved(bl, me, s, a)
      BY <1>1, FrontFacts
    <3> QED
      BY <3>1 DEF Moved
  <2>3. cap \in Nat /\ me.len <= cap /\ additional <= cap - me.len /\ 0 + cap <= old.cap
    <3> HIDE DEF me, old
    <3>1. Enough(cap, me.len, additional) /\ 0 + cap <= old.cap
      BY <1>2, <1>4, EnoughInAll
    <3> QED
      BY <3>1 DEF Enough
  <2>4. ASSUME NEW i \in 1 .. me.len PROVE a.mem[0 + i] = s[i]
    <3>1. 0 + i = i
      BY <1>2, FromFront
    <3> QED
      BY <2>2, <3>1
  <2> HIDE DEF cap, a, me, old, s, new_cap
  <2>5. /\ m \in Place /\ m.b = me.b /\ m.kind = me.kind /\ m.mode = me.mode /\ m.off = 0
        /\ m.len = me.len /\ m.cap = cap
    BY <1>1, <1>2, <2>3 DEF Place
  <2> HIDE DEF m
  <2>6. Relocation(me, old, s, m, a)
    BY <1>2, <2>2, <2>3, <2>4, <2>5 DEF Relocation
  <2>7. Consistent([hs EXCEPT ![h] = m], [bl EXCEPT ![m.b] = a], [tx EXCEPT ![h] = s])
    BY <1>1, <2>6, Relocates DEF me, s, old
  <2>8. [bl EXCEPT ![m.b] = a][m.b].cap = old.cap
    BY <1>1, <2>2, <2>5
  <2>9. Reserved(hs, bl, tx, h, additional, allocate, Grown([bl EXCEPT ![m.b] = a], m))
    BY <2>3, <2>5, <2>7, <2>8, GrownIsReserved DEF me, s, old
  <2> QED
    BY <2>1, <2>2, <2>5, <2>9 DEF me
<1>5. CASE /\ ~(old.cap >= new_cap + me.off) /\ ~(old.cap >= new_cap /\ me.off >= me.len)
           /\ ~allocate
  <2>1. reserve_unique(bl, me, additional, allocate) = Refused(bl, me) /\ allocate = FALSE
    BY <1>5 DEF reserve_unique
  <2> QED
    BY <2>1, RefusedIsReserved
<1>6. CASE /\ ~(old.cap >= new_cap + me.off) /\ ~(old.cap >= new_cap /\ me.off >= me.len)
           /\ allocate
  <2> DEFINE n == me.off + me.len
             wanted == Larger(2 * old.cap, new_cap + me.off)
             more == wanted - n
             bl2 == VecReserve(bl, me.b, n, more)
             a == bl2[me.b]
             cap == a.cap - me.off
             m == [me EXCEPT !.cap = cap]
  <2>1. reserve_unique(bl, me, additional, allocate) = Grown(bl2, m)
    BY <1>6 DEF reserve_unique
  <2>2. n \in Nat /\ n <= old.cap /\ more \in Nat /\ n + more >= new_cap + me.off
    <3> HIDE DEF me, old
    <3>1. n \in Nat /\ n <= old.cap
      BY <1>2, EndWithin
    <3>2. Doubles(me.off, me.len, additional, old.cap)
      BY <1>2, AsksForMore
    <3> QED
      BY <3>1, <3>2 DEF Doubles
  <2>3. bl2 = [bl EXCEPT ![me.b] = a] /\ Grows(old, a, n) /\ n + more <= a.cap
    <3> HIDE DEF n, me, more
    <3>1. Reallocated(bl, me.b, n, more, bl2)
      BY <1>1, <2>2, VecReserveFacts
    <3> HIDE DEF bl2
    <3> QED
      BY <3>1 DEF Reallocated
  <2> HIDE DEF bl2, a, more
  <2>4. /\ a \in Allocation /\ a.ref_count = old.ref_count /\ a.cap \in Nat
        /\ \A i \in 1 .. n : a.mem[i] = old.mem[i]
    BY <2>3 DEF Grows, Allocation
  <2>5. cap \in Nat /\ me.off + cap <= a.cap /\ me.len <= cap /\ additional <= cap - me.len
    <3>1. me.len + me.off + additional <= a.cap
      <4> HIDE DEF me
      <4> QED
        BY <1>2, <2>2, <2>3, <2>4, SMTT(30)
    <3> QED
      BY <1>2, <2>4, <3>1, EnoughBehind DEF Enough
  <2>6. ASSUME NEW i \in 1 .. me.len PROVE a.mem[me.off + i] = s[i]
    <3>1. me.off + i \in 1 .. n
      BY <1>2, BeforeEnd
    <3> QED
      BY <1>2, <2>4, <3>1
  <2> HIDE DEF me, old, s, cap, n, new_cap
  <2>7. /\ m \in Place /\ m.b = me.b /\ m.kind = me.kind /\ m.mode = me.mode /\ m.off = me.off
        /\ m.len = me.len /\ m.cap = cap
    BY <1>1, <2>5 DEF Place
  <2> HIDE DEF m
  <2>8. Relocation(me, old, s, m, a)
    BY <1>2, <2>4, <2>5, <2>6, <2>7 DEF Relocation
  <2>9. Consistent([hs EXCEPT ![h] = m], [bl EXCEPT ![m.b] = a], [tx EXCEPT ![h] = s])
    BY <1>1, <2>8, Relocates DEF me, s, old
  <2>10. Reserved(hs, bl, tx, h, additional, allocate, Grown(bl2, m))
    BY <1>6, <2>3, <2>5, <2>7, <2>9, GrownIsReserved DEF me, s
  <2> QED
    BY <2>1, <2>10 DEF me
<1> QED
  BY <1>3, <1>4, <1>5, <1>6

(* reserve_inner of a shared handle: its bytes go to an allocation of      *)
(* their own.                                                              *)
LEMMA ReserveShared ==
    ASSUME SizeLaws, NEW hs, NEW bl, NEW tx, Consistent(hs, bl, tx), NEW h \in Handles,
           hs[h] # NoHandle, hs[h].mode = "mut", hs[h].kind = "arc", NEW additional \in Nat,
           NEW allocate \in BOOLEAN, allocate => Fresh \in Blocks /\ On(hs, Fresh) = {}
    PROVE  Reserved(hs, bl, tx, h, additional, allocate, reserve_shared(bl, hs[h], additional, allocate))
<1>1. CASE ~allocate
  <2>1. reserve_shared(bl, hs[h], additional, allocate) = Refused(bl, hs[h]) /\ allocate = FALSE
    BY <1>1 DEF reserve_shared
  <2> QED
    BY <2>1, RefusedIsReserved
<1>2. CASE allocate
  <2> DEFINE me == hs[h]
             repr == bl[me.b].orig
             cap == Larger(me.len + additional, original_capacity_from_repr(repr))
             bl2 == release_shared(Allocate(bl, Fresh, Window(bl, me), cap), me.b)
             m == [from_vec(Fresh, me.len, cap) EXCEPT !.orig = repr]
  <2>1. reserve_shared(bl, me, additional, allocate) = Grown(bl2, m)
    BY <1>2 DEF reserve_shared
  <2>2. me.len \in Nat /\ repr \in Reprs
    BY HandleFacts DEF Place, Allocation
  <2>3. cap \in Nat /\ me.len <= cap /\ additional <= cap - me.len
    <3>1. original_capacity_from_repr(repr) \in Nat
      BY <2>2, OriginalCapacity
    <3> QED
      BY <2>2, <3>1, EnoughAsked DEF Enough
  <2> HIDE DEF cap, repr
  <2>4. m \in Place /\ IsVec(m, Fresh, me.len, cap)
    BY <1>2, <2>2, <2>3, FromVec
  <2>5. m.mode = "mut" /\ m.len = me.len /\ m.cap = cap
    BY <2>4 DEF IsVec, from_vec
  <2> HIDE DEF m
  <2>6. Consistent([hs EXCEPT ![h] = m], bl2, [tx EXCEPT ![h] = tx[h]])
    BY <1>2, <2>3, <2>4, CopiesOut
  <2> HIDE DEF bl2, me
  <2>7. Reserved(hs, bl, tx, h, additional, allocate, Grown(bl2, m))
    BY <1>2, <2>3, <2>4, <2>5, <2>6, GrownIsReserved
  <2> QED
    BY <2>1, <2>7 DEF me
<1> QED
  BY <1>1, <1>2

(* reserve and try_reclaim.                                                *)
LEMMA Reserves ==
    ASSUME SizeLaws, NEW hs, NEW bl, NEW tx, Consistent(hs, bl, tx), NEW h \in Handles,
           hs[h] # NoHandle, hs[h].mode = "mut", NEW additional \in Nat
    PROVE  /\ Fresh \in Blocks /\ On(hs, Fresh) = {} =>
                 Reserved(hs, bl, tx, h, additional, TRUE, reserve(bl, hs[h], additional))
           /\ Reserved(hs, bl, tx, h, additional, FALSE, try_reclaim(bl, hs[h], additional))
<1> DEFINE me == hs[h]
           p == Grown(bl, me)
<1>1. /\ me \in Place /\ Fitted(me, bl[me.b]) /\ me.len \in Nat /\ me.cap \in Nat
      /\ me.kind \in {"vec", "arc"}
  BY HandleFacts DEF Place
<1>2. ASSUME NEW allocate \in BOOLEAN, additional <= me.cap - me.len
      PROVE  Reserved(hs, bl, tx, h, additional, allocate, Grown(bl, me))
  <2>1. [hs EXCEPT ![h] = me] = hs /\ [tx EXCEPT ![h] = tx[h]] = tx
    BY DEF Consistent
  <2>2. Consistent([hs EXCEPT ![h] = me], bl, [tx EXCEPT ![h] = tx[h]])
    BY <2>1
  <2>3. bl[me.b].cap = bl[hs[h].b].cap /\ me.mode = "mut"
    OBVIOUS
  <2> HIDE DEF me
  <2> QED
    BY <1>1, <1>2, <2>2, <2>3, GrownIsReserved
<1>3. ASSUME NEW allocate \in BOOLEAN, allocate => Fresh \in Blocks /\ On(hs, Fresh) = {}
      PROVE  Reserved(hs, bl, tx, h, additional, allocate, reserve_inner(bl, me, additional, allocate))
  <2>1. CASE me.kind = "vec"
    <3>1. reserve_inner(bl, me, additional, allocate) = reserve_vec(bl, me, additional, allocate)
      BY <2>1 DEF reserve_inner
    <3> QED
      BY <2>1, <3>1, ReserveVec
  <2>2. CASE me.kind = "arc" /\ bl[me.b].ref_count = 1
    <3>1. reserve_inner(bl, me, additional, allocate) = reserve_unique(bl, me, additional, allocate)
      BY <2>2 DEF reserve_inner
    <3> QED
      BY <2>2, <3>1, ReserveUnique
  <2>3. CASE me.kind = "arc" /\ bl[me.b].ref_count # 1
    <3>1. reserve_inner(bl, me, additional, allocate) = reserve_shared(bl, me, additional, allocate)
      BY <2>3 DEF reserve_inner
    <3> QED
      BY <1>3, <2>3, <3>1, ReserveShared
  <2> QED
    BY <1>1, <2>1, <2>2, <2>3
<1>4. ASSUME Fresh \in Blocks, On(hs, Fresh) = {}
      PROVE  Reserved(hs, bl, tx, h, additional, TRUE, reserve(bl, me, additional))
  <2>1. CASE additional <= me.cap - me.len
    BY <1>2, <2>1 DEF reserve
  <2>2. CASE ~(additional <= me.cap - me.len)
    BY <1>3, <1>4, <2>2 DEF reserve
  <2> QED
    BY <2>1, <2>2
<1>5. Reserved(hs, bl, tx, h, additional, FALSE, try_reclaim(bl, me, additional))
  <2>1. CASE additional <= me.cap - me.len
    BY <1>2, <2>1 DEF try_reclaim
  <2>2. CASE ~(additional <= me.cap - me.len)
    BY <1>3, <2>2 DEF try_reclaim
  <2> QED
    BY <2>1, <2>2
<1> QED
  BY <1>4, <1>5

(* A text made longer.                                                     *)
LEMMA ConcatFacts ==
    ASSUME NEW t \in Seq(Nat), NEW s \in Seq(Nat)
    PROVE  /\ t \o s \in Seq(Nat) /\ Len(t \o s) = Len(t) + Len(s)
           /\ \A i \in 1 .. Len(t) + Len(s) : (t \o s)[i] = IF i <= Len(t) THEN t[i] ELSE s[i - Len(t)]
<1> QED
  BY SMTT(30)

(* extend_from_slice: reserve, and the bytes behind those there are.       *)
LEMMA Extends ==
    ASSUME SizeLaws, NEW hs, NEW bl, NEW tx, Consistent(hs, bl, tx), NEW h \in Handles,
           hs[h] # NoHandle, hs[h].mode = "mut", NEW s \in Seq(Nat), Fresh \in Blocks, On(hs, Fresh) = {}
    PROVE  Leads(hs, tx, h, extend_from_slice(bl, hs[h], s), tx[h] \o s)
<1> DEFINE r == reserve(bl, hs[h], Len(s))
           t == tx[h]
           hs1 == [hs EXCEPT ![h] = r.me]
           tx1 == [tx EXCEPT ![h] = t]
<1>1. Len(s) \in Nat /\ t \in Seq(Nat) /\ Len(t) \in Nat
  <2>1. t \in Seq(Nat)
    BY HandleFacts
  <2> QED
    BY <2>1, TextFacts
<1>2. Reserved(hs, bl, tx, h, Len(s), TRUE, r)
  BY <1>1, Reserves
<1>3. extend_from_slice(bl, hs[h], s) =
         Both([r.bl EXCEPT ![r.me.b].mem = Put(@, r.me.off + r.me.len, s)], [r.me EXCEPT !.len = @ + Len(s)])
  BY DEF extend_from_slice
<1> HIDE DEF r
<1>4. Consistent(hs1, r.bl, tx1) /\ r.me \in Place /\ r.me.mode = "mut" /\ Len(s) <= r.me.cap - r.me.len
  BY <1>2 DEF Reserved, Leads
<1>5. hs1[h] = r.me /\ r.me # NoHandle /\ tx1[h] = t
  BY <1>4, Constants DEF Consistent
<1> DEFINE me == r.me
           old == r.bl[me.b]
           at == me.off + me.len
           mem == Put(old.mem, at, s)
           a == [old EXCEPT !.mem = mem]
           len == me.len + Len(s)
           m == [me EXCEPT !.len = len]
           u == t \o s
<1>6. /\ me.b \in Blocks /\ old \in Allocation /\ Fitted(me, old) /\ Shown(me, old, t)
      /\ r.bl \in [Blocks -> Allocation]
  BY <1>4, <1>5, HandleFacts DEF Consistent
<1>7. /\ me.off \in Nat /\ me.len \in Nat /\ me.cap \in Nat /\ old.cap \in Nat /\ me.len <= me.cap
      /\ me.off + me.cap <= old.cap /\ old.mem \in Seq(Nat) /\ Len(old.mem) = old.cap
      /\ Len(t) = me.len /\ \A i \in 1 .. me.len : t[i] = old.mem[me.off + i]
  BY <1>4, <1>6 DEF Place, Allocation, Fitted, Shown
<1>8. [r.bl EXCEPT ![r.me.b].mem = Put(@, r.me.off + r.me.len, s)] = [r.bl EXCEPT ![me.b] = a]
  BY <1>6
<1> HIDE DEF me, old, hs1, tx1, t
<1>9. /\ at \in Nat /\ at = me.off + me.len /\ len \in Nat /\ len <= me.cap
  <2>1. Len(s) <= me.cap - me.len
    BY <1>4 DEF me
  <2> QED
    BY <1>1, <1>7, <2>1, EndWithin, GrowsWithin
<1> HIDE DEF at
<1>10. /\ mem \in Seq(Nat) /\ Len(mem) = old.cap
       /\ \A i \in 1 .. old.cap : mem[i] = IF at < i /\ i <= at + Len(s) THEN s[i - at] ELSE old.mem[i]
  <2>1. /\ mem \in Seq(Nat) /\ Len(mem) = Len(old.mem)
        /\ \A i \in 1 .. Len(old.mem) : mem[i] = IF at < i /\ i <= at + Len(s) THEN s[i - at] ELSE old.mem[i]
    BY <1>7, <1>9, PutFacts
  <2> HIDE DEF mem
  <2> QED
    BY <1>7, <2>1
<1> HIDE DEF mem
<1>11. /\ a \in Allocation /\ a.ref_count = old.ref_count /\ a.cap = old.cap /\ a.mem = mem
  <2> DEFINE c == [old EXCEPT !.cap = Len(mem), !.mem = mem]
  <2>1. /\ c \in Allocation /\ c.ref_count = old.ref_count /\ c.cap = Len(mem) /\ c.mem = mem
        /\ Len(mem) = old.cap => a = c
    BY <1>6, <1>10, OtherMemory
  <2> HIDE DEF a, c
  <2> QED
    BY <1>10, <2>1
<1>12. /\ m \in Place /\ m.b = me.b /\ m.kind = me.kind /\ m.mode = me.mode /\ m.off = me.off
       /\ m.len = len /\ m.cap = me.cap /\ m.pos = me.pos
  BY <1>4, <1>9 DEF Place, me
<1> HIDE DEF m, a, len
<1>13. Writes(me, old, a)
  <2>1. ASSUME NEW i \in 1 .. old.cap
        PROVE  \/ a.mem[i] = old.mem[i]
               \/ me.mode = "mut" /\ me.off < i /\ i <= me.off + me.cap
    <3>1. CASE at < i /\ i <= at + Len(s)
      <4>1. ASSUME NEW off \in Nat, NEW m0 \in Nat, NEW n \in Nat, NEW cap \in Nat, NEW top \in Nat,
                   m0 + n <= cap, i \in 1 .. top, off + m0 < i, i <= off + m0 + n
            PROVE  off < i /\ i <= off + cap
        BY <4>1, SMTT(30)
      <4>2. me.off + me.len < i /\ i <= me.off + me.len + Len(s) /\ me.len + Len(s) <= me.cap
        BY <1>9, <3>1 DEF len
      <4>3. me.off < i /\ i <= me.off + me.cap
        BY <1>1, <1>7, <4>1, <4>2
      <4> QED
        BY <1>4, <4>3 DEF me
    <3>2. CASE ~(at < i /\ i <= at + Len(s))
      BY <1>10, <1>11, <3>2
    <3> QED
      BY <3>1, <3>2
  <2> QED
    BY <1>11, <2>1 DEF Writes
<1>14. Inside(m, me)
  <2>1. Extent(m) = Extent(me) /\ me.off <= me.off /\ Extent(me) = me.cap
        /\ me.off + me.cap <= me.off + me.cap
    <3>1. Extent(m) = me.cap /\ Extent(me) = me.cap
      BY <1>4, <1>12 DEF Extent, me
    <3> QED
      BY <1>7, <3>1, SMTT(30)
  <2> QED
    BY <1>12, <2>1 DEF Inside
<1>15. Fitted(m, a)
  BY <1>6, <1>9, <1>11, <1>12 DEF Fitted
<1>16. u \in Seq(Nat) /\ Len(u) = len /\ \A i \in 1 .. len : u[i] = IF i <= me.len THEN t[i] ELSE s[i - me.len]
  <2>1. /\ u \in Seq(Nat) /\ Len(u) = Len(t) + Len(s)
        /\ \A i \in 1 .. Len(t) + Len(s) : u[i] = IF i <= Len(t) THEN t[i] ELSE s[i - Len(t)]
    BY <1>1, ConcatFacts
  <2> HIDE DEF u
  <2> QED
    BY <1>7, <2>1 DEF len
<1> HIDE DEF u
<1>17. Shown(m, a, u)
  <2>1. ASSUME NEW i \in 1 .. len PROVE u[i] = a.mem[me.off + i]
    <3>1. me.off + i \in 1 .. old.cap
      BY <1>7, <1>9, InWindow
    <3>2. CASE i <= me.len
      <4>1. ~(at < me.off + i) /\ i \in 1 .. me.len
        BY <1>7, <1>9, <3>2, SMTT(30)
      <4> QED
        BY <1>7, <1>10, <1>11, <1>16, <3>1, <3>2, <4>1
    <3>3. CASE ~(i <= me.len)
      <4>1. /\ at < me.off + i /\ me.off + i <= at + Len(s) /\ (me.off + i) - at = i - me.len
        <5>1. i \in 1 .. me.len + Len(s)
          BY DEF len
        <5>2. me.off \in Nat /\ me.len \in Nat /\ Len(s) \in Nat
          BY <1>1, <1>7
        <5>3. Behind(me.off, me.len, Len(s), i)
          BY <3>3, <5>1, <5>2, BehindFirst
        <5> QED
          BY <1>9, <5>3 DEF Behind
      <4> QED
        <5>1. mem[me.off + i] = s[(me.off + i) - at]
          BY <1>10, <3>1, <4>1
        <5>2. u[i] = s[i - me.len]
          BY <1>16, <3>3
        <5> QED
          BY <1>11, <4>1, <5>1, <5>2
    <3> QED
      BY <3>2, <3>3
  <2> QED
    BY <1>12, <1>16, <2>1 DEF Shown
<1>18. Consistent([hs1 EXCEPT ![h] = m], [r.bl EXCEPT ![m.b] = a], [tx1 EXCEPT ![h] = u])
  BY <1>4, <1>5, <1>12, <1>13, <1>14, <1>15, <1>16, <1>17, Restates DEF me, old
<1>19. [hs1 EXCEPT ![h] = m] = [hs EXCEPT ![h] = m] /\ [tx1 EXCEPT ![h] = u] = [tx EXCEPT ![h] = u]
  BY DEF hs1, tx1
<1> DEFINE e == extend_from_slice(bl, hs[h], s)
           bl2 == [r.bl EXCEPT ![m.b] = a]
<1>20. e = Both(bl2, m)
  BY <1>3, <1>8, <1>12 DEF m, me, len
<1> HIDE DEF e, bl2
<1>21. e.bl = bl2 /\ e.me = m
  BY <1>20, SMTT(30) DEF Both
<1> QED
  BY <1>18, <1>19, <1>21 DEF Leads, e, bl2, u, t

-----------------------------------------------------------------------------
(* Operations on two handles.                                              *)

(* shallow_clone: the handle r.me alone, on allocations bl1, and one more  *)
(* counted.                                                                *)
Cloned(hs, bl, tx, h, r, bl1) ==
    /\ Consistent([hs EXCEPT ![h] = r.me], bl1, [tx EXCEPT ![h] = tx[h]])
    /\ r.bl = [bl1 EXCEPT ![r.me.b].ref_count = @ + 1]
    /\ r.me \in Place /\ r.me.kind = "arc" /\ r.me.b = hs[h].b /\ r.me.mode = hs[h].mode
    /\ r.me.off = hs[h].off /\ r.me.len = hs[h].len /\ r.me.cap = hs[h].cap

(* A handle is an Arc, or becomes one counted once, before it is cloned.   *)
LEMMA Clones ==
    ASSUME SizeLaws, NEW hs, NEW bl, NEW tx, Consistent(hs, bl, tx), NEW h \in Handles, hs[h] # NoHandle
    PROVE  \E bl1 : Cloned(hs, bl, tx, h, shallow_clone(bl, hs[h]), bl1)
<1> DEFINE me == hs[h]
           r == shallow_clone(bl, me)
<1>1. me \in Place /\ me.kind \in {"vec", "arc"} /\ me.b \in Blocks /\ bl \in [Blocks -> Allocation]
  BY HandleFacts DEF Place, Consistent
<1>2. CASE me.kind = "arc"
  <2> DEFINE x == [bl EXCEPT ![me.b].ref_count = @ + 1]
  <2>1. r = Both(x, me)
    BY <1>2 DEF shallow_clone
  <2> HIDE DEF r, x, me
  <2>2. r.bl = x /\ r.me = me
    BY <2>1, SMTT(30) DEF Both
  <2>3. [hs EXCEPT ![h] = me] = hs /\ [tx EXCEPT ![h] = tx[h]] = tx
    BY DEF Consistent, me
  <2>4. Cloned(hs, bl, tx, h, r, bl)
    BY <1>1, <1>2, <2>2, <2>3 DEF Cloned, x, me
  <2> QED
    BY <2>4 DEF r, me
<1>3. CASE me.kind = "vec"
  <2> DEFINE p == promote_to_shared(bl, me, 1)
             q == promote_to_shared(bl, me, 2)
             x == [bl EXCEPT ![me.b].ref_count = 1, ![me.b].orig = me.orig]
             y == [bl EXCEPT ![me.b].ref_count = 2, ![me.b].orig = me.orig]
             m == [me EXCEPT !.kind = "arc", !.pos = 0, !.orig = 0]
  <2>1. Promoted(hs, bl, tx, h, p)
    BY <1>3, Promotes
  <2>2. r = Both(y, m) /\ p = Both(x, m)
    BY <1>1, <1>3 DEF shallow_clone, promote_to_shared
  <2>3. y = [x EXCEPT ![me.b].ref_count = @ + 1]
    <3>1. 1 + 1 = 2
      BY SMTT(30)
    <3>2. bl[me.b] \in [cap : Nat, mem : Seq(Nat), ref_count : Nat, orig : Reprs]
      BY <1>1 DEF Allocation
    <3> HIDE DEF me
    <3>3. x[me.b].ref_count = 1
      BY <1>1, <3>2
    <3>4. y = [bl EXCEPT ![me.b] = [bl[me.b] EXCEPT !.ref_count = 2, !.orig = me.orig]]
      BY <1>1
    <3>5. x = [bl EXCEPT ![me.b] = [bl[me.b] EXCEPT !.ref_count = 1, !.orig = me.orig]]
      BY <1>1
    <3>6. [[bl[me.b] EXCEPT !.ref_count = 1, !.orig = me.orig] EXCEPT !.ref_count = 1 + 1]
          = [bl[me.b] EXCEPT !.ref_count = 2, !.orig = me.orig]
      BY <3>1, <3>2
    <3> QED
      BY <1>1, <3>3, <3>4, <3>5, <3>6
  <2> HIDE DEF r, p, x, y, m, me
  <2>4. r.bl = y /\ r.me = m /\ p.bl = x /\ p.me = m
    BY <2>2, SMTT(30) DEF Both
  <2>5. Cloned(hs, bl, tx, h, r, p.bl)
    BY <2>1, <2>3, <2>4 DEF Cloned, Promoted, Leads, me
  <2> QED
    BY <2>5 DEF r, me
<1> QED
  BY <1>1, <1>2, <1>3

(* The window of a handle is shared out between it and a new one.          *)
LEMMA Splits ==
    ASSUME SizeLaws, NEW hs, NEW bl, NEW tx, NEW h \in Handles, NEW o \in Handles, hs[o] = NoHandle,
           h # o, NEW r, NEW bl1, Cloned(hs, bl, tx, h, r, bl1),
           NEW f \in Place, Part(f, r.me), NEW s \in Seq(Nat), Excerpt(s, f, r.me, tx[h]),
           NEW g \in Place, Part(g, r.me), NEW t \in Seq(Nat), Excerpt(t, g, r.me, tx[h]),
           Compatible(g, f)
    PROVE  Consistent([hs EXCEPT ![h] = f, ![o] = g], r.bl, [tx EXCEPT ![h] = s, ![o] = t])
<1> DEFINE hs1 == [hs EXCEPT ![h] = r.me]
           tx1 == [tx EXCEPT ![h] = tx[h]]
           hs2 == [hs1 EXCEPT ![h] = f]
           tx2 == [tx1 EXCEPT ![h] = s]
           b == r.me.b
<1>1. /\ Consistent(hs1, bl1, tx1) /\ r.bl = [bl1 EXCEPT ![b].ref_count = @ + 1]
      /\ r.me \in Place /\ r.me.kind = "arc"
  BY DEF Cloned
<1>2. hs1[h] = r.me /\ r.me # NoHandle /\ tx1[h] = tx[h] /\ hs1[o] = NoHandle /\ DOMAIN hs1 = Handles
  BY <1>1, Constants DEF Consistent
<1> HIDE DEF hs1, tx1
<1>3. /\ b \in Blocks /\ bl1[b] \in Allocation /\ Fitted(r.me, bl1[b]) /\ Shown(r.me, bl1[b], tx[h])
  <2>1. /\ hs1[h].b \in Blocks /\ bl1[hs1[h].b] \in Allocation /\ Fitted(hs1[h], bl1[hs1[h].b])
        /\ Shown(hs1[h], bl1[hs1[h].b], tx1[h])
    BY <1>1, <1>2, HandleFacts
  <2> QED
    BY <1>2, <2>1
<1>4. f.b = b /\ g.b = b /\ g.kind = "arc" /\ f # NoHandle
  BY <1>1, Constants DEF Part
<1>5. Consistent(hs2, bl1, tx2)
  BY <1>1, <1>2, Narrows
<1>6. hs2[h] = f /\ hs2[o] = NoHandle /\ \A k \in Handles : k # h => hs2[k] = hs1[k]
  BY <1>2
<1> HIDE DEF hs2, tx2
<1>7. Inside(g, r.me) /\ Fitted(g, bl1[b]) /\ Shown(g, bl1[b], t)
  BY <1>1, <1>3, PartFacts
<1>8. h \in On(hs2, b)
  BY <1>4, <1>6 DEF On
<1>9. ASSUME NEW k \in On(hs2, b) PROVE Compatible(g, hs2[k])
  <2>1. CASE k = h
    BY <1>6, <2>1
  <2>2. CASE k # h
    <3>1. k \in Handles /\ hs1[k] # NoHandle /\ hs1[k].b = b /\ hs2[k] = hs1[k]
      BY <1>6, <1>9, <2>2 DEF On
    <3>2. hs1[k] \in Place
      BY <1>1, <3>1, HandleFacts
    <3>3. Compatible(r.me, hs1[k])
      BY <1>1, <1>2, <1>3, <2>2, <3>1 DEF Consistent, On
    <3> QED
      BY <1>1, <1>7, <3>1, <3>2, <3>3, NarrowerIsCompatible
  <2> QED
    BY <2>1, <2>2
<1> HIDE DEF b
<1>10. Consistent([hs2 EXCEPT ![o] = g], [bl1 EXCEPT ![g.b].ref_count = @ + 1], [tx2 EXCEPT ![o] = t])
  <2>1. /\ On(hs2, g.b) # {} /\ Fitted(g, bl1[g.b]) /\ Shown(g, bl1[g.b], t)
        /\ \A k \in On(hs2, g.b) : Compatible(g, hs2[k])
    BY <1>4, <1>7, <1>8, <1>9
  <2> QED
    BY <1>4, <1>5, <1>6, <2>1, Joins
<1>11. [hs2 EXCEPT ![o] = g] = [hs EXCEPT ![h] = f, ![o] = g] /\ [tx2 EXCEPT ![o] = t] = [tx EXCEPT ![h] = s, ![o] = t]
  BY DEF hs2, tx2, hs1, tx1
<1>12. [bl1 EXCEPT ![g.b].ref_count = @ + 1] = r.bl
  BY <1>1, <1>4
<1> QED
  BY <1>10, <1>11, <1>12

(* The handle that is cloned fits its allocation and shows its text.       *)
LEMMA ClonedFacts ==
    ASSUME NEW hs, NEW bl, NEW tx, NEW h \in Handles, NEW r, NEW bl1, Cloned(hs, bl, tx, h, r, bl1)
    PROVE  /\ r.me \in Place /\ r.me.kind = "arc" /\ bl1[r.me.b] \in Allocation
           /\ Fitted(r.me, bl1[r.me.b]) /\ Shown(r.me, bl1[r.me.b], tx[h]) /\ tx[h] \in Seq(Nat)
           /\ Len(tx[h]) = r.me.len /\ r.me.len <= r.me.cap
           /\ r.me.off \in Nat /\ r.me.len \in Nat /\ r.me.cap \in Nat
<1> DEFINE hs1 == [hs EXCEPT ![h] = r.me]
           tx1 == [tx EXCEPT ![h] = tx[h]]
<1>1. Consistent(hs1, bl1, tx1) /\ r.me \in Place /\ r.me.kind = "arc"
  BY DEF Cloned
<1>2. hs1[h] = r.me /\ r.me # NoHandle /\ tx1[h] = tx[h]
  BY <1>1, Constants DEF Consistent
<1> HIDE DEF hs1, tx1
<1>3. /\ bl1[hs1[h].b] \in Allocation /\ Fitted(hs1[h], bl1[hs1[h].b])
      /\ Shown(hs1[h], bl1[hs1[h].b], tx1[h]) /\ tx1[h] \in Seq(Nat)
  BY <1>1, <1>2, HandleFacts
<1>4. /\ bl1[r.me.b] \in Allocation /\ Fitted(r.me, bl1[r.me.b])
      /\ Shown(r.me, bl1[r.me.b], tx[h]) /\ tx[h] \in Seq(Nat)
  BY <1>2, <1>3
<1> QED
  BY <1>1, <1>4 DEF Place, Fitted, Shown

(* split_off: the new handle takes the window from at on.                  *)
LEMMA SplitsOff ==
    ASSUME SizeLaws, NEW hs, NEW bl, NEW tx, NEW h \in Handles, NEW o \in Handles, hs[o] = NoHandle,
           h # o, NEW r, NEW bl1, Cloned(hs, bl, tx, h, r, bl1), NEW at \in 0 .. r.me.cap,
           r.me.mode = "mut"
    PROVE  LET n == Smaller(at, r.me.len) IN
           Consistent([hs EXCEPT ![h] = [r.me EXCEPT !.cap = at, !.len = n], ![o] = Forward(r.me, at)], r.bl,
                      [tx EXCEPT ![h] = SubSeq(tx[h], 1, n), ![o] = SubSeq(tx[h], n + 1, Len(tx[h]))])
<1> DEFINE me == r.me
           n == Smaller(at, me.len)
           f == [me EXCEPT !.cap = at, !.len = n]
           g == Forward(me, at)
           s == SubSeq(tx[h], 1, n)
           t == SubSeq(tx[h], n + 1, Len(tx[h]))
<1>1. /\ me \in Place /\ me.kind = "arc" /\ bl1[me.b] \in Allocation
      /\ Fitted(me, bl1[me.b]) /\ Shown(me, bl1[me.b], tx[h]) /\ tx[h] \in Seq(Nat)
      /\ Len(tx[h]) = me.len /\ me.len <= me.cap
      /\ me.off \in Nat /\ me.len \in Nat /\ me.cap \in Nat
  BY ClonedFacts
<1>2. at \in Nat /\ at <= me.cap /\ n \in 0 .. me.len /\ n \in Nat /\ n <= at
  BY <1>1, SMTT(30) DEF Smaller
<1>3. /\ g \in Place /\ g.b = me.b /\ g.kind = me.kind /\ g.mode = me.mode
      /\ g.off = me.off + at /\ g.len = (IF me.len < at THEN 0 ELSE me.len - at) /\ g.cap = me.cap - at
  BY <1>1, ForwardFacts
<1> HIDE DEF g, me
<1>4. /\ f \in Place /\ f.b = me.b /\ f.kind = me.kind /\ f.mode = me.mode /\ f.off = me.off
      /\ f.len = n /\ f.cap = at
  BY <1>1, <1>2 DEF Place
<1> HIDE DEF f
<1>5. Part(g, me) /\ t \in Seq(Nat) /\ Excerpt(t, g, me, tx[h])
  <2>1. at \in 0 .. me.cap /\ g.mode # "frozen" /\ g.kind # "vec"
    BY <1>1, <1>3 DEF me
  <2> QED
    BY <1>1, <1>2, <1>3, <2>1, EndFacts
<1>6. Part(f, me) /\ s \in Seq(Nat) /\ Excerpt(s, f, me, tx[h])
  <2>1. f.kind # "vec"
    BY <1>1, <1>4
  <2> HIDE DEF n
  <2> QED
    BY <1>1, <1>2, <1>4, <2>1, BeginFacts
<1> HIDE DEF s, t, n
<1>7. Compatible(g, f)
  <2>1. Extent(f) = at
    BY <1>4 DEF Extent, me
  <2>2. f.off + at <= g.off
    BY <1>1, <1>2, <1>3, <1>4, SMTT(30)
  <2> QED
    BY <1>1, <1>3, <1>4, <2>1, <2>2 DEF Compatible, Apart
<1>8. Consistent([hs EXCEPT ![h] = f, ![o] = g], r.bl, [tx EXCEPT ![h] = s, ![o] = t])
  BY <1>3, <1>4, <1>5, <1>6, <1>7, Splits DEF me
<1> QED
  BY <1>8 DEF f, g, s, t, n, me

(* split_to: the new handle takes the window up to at.                     *)
LEMMA SplitsTo ==
    ASSUME SizeLaws, NEW hs, NEW bl, NEW tx, NEW h \in Handles, NEW o \in Handles, hs[o] = NoHandle,
           h # o, NEW r, NEW bl1, Cloned(hs, bl, tx, h, r, bl1), NEW at \in 0 .. r.me.len,
           r.me.mode = "mut"
    PROVE  Consistent([hs EXCEPT ![h] = Forward(r.me, at), ![o] = [r.me EXCEPT !.cap = at, !.len = at]], r.bl,
                      [tx EXCEPT ![h] = SubSeq(tx[h], at + 1, Len(tx[h])), ![o] = SubSeq(tx[h], 1, at)])
<1> DEFINE me == r.me
           f == [me EXCEPT !.cap = at, !.len = at]
           g == Forward(me, at)
           s == SubSeq(tx[h], 1, at)
           t == SubSeq(tx[h], at + 1, Len(tx[h]))
<1>1. /\ me \in Place /\ me.kind = "arc" /\ bl1[me.b] \in Allocation
      /\ Fitted(me, bl1[me.b]) /\ Shown(me, bl1[me.b], tx[h]) /\ tx[h] \in Seq(Nat)
      /\ Len(tx[h]) = me.len /\ me.len <= me.cap
      /\ me.off \in Nat /\ me.len \in Nat /\ me.cap \in Nat
  BY ClonedFacts
<1>2. at \in Nat /\ at <= me.cap /\ at \in 0 .. me.cap /\ at = Smaller(at, me.len) /\ at <= at
  BY <1>1, SMTT(30) DEF Smaller
<1>3. /\ g \in Place /\ g.b = me.b /\ g.kind = me.kind /\ g.mode = me.mode
      /\ g.off = me.off + at /\ g.len = (IF me.len < at THEN 0 ELSE me.len - at) /\ g.cap = me.cap - at
  BY <1>1, <1>2, ForwardFacts
<1> HIDE DEF g, me
<1>4. /\ f \in Place /\ f.b = me.b /\ f.kind = me.kind /\ f.mode = me.mode /\ f.off = me.off
      /\ f.len = at /\ f.cap = at
  BY <1>1, <1>2 DEF Place
<1> HIDE DEF f
<1>5. Part(g, me) /\ t \in Seq(Nat) /\ Excerpt(t, g, me, tx[h])
  <2>1. g.mode # "frozen" /\ g.kind # "vec"
    BY <1>1, <1>3 DEF me
  <2> QED
    BY <1>1, <1>2, <1>3, <2>1, EndFacts
<1>6. Part(f, me) /\ s \in Seq(Nat) /\ Excerpt(s, f, me, tx[h])
  <2>1. f.kind # "vec" /\ at \in 0 .. me.len
    BY <1>1, <1>4 DEF me
  <2> QED
    BY <1>1, <1>2, <1>4, <2>1, BeginFacts
<1> HIDE DEF s, t
<1>7. Compatible(f, g)
  <2>1. Extent(f) = at
    BY <1>4 DEF Extent, me
  <2>2. f.off + at <= g.off
    BY <1>1, <1>2, <1>3, <1>4, SMTT(30)
  <2> QED
    BY <1>1, <1>3, <1>4, <2>1, <2>2 DEF Compatible, Apart
<1>8. Consistent([hs EXCEPT ![h] = g, ![o] = f], r.bl, [tx EXCEPT ![h] = t, ![o] = s])
  BY <1>3, <1>4, <1>5, <1>6, <1>7, Splits DEF me
<1> QED
  BY <1>8 DEF f, g, s, t, me

(* clone of a Bytes: both show the same bytes, and write none.             *)
LEMMA ClonesFrozen ==
    ASSUME SizeLaws, NEW hs, NEW bl, NEW tx, NEW h \in Handles, NEW o \in Handles, hs[o] = NoHandle,
           h # o, NEW r, NEW bl1, Cloned(hs, bl, tx, h, r, bl1), r.me.mode = "frozen"
    PROVE  Consistent([hs EXCEPT ![h] = r.me, ![o] = r.me], r.bl, [tx EXCEPT ![h] = tx[h], ![o] = tx[h]])
<1>0. /\ r.me \in Place /\ r.me.kind = "arc" /\ bl1[r.me.b] \in Allocation
      /\ Fitted(r.me, bl1[r.me.b]) /\ Shown(r.me, bl1[r.me.b], tx[h]) /\ tx[h] \in Seq(Nat)
      /\ Len(tx[h]) = r.me.len /\ r.me.len <= r.me.cap
      /\ r.me.off \in Nat /\ r.me.len \in Nat /\ r.me.cap \in Nat
  BY ClonedFacts
<1> DEFINE me == r.me
           s == tx[h]
<1>1. /\ me \in Place /\ me.kind = "arc" /\ s \in Seq(Nat) /\ Len(s) = me.len /\ me.len <= me.cap
      /\ me.off \in Nat /\ me.len \in Nat /\ me.cap \in Nat
  BY <1>0
<1>2. Part(me, me)
  <2>1. me.off <= me.off /\ me.off + me.cap <= me.off + me.cap /\ me.off + me.len <= me.off + me.len
    BY <1>1, SMTT(30)
  <2> QED
    BY <1>1, <2>1 DEF Part
<1>3. Excerpt(s, me, me, s)
  <2>1. ASSUME NEW i \in 1 .. me.len PROVE me.off - me.off + i = i
    BY <1>1, SMTT(30)
  <2> QED
    BY <1>1, <2>1 DEF Excerpt
<1>4. Compatible(me, me)
  BY <1>1 DEF Compatible
<1> QED
  BY <1>1, <1>2, <1>3, <1>4, Splits

(* The handle h ends up as r.me with the text of both, and o is gone.      *)
Merges(hs, bl, tx, h, o, me) ==
    Consistent([hs EXCEPT ![h] = me, ![o] = NoHandle], bl, [tx EXCEPT ![h] = tx[h] \o tx[o], ![o] = <<>>])

(* The empty sequence is a text, and adds nothing to one.                  *)
LEMMA EmptyText ==
    ASSUME NEW s \in Seq(Nat), NEW t \in Seq(Nat)
    PROVE  /\ <<>> \in Seq(Nat) /\ (Len(s) = 0 => s \o t = t) /\ (Len(t) = 0 => s \o t = s)
<1> DEFINE u == s \o t
<1>1. /\ u \in Seq(Nat) /\ Len(u) = Len(s) + Len(t)
      /\ \A i \in 1 .. Len(s) + Len(t) : u[i] = IF i <= Len(s) THEN s[i] ELSE t[i - Len(s)]
  BY ConcatFacts
<1>2. <<>> \in Seq(Nat) /\ Len(s) \in Nat /\ Len(t) \in Nat
  BY SMTT(30)
<1> HIDE DEF u
<1>3. ASSUME Len(s) = 0 PROVE u = t
  <2>1. 0 + Len(t) = Len(t) /\ \A i \in 1 .. Len(t) : ~(i <= 0) /\ i - 0 = i
    BY <1>2, SMTT(30)
  <2>2. Len(u) = Len(t) /\ \A i \in 1 .. Len(t) : u[i] = t[i]
    BY <1>1, <1>3, <2>1
  <2> QED
    BY <1>1, <2>2, SameText
<1>4. ASSUME Len(t) = 0 PROVE u = s
  <2>1. Len(s) + 0 = Len(s) /\ \A i \in 1 .. Len(s) : i <= Len(s)
    BY <1>2, SMTT(30)
  <2>2. Len(u) = Len(s) /\ \A i \in 1 .. Len(s) : u[i] = s[i]
    BY <1>1, <1>4, <2>1
  <2> QED
    BY <1>1, <2>2, SameText
<1> QED
  BY <1>2, <1>3, <1>4 DEF u

(* An empty handle is dropped and what the other stands for takes its      *)
(* place.                                                                  *)
LEMMA Supplants ==
    ASSUME SizeLaws, NEW hs, NEW bl, NEW tx, Consistent(hs, bl, tx), NEW h \in Handles, NEW o \in Handles,
           h # o, hs[h] # NoHandle, hs[o] # NoHandle, hs[h].len = 0
    PROVE  Merges(hs, drop(bl, hs[h]), tx, h, o, hs[o])
<1> DEFINE hs1 == [hs EXCEPT ![h] = NoHandle]
           tx1 == [tx EXCEPT ![h] = <<>>]
           bl1 == drop(bl, hs[h])
<1>1. tx[h] \in Seq(Nat) /\ tx[o] \in Seq(Nat) /\ Len(tx[h]) = 0
  <2>1. tx[h] \in Seq(Nat) /\ tx[o] \in Seq(Nat) /\ Shown(hs[h], bl[hs[h].b], tx[h])
    BY HandleFacts
  <2> QED
    BY <2>1 DEF Shown
<1>2. <<>> \in Seq(Nat) /\ tx[h] \o tx[o] = tx[o]
  BY <1>1, EmptyText
<1>3. Consistent(hs1, bl1, tx1)
  BY <1>2, Drops
<1>4. hs1[h] = NoHandle /\ hs1[o] = hs[o] /\ tx1[o] = tx[o]
  BY DEF Consistent
<1> HIDE DEF hs1, tx1, bl1
<1>5. Consistent([hs1 EXCEPT ![h] = hs1[o], ![o] = NoHandle], bl1, [tx1 EXCEPT ![h] = tx1[o], ![o] = <<>>])
  BY <1>2, <1>3, <1>4, Moves
<1>6. /\ [hs1 EXCEPT ![h] = hs1[o], ![o] = NoHandle] = [hs EXCEPT ![h] = hs[o], ![o] = NoHandle]
      /\ [tx1 EXCEPT ![h] = tx1[o], ![o] = <<>>] = [tx EXCEPT ![h] = tx[h] \o tx[o], ![o] = <<>>]
  BY <1>2, <1>4 DEF hs1, tx1
<1> QED
  BY <1>5, <1>6 DEF Merges, bl1

(* An empty handle is dropped and the other one stays.                     *)
LEMMA Absorbs ==
    ASSUME SizeLaws, NEW hs, NEW bl, NEW tx, Consistent(hs, bl, tx), NEW h \in Handles, NEW o \in Handles,
           h # o, hs[h] # NoHandle, hs[o] # NoHandle, hs[o].len = 0
    PROVE  Merges(hs, drop(bl, hs[o]), tx, h, o, hs[h])
<1>1. tx[h] \in Seq(Nat) /\ tx[o] \in Seq(Nat) /\ Len(tx[o]) = 0
  <2>1. tx[h] \in Seq(Nat) /\ tx[o] \in Seq(Nat) /\ Shown(hs[o], bl[hs[o].b], tx[o])
    BY HandleFacts
  <2> QED
    BY <2>1 DEF Shown
<1>2. <<>> \in Seq(Nat) /\ tx[h] \o tx[o] = tx[h]
  BY <1>1, EmptyText
<1>3. Consistent([hs EXCEPT ![o] = NoHandle], drop(bl, hs[o]), [tx EXCEPT ![o] = <<>>])
  BY <1>2, Drops
<1>4. /\ [hs EXCEPT ![h] = hs[h], ![o] = NoHandle] = [hs EXCEPT ![o] = NoHandle]
      /\ [tx EXCEPT ![h] = tx[h] \o tx[o], ![o] = <<>>] = [tx EXCEPT ![o] = <<>>]
  BY <1>2 DEF Consistent
<1> QED
  BY <1>3, <1>4 DEF Merges

(* The bytes of the other handle are appended, and it is dropped.          *)
LEMMA Appends ==
    ASSUME SizeLaws, NEW hs, NEW bl, NEW tx, Consistent(hs, bl, tx), NEW h \in Handles, NEW o \in Handles,
           h # o, hs[h] # NoHandle, hs[o] # NoHandle, hs[h].mode = "mut",
           Fresh \in Blocks, On(hs, Fresh) = {}
    PROVE  LET e == extend_from_slice(bl, hs[h], Window(bl, hs[o])) IN
           Merges(hs, drop(e.bl, hs[o]), tx, h, o, e.me)
<1> DEFINE e == extend_from_slice(bl, hs[h], Window(bl, hs[o]))
           hs1 == [hs EXCEPT ![h] = e.me]
           tx1 == [tx EXCEPT ![h] = tx[h] \o tx[o]]
<1>1. tx[o] \in Seq(Nat) /\ Window(bl, hs[o]) = tx[o] /\ <<>> \in Seq(Nat)
  <2>1. /\ tx[o] \in Seq(Nat) /\ hs[o] \in Place /\ bl[hs[o].b] \in Allocation
        /\ Fitted(hs[o], bl[hs[o].b]) /\ Shown(hs[o], bl[hs[o].b], tx[o])
    BY HandleFacts
  <2> QED
    BY <2>1, WindowFacts, EmptyText
<1>2. Leads(hs, tx, h, e, tx[h] \o tx[o])
  BY <1>1, Extends
<1> HIDE DEF e
<1>3. Consistent(hs1, e.bl, tx1)
  BY <1>2 DEF Leads
<1>4. hs1[o] = hs[o]
  BY DEF Consistent
<1>5. [hs1 EXCEPT ![o] = NoHandle] = [hs EXCEPT ![h] = e.me, ![o] = NoHandle]
      /\ [tx1 EXCEPT ![o] = <<>>] = [tx EXCEPT ![h] = tx[h] \o tx[o], ![o] = <<>>]
  OBVIOUS
<1> HIDE DEF hs1, tx1
<1>6. Consistent([hs1 EXCEPT ![o] = NoHandle], drop(e.bl, hs1[o]), [tx1 EXCEPT ![o] = <<>>])
  BY <1>1, <1>3, <1>4, Drops
<1>7. Merges(hs, drop(e.bl, hs[o]), tx, h, o, e.me)
  BY <1>4, <1>5, <1>6 DEF Merges
<1> QED
  BY <1>7 DEF e

(* Two windows that touch, as one.                                         *)
Join(me, other) == [me EXCEPT !.len = @ + other.len, !.cap = @ + other.cap]

(* They have no gap between them, for what one may write the other does    *)
(* not reach, and the one they make fits and is apart from third ones.     *)
LEMMA JoinFacts ==
    ASSUME NEW me \in Place, NEW other \in Place, NEW a \in Allocation, me.mode = "mut", other.mode = "mut",
           Fitted(me, a), Fitted(other, a), Compatible(me, other), Adjacent(me, other),
           me.len # 0, other.cap # 0,
           NEW s \in Seq(Nat), NEW t \in Seq(Nat), Shown(me, a, s), Shown(other, a, t)
    PROVE  /\ Join(me, other) \in Place /\ Join(me, other).b = me.b
           /\ Fitted(Join(me, other), a) /\ Shown(Join(me, other), a, s \o t)
           /\ \A k \in Place : Compatible(me, k) /\ Compatible(other, k) => Compatible(Join(me, other), k)
<1> DEFINE len == me.len + other.len
           cap == me.cap + other.cap
           m == Join(me, other)
           u == s \o t
<1>1. /\ me.off \in Nat /\ me.len \in Nat /\ me.cap \in Nat /\ other.off \in Nat /\ other.len \in Nat
      /\ other.cap \in Nat /\ a.cap \in Nat /\ me.kind = "arc" /\ me.off + me.len = other.off
      /\ me.len <= me.cap /\ other.len <= other.cap /\ other.off + other.cap <= a.cap
      /\ a.ref_count # 0 /\ me.off + me.cap <= a.cap
  BY DEF Place, Allocation, Adjacent, Fitted
<1>2. me.cap = me.len
  <2>1. Apart(me, other) /\ Extent(me) = me.cap /\ Extent(other) = other.cap
    BY DEF Compatible, Extent
  <2> QED
    BY <1>1, <2>1, SMTT(30) DEF Apart
<1>3. len \in Nat /\ cap \in Nat /\ len <= cap /\ me.off + cap <= a.cap
  BY <1>1, <1>2, SMTT(30)
<1>4. m = [me EXCEPT !.len = len, !.cap = cap]
  BY DEF Join
<1> HIDE DEF len, cap, m
<1>5. /\ m \in Place /\ m.b = me.b /\ m.kind = me.kind /\ m.mode = me.mode /\ m.off = me.off
      /\ m.len = len /\ m.cap = cap
  BY <1>3, <1>4 DEF Place
<1>6. Fitted(m, a)
  BY <1>1, <1>3, <1>5 DEF Fitted
<1>7. Shown(m, a, u)
  <2>1. Len(s) = me.len /\ Len(t) = other.len
    BY DEF Shown
  <2>2. /\ u \in Seq(Nat) /\ Len(u) = len
        /\ \A i \in 1 .. len : u[i] = IF i <= me.len THEN s[i] ELSE t[i - me.len]
    <3>1. /\ u \in Seq(Nat) /\ Len(u) = Len(s) + Len(t)
          /\ \A i \in 1 .. Len(s) + Len(t) : u[i] = IF i <= Len(s) THEN s[i] ELSE t[i - Len(s)]
      BY ConcatFacts
    <3> HIDE DEF u
    <3> QED
      BY <2>1, <3>1 DEF len
  <2> HIDE DEF u
  <2>3. ASSUME NEW i \in 1 .. len PROVE u[i] = a.mem[me.off + i]
    <3>1. CASE i <= me.len
      <4>1. i \in 1 .. me.len
        BY <1>1, <1>3, <3>1, SMTT(30)
      <4> QED
        BY <2>2, <3>1, <4>1 DEF Shown
    <3>2. CASE ~(i <= me.len)
      <4>1. i - me.len \in 1 .. other.len /\ other.off + (i - me.len) = me.off + i
        <5>1. i \in 1 .. me.len + other.len
          BY DEF len
        <5>2. me.off \in Nat /\ me.len \in Nat /\ other.len \in Nat
          BY <1>1
        <5>3. Behind(me.off, me.len, other.len, i)
          BY <3>2, <5>1, <5>2, BehindFirst
        <5> QED
          BY <1>1, <5>3 DEF Behind
      <4>2. t[i - me.len] = a.mem[other.off + (i - me.len)]
        BY <4>1 DEF Shown
      <4> QED
        BY <2>2, <3>2, <4>1, <4>2
    <3> QED
      BY <3>1, <3>2
  <2> QED
    BY <1>5, <2>2, <2>3 DEF Shown
<1>8. ASSUME NEW k \in Place, Compatible(me, k), Compatible(other, k) PROVE Compatible(m, k)
  <2>1. /\ Extent(me) = me.cap /\ Extent(other) = other.cap /\ Extent(m) = cap /\ Extent(k) \in Nat
        /\ k.off \in Nat
    BY <1>5 DEF Extent, Place
  <2>2. Apart(me, k) /\ Apart(other, k) /\ k.kind = "arc"
    BY <1>8 DEF Compatible
  <2>3. Apart(m, k)
    BY <1>1, <1>2, <1>5, <2>1, <2>2, SMTT(30) DEF Apart, cap
  <2> QED
    BY <1>1, <1>5, <2>2, <2>3 DEF Compatible
<1> QED
  BY <1>5, <1>6, <1>7, <1>8 DEF m

(* unsplit of two windows that touch: the other handle is counted off, and *)
(* the one left covers both.                                               *)
LEMMA Rejoins ==
    ASSUME SizeLaws, NEW hs, NEW bl, NEW tx, Consistent(hs, bl, tx), NEW h \in Handles, NEW o \in Handles,
           h # o, hs[h] # NoHandle, hs[o] # NoHandle, hs[h].mode = "mut", hs[o].mode = "mut",
           Adjacent(hs[h], hs[o]), hs[h].len # 0, hs[o].cap # 0
    PROVE  Merges(hs, drop(bl, hs[o]), tx, h, o, Join(hs[h], hs[o]))
<1> DEFINE b == hs[h].b
           n == bl[b].ref_count
           a == [bl[b] EXCEPT !.ref_count = n - 1]
           hs1 == [hs EXCEPT ![o] = NoHandle]
           bl1 == drop(bl, hs[o])
           tx1 == [tx EXCEPT ![o] = <<>>]
           m == Join(hs[h], hs[o])
           u == tx[h] \o tx[o]
<1>1. /\ hs[h] \in Place /\ hs[o] \in Place /\ b \in Blocks /\ bl[b] \in Allocation /\ hs[o].b = b
      /\ Fitted(hs[h], bl[b]) /\ Shown(hs[h], bl[b], tx[h]) /\ tx[h] \in Seq(Nat) /\ h \in On(hs, b)
  BY HandleFacts DEF Adjacent
<1>2. /\ Fitted(hs[o], bl[b]) /\ Shown(hs[o], bl[b], tx[o]) /\ tx[o] \in Seq(Nat) /\ o \in On(hs, b)
  BY <1>1, HandleFacts
<1>3. Compatible(hs[h], hs[o])
  BY <1>1, <1>2 DEF Consistent
<1>4. n # 1 /\ n # 0 /\ n \in Nat /\ hs[o].kind # "vec"
  <2>1. h \in Others(hs, o, hs[o].b) /\ hs[o].kind = "arc"
    BY <1>1 DEF Others, Adjacent
  <2>2. ~is_unique(bl, hs[o])
    BY <2>1, OnlyHandle
  <2> QED
    BY <1>1, <1>2, <2>1, <2>2 DEF is_unique, Fitted, Allocation
<1>5. bl1 = [bl EXCEPT ![b] = a] /\ bl1[b] = a
  BY <1>1, <1>4 DEF drop, release_shared, Consistent
<1> HIDE DEF n, b
<1>6. a \in Allocation /\ a.mem = bl[b].mem /\ a.cap = bl[b].cap /\ a.ref_count = n - 1 /\ n - 1 # 0
  BY <1>1, <1>4, SMTT(30) DEF Allocation
<1> HIDE DEF a
<1>7. /\ m \in Place /\ m.b = hs[h].b /\ Fitted(m, bl[b]) /\ Shown(m, bl[b], u)
      /\ \A k \in Place : Compatible(hs[h], k) /\ Compatible(hs[o], k) => Compatible(m, k)
  BY <1>1, <1>2, <1>3, JoinFacts
<1> HIDE DEF m
<1>8. m.kind = "arc"
  <2>1. m.kind = hs[h].kind
    BY <1>1 DEF m, Join, Place
  <2> QED
    BY <2>1 DEF Adjacent
<1>9. Fitted(m, a) /\ Shown(m, a, u)
  BY <1>6, <1>7, <1>8 DEF Fitted, Shown
<1>10. u \in Seq(Nat) /\ <<>> \in Seq(Nat)
  BY <1>1, <1>2, ConcatFacts, EmptyText
<1> HIDE DEF u
<1>11. Consistent(hs1, bl1, tx1)
  BY <1>10, Drops
<1>12. /\ hs1[h] = hs[h] /\ hs1[o] = NoHandle /\ \A k \in Handles : k # o => hs1[k] = hs[k]
  BY DEF Consistent
<1> HIDE DEF hs1, bl1, tx1
<1>13. ASSUME NEW k \in Others(hs1, h, b)
       PROVE  Compatible(m, hs1[k]) /\ Fitted(hs1[k], a) /\ Shown(hs1[k], a, tx1[k])
  <2>1. k \in Handles /\ k # h /\ k # o /\ hs1[k] = hs[k] /\ hs1[k] # NoHandle /\ hs1[k].b = b /\ k \in On(hs, b)
    BY <1>12, <1>13 DEF Others, On
  <2>2. Fitted(hs1[k], a) /\ Shown(hs1[k], a, tx1[k]) /\ hs1[k] \in Place
    <3>1. Fitted(hs1[k], bl1[hs1[k].b]) /\ Shown(hs1[k], bl1[hs1[k].b], tx1[k]) /\ hs1[k] \in Place
      BY <1>11, <2>1, HandleFacts
    <3> QED
      BY <1>5, <2>1, <3>1
  <2>3. Compatible(hs[h], hs[k]) /\ Compatible(hs[o], hs[k])
    BY <1>1, <1>2, <2>1 DEF Consistent
  <2> QED
    BY <1>7, <2>1, <2>2, <2>3
<1>14. Suits(hs1, tx1, h, b, a)
  BY <1>6, <1>13 DEF Suits
<1>15. Counted(On(hs1, b) \cup {h}, a)
  <2>1. h \in On(hs1, b)
    BY <1>1, <1>12 DEF On, b
  <2>2. On(hs1, b) \cup {h} = On(hs1, b)
    BY <2>1
  <2>3. Counted(On(hs1, b), a)
    BY <1>1, <1>5, <1>11 DEF Consistent
  <2> QED
    BY <2>2, <2>3
<1>16. m.b = b /\ hs1[h].b = m.b
  BY <1>7, <1>12 DEF b
<1>17. Consistent([hs1 EXCEPT ![h] = m], [bl1 EXCEPT ![m.b] = a], [tx1 EXCEPT ![h] = u])
  BY <1>7, <1>9, <1>10, <1>11, <1>13, <1>14, <1>15, <1>16, Settles
<1>18. [bl1 EXCEPT ![m.b] = a] = bl1
  BY <1>5, <1>11, <1>16 DEF Consistent
<1>19. /\ [hs1 EXCEPT ![h] = m] = [hs EXCEPT ![h] = m, ![o] = NoHandle]
       /\ [tx1 EXCEPT ![h] = u] = [tx EXCEPT ![h] = u, ![o] = <<>>]
  <2>1. DOMAIN hs = Handles /\ DOMAIN tx = Handles
    BY DEF Consistent
  <2>2. [hs1 EXCEPT ![h] = m] = [hs EXCEPT ![h] = m, ![o] = NoHandle]
    BY <2>1 DEF hs1
  <2>3. [tx1 EXCEPT ![h] = u] = [tx EXCEPT ![h] = u, ![o] = <<>>]
    BY <2>1 DEF tx1
  <2> QED
    BY <2>2, <2>3
<1> QED
  BY <1>17, <1>18, <1>19 DEF Merges, u, m, bl1

(* unsplit.                                                                *)
LEMMA Unsplits ==
    ASSUME SizeLaws, NEW hs, NEW bl, NEW tx, Consistent(hs, bl, tx), NEW h \in Handles, NEW o \in Handles,
           h # o, hs[h] # NoHandle, hs[o] # NoHandle, hs[h].mode = "mut", hs[o].mode = "mut",
           Fresh \in Blocks, On(hs, Fresh) = {}
    PROVE  Merges(hs, unsplit(bl, hs[h], hs[o]).bl, tx, h, o, unsplit(bl, hs[h], hs[o]).me)
<1> DEFINE r == unsplit(bl, hs[h], hs[o])
           e == extend_from_slice(bl, hs[h], Window(bl, hs[o]))
<1>1. CASE hs[h].len = 0
  <2>1. r = Both(drop(bl, hs[h]), hs[o])
    BY <1>1 DEF unsplit
  <2>2. r.bl = drop(bl, hs[h]) /\ r.me = hs[o]
    BY <2>1, SMTT(30) DEF Both
  <2> HIDE DEF r
  <2> QED
    BY <1>1, <2>2, Supplants DEF r
<1>2. CASE hs[h].len # 0 /\ hs[o].cap = 0
  <2>1. r = Both(drop(bl, hs[o]), hs[h])
    BY <1>2 DEF unsplit
  <2>2. r.bl = drop(bl, hs[o]) /\ r.me = hs[h]
    BY <2>1, SMTT(30) DEF Both
  <2>3. hs[o].len = 0
    <3>1. hs[o].len \in Nat /\ hs[o].len <= hs[o].cap
      BY HandleFacts DEF Place, Fitted
    <3> QED
      BY <1>2, <3>1, SMTT(30)
  <2> HIDE DEF r
  <2> QED
    BY <2>2, <2>3, Absorbs DEF r
<1>3. CASE hs[h].len # 0 /\ hs[o].cap # 0 /\ Adjacent(hs[h], hs[o])
  <2>1. r = Both(drop(bl, hs[o]), Join(hs[h], hs[o]))
    BY <1>3 DEF unsplit, Join
  <2>2. r.bl = drop(bl, hs[o]) /\ r.me = Join(hs[h], hs[o])
    BY <2>1, SMTT(30) DEF Both
  <2> HIDE DEF r
  <2> QED
    BY <1>3, <2>2, Rejoins DEF r
<1>4. CASE hs[h].len # 0 /\ hs[o].cap # 0 /\ ~Adjacent(hs[h], hs[o])
  <2>1. r = Both(drop(e.bl, hs[o]), e.me)
    BY <1>4 DEF unsplit
  <2>2. r.bl = drop(e.bl, hs[o]) /\ r.me = e.me
    BY <2>1, SMTT(30) DEF Both
  <2>3. Merges(hs, drop(e.bl, hs[o]), tx, h, o, e.me)
    BY Appends
  <2> HIDE DEF r, e
  <2> QED
    BY <2>2, <2>3 DEF r
<1> QED
  BY <1>1, <1>2, <1>3, <1>4

=============================================================================
