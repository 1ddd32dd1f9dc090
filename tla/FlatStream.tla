------------------------------- MODULE FlatStream -------------------------------
(***************************************************************************)
(* What Buf and BufMut promise, without chunks: bytes are written to the   *)
(* end of one sequence while there is room, and read from its front.  A    *)
(* call is served in full, or it changes nothing and reports (try_) or     *)
(* panics; read, next and write alone are content with less.  Of two calls *)
(* less is promised: an advance that panics may have consumed bytes, and   *)
(* get_int of no bytes may return or panic.                                *)
(***************************************************************************)
EXTENDS IntBytes

CONSTANTS
    UsizeMax,           \* lengths larger than this read as this
    ReadCalls,          \* [op, ty, order, n] of the reads
    WriteCalls,         \* [op, ty, order, n, v] of the writes
    LimitCalls          \* [op, n]: set_limit and into_inner

VARIABLES
    stream,             \* bytes written and not yet read
    room,               \* bytes that can still be written
    quota,              \* what a Take or Limit around it still allows
    open,               \* is it being written
    call,               \* the call under way
    out                 \* its answer

Unlimited == UsizeMax + 1
Idle == [op |-> "none"]
NoAnswer == [tag |-> "none"]
Done(v) == [tag |-> "ok", val |-> v]
Refused(requested, available) ==
    [tag |-> "err", requested |-> requested, available |-> available]
Panicked == [tag |-> "panic"]

AtMost(a, b) == IF a < b THEN a ELSE b
Visible == AtMost(AtMost(Len(stream), quota), UsizeMax)
Space == AtMost(AtMost(room, quota), UsizeMax)
Charge(n) == quota' = IF quota = Unlimited THEN Unlimited ELSE quota - n

Init ==
    /\ stream \in Seq(Byte)
    /\ room \in Nat
    /\ quota \in 0 .. Unlimited
    /\ open \in BOOLEAN
    /\ call = Idle
    /\ out = NoAnswer

-----------------------------------------------------------------------------
(* An integer has at most 8 bytes where their number is an argument.       *)
Illegal(c) == c.op \in {"get", "try_get", "put"} /\ c.ty \in {"uint", "int"} /\ c.n > 8

(* The docs of get_int list no panic for 0 bytes; the code has one when it *)
(* is built with overflow-checks.                                          *)
LeftOpen(c) == c.op = "get" /\ c.ty = "int" /\ c.n = 0

Wanted(c) ==
    CASE c.op = "next" -> AtMost(1, Visible)
      [] c.op = "read" -> AtMost(c.n, Visible)
      [] OTHER -> c.n

(* try_get_int does not extend the sign of fewer than 8 bytes.             *)
Signed(c) ==
    \/ c.ty \in {"i8", "i16", "i32", "i64", "i128"}
    \/ c.ty = "int" /\ (c.op = "get" \/ c.n = 8)

Value(c, s) ==
    CASE c.op \in {"get", "try_get"} -> from_bytes(s, Signed(c), c.order)
      [] c.op = "advance" -> <<>>
      [] OTHER -> s

Reply(c) ==
    IF Illegal(c) THEN Panicked
    ELSE IF Wanted(c) <= Visible THEN Done(Value(c, SubSeq(stream, 1, Wanted(c))))
    ELSE IF c.op \in {"try_get", "try_copy"} THEN Refused(Wanted(c), Visible)
    ELSE Panicked

Replies(c) == {Reply(c)} \cup (IF LeftOpen(c) THEN {Panicked} ELSE {})

(* How many bytes a call with this answer may consume.                     *)
Consumed(c, answer) ==
    IF answer.tag = "ok" THEN {Wanted(c)}
    ELSE IF c.op = "advance" THEN 0 .. Len(stream)
    ELSE {0}

Read ==
    /\ ~open
    /\ call = Idle
    /\ call' \in ReadCalls
    /\ out' \in Replies(call')
    /\ \E n \in Consumed(call', out') : stream' = SubSeq(stream, n + 1, Len(stream))
    /\ Charge(IF out'.tag = "ok" THEN Wanted(call') ELSE 0)
    /\ UNCHANGED <<room, open>>

Payload(c) ==
    CASE c.op = "put" -> to_bytes(c.v, c.n, c.order)
      [] c.op = "put_bytes" -> [i \in 1..c.n |-> c.v]
      [] OTHER -> c.v

Write ==
    /\ open
    /\ call = Idle
    /\ call' \in WriteCalls
    /\ LET c == call'
           s == IF Illegal(c) THEN <<>>
                ELSE IF c.op = "write" THEN SubSeq(c.v, 1, AtMost(Len(c.v), Space))
                ELSE Payload(c)
           served == ~Illegal(c) /\ Len(s) <= Space
       IN  \/ /\ served
              /\ stream' = stream \o s
              /\ room' = room - Len(s)
              /\ Charge(Len(s))
              /\ out' = Done(IF c.op = "write" THEN Len(s) ELSE <<>>)
           \/ /\ ~served
              /\ out' = Panicked
              /\ UNCHANGED <<stream, room, quota>>
    /\ UNCHANGED open

ChangeLimit ==
    /\ call = Idle /\ quota # Unlimited
    /\ call' \in LimitCalls
    /\ quota' = IF call'.op = "set_limit" THEN call'.n ELSE Unlimited
    /\ out' = Done(<<>>)
    /\ UNCHANGED <<stream, room, open>>

Return ==
    /\ call # Idle /\ out # Panicked
    /\ call' = Idle /\ out' = NoAnswer
    /\ UNCHANGED <<stream, room, quota, open>>

Seal ==
    /\ open /\ call = Idle
    /\ open' = FALSE /\ room' = 0 /\ quota' = Unlimited
    /\ UNCHANGED <<stream, call, out>>

Next == Read \/ Write \/ ChangeLimit \/ Return \/ Seal

Spec == Init /\ [][Next]_<<stream, room, quota, open, call, out>>
==============================================================================
