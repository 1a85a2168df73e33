------------------------------- MODULE RingBuf ------------------------------
(***************************************************************************)
(* ring_buf.c: the circular byte buffer, at the granularity of its copy    *)
(* loops.  A call is in progress while op # "idle"; len, idx and ret are   *)
(* the locals of the C functions, src and dst the caller's memory.         *)
(***************************************************************************)
EXTENDS Integers, Sequences

CONSTANTS
    Size,       \* len given to ring_buf_init
    Byte,       \* values a byte can have
    Zero,       \* content of static memory at start-up
    MaxLen      \* longest transfer a caller asks for in one call

ASSUME RingAssumption ==
    /\ Size \in Nat \ {0}
    /\ MaxLen \in Nat
    /\ Zero \in Byte

Message == UNION {[1..n -> Byte] : n \in 0..MaxLen}

VARIABLES
    buff, start, end, count, remain,    \* struct ring_buf
    op,         \* "idle", or the call in progress: "write", "read"
    len,        \* local len: iterations left in the copy loop
    idx,        \* local end (write) or start (read)
    want,       \* the len a read was asked for
    ret,        \* local ret
    src,        \* the bytes a write was given
    dst,        \* the bytes a read has copied so far
    result      \* what the last finished call returned

struct == <<buff, start, end, count, remain>>
frame  == <<op, want, len, idx, ret, src, dst>>
vars   == <<struct, frame, result>>

\* Fault: "if (i > size) i = 0".
WrapLate(i) == IF i > Size THEN i - Size ELSE i

\* The loops' "if (i >= size) i = 0", stated for any i below 2 * Size.
Wrap(i) == IF i >= Size THEN i - Size ELSE i

\* Bytes the call in progress moves in total.
Moved == IF op = "write" THEN Len(src) - ret ELSE ret

Init ==     \* ring_buf_init on zero-initialised memory
    /\ buff = [i \in 0..Size-1 |-> Zero]
    /\ start = 0 /\ end = 0 /\ count = 0 /\ remain = Size
    /\ op = "idle" /\ want = 0 /\ len = 0 /\ idx = 0 /\ ret = 0
    /\ src = <<>> /\ dst = <<>>
    /\ result = [asked |-> 0, ret |-> 0, data |-> <<>>]

Reset ==
    /\ op = "idle"
    /\ start' = 0 /\ end' = 0 /\ count' = 0 /\ remain' = Size
    /\ UNCHANGED <<buff, frame, result>>

\* The early return of ring_buf_write on a full buffer.
WriteFull(s) ==
    /\ op = "idle"
    /\ remain = 0
    /\ result' = [asked |-> Len(s), ret |-> Len(s), data |-> <<>>]
    /\ UNCHANGED <<struct, frame>>

\* Fault: one cell is always left free.
FittingLessOne(n) == IF remain <= n THEN remain - 1 ELSE n

\* "if (buff->remain < len) len = buff->remain"
Fitting(n) == IF remain < n THEN remain ELSE n

\* ring_buf_write up to its loop: truncate to what fits, update the counters.
WriteBegin(s) ==
    LET n == Fitting(Len(s)) IN
    /\ op = "idle"
    /\ remain # 0
    /\ op' = "write"
    /\ src' = s
    /\ ret' = Len(s) - n
    /\ len' = n
    /\ count' = count + n
    /\ remain' = remain - n
    /\ idx' = end
    /\ UNCHANGED <<buff, start, end, want, dst, result>>

\* Fault: the loop does not count down.
WriteByteStuck ==
    /\ op = "write" /\ len > 0
    /\ buff' = [buff EXCEPT ![idx] = src[Moved - len + 1]]
    /\ idx' = Wrap(idx + 1)
    /\ UNCHANGED <<start, end, count, remain, op, want, len, ret, src, dst, result>>

\* Fault: the bytes are taken from the wrong end of the caller's data.
WriteByteBackwards ==
    /\ op = "write" /\ len > 0
    /\ buff' = [buff EXCEPT ![idx] = src[len]]
    /\ idx' = Wrap(idx + 1) /\ len' = len - 1
    /\ UNCHANGED <<start, end, count, remain, op, want, ret, src, dst, result>>

\* One iteration: buff->buff[end++] = *(src++).
WriteByte ==
    /\ op = "write"
    /\ len > 0
    /\ buff' = [buff EXCEPT ![idx] = src[Moved - len + 1]]
    /\ idx' = Wrap(idx + 1)
    /\ len' = len - 1
    /\ UNCHANGED <<start, end, count, remain, op, want, ret, src, dst, result>>

\* "Update buffer with new end value" and return; the frame is discarded.
WriteEnd ==
    /\ op = "write"
    /\ len = 0
    /\ end' = idx
    /\ result' = [asked |-> Len(src), ret |-> ret, data |-> <<>>]
    /\ op' = "idle" /\ idx' = 0 /\ ret' = 0 /\ src' = <<>>
    /\ UNCHANGED <<buff, start, count, remain, want, len, dst>>

\* The early return of ring_buf_read on an empty buffer.
ReadEmpty(n) ==
    /\ op = "idle"
    /\ count = 0
    /\ result' = [asked |-> n, ret |-> 0, data |-> <<>>]
    /\ UNCHANGED <<struct, frame>>

\* Fault: the caller is promised all it asked for.
AvailableAll(n) == n

\* "if (len > buff->count) len = buff->count"
Available(n) == IF n > count THEN count ELSE n

\* ring_buf_read up to its loop: truncate to what is there, update the counters.
ReadBegin(n) ==
    LET m == Available(n) IN
    /\ op = "idle"
    /\ count # 0
    /\ op' = "read"
    /\ want' = n
    /\ ret' = m
    /\ len' = m
    /\ count' = count - m
    /\ remain' = remain + m
    /\ idx' = start
    /\ UNCHANGED <<buff, start, end, src, dst, result>>

\* One iteration: *(dst++) = buff->buff[start++].
ReadByte ==
    /\ op = "read"
    /\ len > 0
    /\ dst' = Append(dst, buff[idx])
    /\ idx' = Wrap(idx + 1)
    /\ len' = len - 1
    /\ UNCHANGED <<struct, op, want, ret, src, result>>

\* Fault: the new start value is not stored.
ReadEndKeepsStart ==
    /\ op = "read" /\ len = 0
    /\ result' = [asked |-> want, ret |-> ret, data |-> dst]
    /\ op' = "idle" /\ want' = 0 /\ idx' = 0 /\ ret' = 0 /\ dst' = <<>>
    /\ UNCHANGED <<struct, len, src>>

\* "Update buffer with new start value" and return; the frame is discarded.
ReadEnd ==
    /\ op = "read"
    /\ len = 0
    /\ start' = idx
    /\ result' = [asked |-> want, ret |-> ret, data |-> dst]
    /\ op' = "idle" /\ want' = 0 /\ idx' = 0 /\ ret' = 0 /\ dst' = <<>>
    /\ UNCHANGED <<buff, end, count, remain, len, src>>

Next ==
    \/ Reset
    \/ \E s \in Message : WriteFull(s) \/ WriteBegin(s)
    \/ WriteByte \/ WriteEnd
    \/ \E n \in 0..MaxLen : ReadEmpty(n) \/ ReadBegin(n)
    \/ ReadByte \/ ReadEnd

Spec == Init /\ [][Next]_vars

\* The caller's CPU keeps executing a call it has entered.
FairSpec == Spec /\ WF_vars(WriteByte \/ WriteEnd \/ ReadByte \/ ReadEnd)
-----------------------------------------------------------------------------
TypeOK ==
    /\ buff \in [0..Size-1 -> Byte]
    /\ start \in 0..Size-1 /\ end \in 0..Size-1 /\ idx \in 0..Size-1
    /\ count \in 0..Size /\ remain \in 0..Size
    /\ op \in {"idle", "write", "read"}
    /\ want \in 0..MaxLen /\ len \in Nat /\ ret \in Nat
    /\ src \in Seq(Byte) /\ dst \in Seq(Byte)
    /\ result \in [asked : Nat, ret : Nat, data : Seq(Byte)]

\* Bytes that were queued before the call in progress took effect.
Committed ==
    CASE op = "write" -> count - Moved
      [] op = "read"  -> count + Moved
      [] OTHER        -> count

\* The n bytes of memory b from index a on, wrapping around.
Window(b, a, n) == [i \in 1..n |-> b[Wrap(a + i - 1)]]

Queued == Window(buff, start, Committed)
Queue == INSTANCE ByteQueue WITH Capacity <- Size, q <- Queued

\* Between calls the four counters agree: count and remain split the buffer and
\* end is where count bytes from start lead; inside a call they are ahead of
\* the committed index by exactly the bytes the call moves.
CountersAgree ==
    /\ count + remain = Size
    /\ Moved \in 0..Size /\ len \in 0..Moved
    /\ Committed \in 0..Size
    /\ end = Wrap(start + Committed)

\* A call moves fewer bytes than it was asked to only when it leaves the buffer
\* full (write) or empty (read).
TruncatesOnlyWhenForced ==
    /\ op = "write" => /\ Len(src) <= MaxLen
                       /\ ret <= Len(src)
                       /\ ret > 0 => remain = 0
    /\ op = "read"  => /\ ret <= want
                       /\ ret < want => count = 0

\* The copy loop never runs past the bytes its call claimed: a write fills the
\* free cells behind end, a read empties the oldest cells from start, in order.
CopyInOrder ==
    /\ op = "idle"  => len = 0 /\ ret = 0
    /\ op # "write" => src = <<>>
    /\ op # "read"  => dst = <<>>
    /\ op = "write" =>
        /\ idx = Wrap(end + (Moved - len))
        /\ \A j \in 1..(Moved - len) : buff[Wrap(end + j - 1)] = src[j]
    /\ op = "read"  =>
        /\ idx = Wrap(start + (Moved - len))
        /\ Len(dst) = Moved - len
        /\ \A j \in 1..(Moved - len) : dst[j] = buff[Wrap(start + j - 1)]

\* Each C call behaves as one step of the abstract queue, taken when the call
\* returns: ring_buf_write and ring_buf_read return and copy what ring_buf.h
\* says they do, and a copy loop in progress is invisible.
ImplementsQueue == Queue!QueueSpec

\* A call that was entered returns: the loops end.
CallsReturn == (op # "idle") ~> (op = "idle")
=============================================================================
