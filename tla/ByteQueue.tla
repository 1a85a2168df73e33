------------------------------ MODULE ByteQueue -----------------------------
(***************************************************************************)
(* The abstract queue: each ring_buf call is one step on the sequence of   *)
(* queued bytes, and result is what the last call returned to its caller.  *)
(***************************************************************************)
EXTENDS QueueOps

CONSTANTS
    Byte,       \* values a byte can have
    MaxLen      \* longest transfer a caller asks for in one call

Message == UNION {[1..n -> Byte] : n \in 0..MaxLen}

VARIABLES
    q,          \* bytes queued, oldest first
    result      \* [asked: the len passed, ret: the return value, data: the bytes copied out]

queueVars == <<q, result>>

\* Start of a session: an empty queue and no call made yet.
QueueInit ==
    /\ q = <<>>
    /\ result = [asked |-> 0, ret |-> 0, data |-> <<>>]

\* ring_buf_write: the result is the number of bytes that were not enqueued.
Put(s) ==
    /\ q' = AfterWrite(q, s)
    /\ result' = [asked |-> Len(s), ret |-> Len(s) - Accepted(q, s), data |-> <<>>]

\* ring_buf_read: the result is the number of bytes copied, and the bytes.
Get(n) ==
    /\ q' = AfterRead(q, n)
    /\ result' = [asked |-> n, ret |-> Taken(q, n), data |-> BytesRead(q, n)]

\* ring_buf_reset: the queue is empty again.
Clear ==
    /\ q' = <<>>
    /\ UNCHANGED result

QueueNext ==
    \/ \E s \in Message : Put(s)
    \/ \E n \in 0..MaxLen : Get(n)
    \/ Clear

QueueSpec == QueueInit /\ [][QueueNext]_queueVars
=============================================================================
