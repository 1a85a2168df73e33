------------------------------ MODULE QueueOps ------------------------------
(***************************************************************************)
(* What ring_buf.h promises of one call, as operators on the bytes queued: *)
(* a write keeps the prefix that fits, a read takes the prefix asked for.  *)
(***************************************************************************)
EXTENDS Integers, Sequences

CONSTANT Capacity    \* bytes the queue can hold, the len of ring_buf_init

ASSUME CapacityAssumption == Capacity \in Nat \ {0}

\* Fault: one byte is left free, as in a ring that has no counters.
AcceptedLessOne(q, s) ==
    IF Len(s) < Capacity - Len(q) THEN Len(s) ELSE Capacity - Len(q) - 1

\* Number of bytes of s that a write enqueues behind q.
Accepted(q, s) ==
    IF Len(s) <= Capacity - Len(q) THEN Len(s) ELSE Capacity - Len(q)

\* Number of bytes a read of n bytes dequeues from q.
Taken(q, n) == IF n <= Len(q) THEN n ELSE Len(q)

AfterWrite(q, s) == q \o SubSeq(s, 1, Accepted(q, s))

\* Fault: the last byte read stays queued.
AfterReadKeepsLast(q, n) == SubSeq(q, IF Taken(q, n) = 0 THEN 1 ELSE Taken(q, n), Len(q))

AfterRead(q, n)  == SubSeq(q, Taken(q, n) + 1, Len(q))
BytesRead(q, n)  == SubSeq(q, 1, Taken(q, n))
=============================================================================
