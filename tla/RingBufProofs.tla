---------------------------- MODULE RingBufProofs ---------------------------
(***************************************************************************)
(* Theorems about ring_buf.c for every buffer size, byte alphabet and      *)
(* transfer length, with their proofs.                                     *)
(***************************************************************************)
EXTENDS RingBuf, SequenceTheorems, TLAPS

IInv == TypeOK /\ CountersAgree /\ TruncatesOnlyWhenForced /\ CopyInOrder

\* A message is a sequence of bytes.
LEMMA MessageIsSeq ==
    ASSUME NEW s \in Message
    PROVE  s \in Seq(Byte) /\ Len(s) \in 0..MaxLen
<1>1. PICK n \in 0..MaxLen : s \in [1..n -> Byte]
  BY DEF Message
<1>2. QED
  BY <1>1, RingAssumption

\* Advancing an index twice is advancing it by the sum: the one-step wrap of the
\* loops keeps idx at the cell that many bytes past the start of the copy.
LEMMA WrapSum ==
    ASSUME NEW a \in 0..Size-1, NEW j \in 0..Size, NEW k \in 0..Size, j + k <= Size
    PROVE  Wrap(Wrap(a + j) + k) = Wrap(a + (j + k)) /\ Wrap(a + j) \in 0..Size-1
BY RingAssumption DEF Wrap

\* Fewer than Size bytes apart, two indices are different cells.
LEMMA WrapDistinct ==
    ASSUME NEW a \in 0..Size-1, NEW j \in 0..Size-1, NEW k \in 0..Size-1, j # k
    PROVE  Wrap(a + j) # Wrap(a + k)
BY RingAssumption DEF Wrap

LEMMA InitIInv == Init => IInv
BY RingAssumption DEF Init, IInv, TypeOK, CountersAgree, TruncatesOnlyWhenForced, CopyInOrder, Moved, Committed, Wrap

\* The steps that only enter or leave a call, or touch no memory.
LEMMA CallStep ==
    ASSUME IInv,
           \/ Reset
           \/ \E s \in Message : WriteFull(s)
           \/ \E n \in 0..MaxLen : ReadEmpty(n)
    PROVE  IInv'
<1>1. CASE Reset
  BY <1>1, RingAssumption
  DEF IInv, TypeOK, CountersAgree, TruncatesOnlyWhenForced, CopyInOrder, Moved, Committed, Wrap, Reset, frame
<1>2. ASSUME NEW s \in Message, WriteFull(s) PROVE IInv'
  BY <1>2, MessageIsSeq
  DEF IInv, TypeOK, CountersAgree, TruncatesOnlyWhenForced, CopyInOrder, Moved, Committed, WriteFull, struct, frame
<1>3. ASSUME NEW n \in 0..MaxLen, ReadEmpty(n) PROVE IInv'
  BY <1>3
  DEF IInv, TypeOK, CountersAgree, TruncatesOnlyWhenForced, CopyInOrder, Moved, Committed, ReadEmpty, struct, frame
<1>4. QED
  BY <1>1, <1>2, <1>3

LEMMA WriteBeginStep ==
    ASSUME IInv, NEW s \in Message, WriteBegin(s)
    PROVE  IInv'
<1> DEFINE n == Fitting(Len(s))
<1>1. /\ start \in 0..Size-1 /\ end \in 0..Size-1 /\ count \in 0..Size
      /\ remain \in 0..Size /\ count + remain = Size /\ end = Wrap(start + count)
  BY WriteBegin(s) DEF IInv, TypeOK, CountersAgree, Committed, WriteBegin
<1>2. /\ n \in 0..Size /\ n <= remain /\ n <= Len(s)
      /\ s \in Seq(Byte) /\ Len(s) \in Nat /\ Size \in Nat
  BY <1>1, MessageIsSeq, RingAssumption DEF Fitting
<1>3. /\ op' = "write" /\ src' = s /\ ret' = Len(s) - n /\ len' = n
      /\ count' = count + n /\ remain' = remain - n /\ idx' = end
      /\ UNCHANGED <<buff, start, end, want, dst, result>>
  BY WriteBegin(s) DEF WriteBegin
<1> HIDE DEF n
<1>4. Moved' = n /\ Committed' = count
  BY <1>1, <1>2, <1>3 DEF Moved, Committed
<1>5. TypeOK'
  BY <1>1, <1>2, <1>3 DEF IInv, TypeOK
<1>6. CountersAgree'
  BY <1>1, <1>2, <1>3, <1>4 DEF CountersAgree, Wrap
<1>7. dst' = <<>>
  BY <1>3, WriteBegin(s) DEF IInv, CopyInOrder, WriteBegin
<1>8. CopyInOrder'
  BY <1>1, <1>2, <1>3, <1>4, <1>7 DEF CopyInOrder, Wrap
<1>9. TruncatesOnlyWhenForced'
  <2>1. Len(s) <= MaxLen
    BY MessageIsSeq
  <2>2. Len(s) - n > 0 => remain - n = 0
    BY <1>1, <1>2 DEF n, Fitting
  <2>3. QED
    BY <1>1, <1>2, <1>3, <2>1, <2>2 DEF TruncatesOnlyWhenForced
<1>10. QED
  BY <1>5, <1>6, <1>8, <1>9 DEF IInv

LEMMA WriteByteStep ==
    ASSUME IInv, WriteByte
    PROVE  IInv'
<1> DEFINE k == Moved - len
<1>1. /\ end \in 0..Size-1 /\ idx \in 0..Size-1 /\ buff \in [0..Size-1 -> Byte]
      /\ len \in 1..Moved /\ Moved \in 0..Size /\ Size \in Nat /\ Moved = Len(src) - ret
      /\ src \in Seq(Byte) /\ Len(src) \in Nat /\ ret \in Nat
  BY WriteByte, RingAssumption DEF IInv, TypeOK, CountersAgree, Moved, WriteByte
<1>2. /\ op = "write" /\ op' = "write" /\ len' = len - 1 /\ idx' = Wrap(idx + 1)
      /\ buff' = [buff EXCEPT ![idx] = src[k + 1]]
      /\ UNCHANGED <<start, end, count, remain, want, ret, src, dst, result>>
  BY WriteByte DEF WriteByte
<1>3. /\ idx = Wrap(end + k)
      /\ \A j \in 1..k : buff[Wrap(end + j - 1)] = src[j]
  BY <1>2 DEF IInv, CopyInOrder
<1>4. k \in 0..Size-1 /\ k + 1 \in 1..Len(src)
  BY <1>1
<1>5. Moved' = Moved /\ Committed' = Committed
  BY <1>2 DEF Moved, Committed
<1>6. (Moved - len)' = k + 1
  BY <1>1, <1>2, <1>5
<1> HIDE DEF k
<1>7. idx' = Wrap(end + (k + 1)) /\ idx' \in 0..Size-1
  <2>1. Wrap(idx + 1) = Wrap(end + (k + 1))
    BY <1>1, <1>3, <1>4, WrapSum
  <2>2. Wrap(idx + 1) \in 0..Size-1
    BY <1>1, WrapSum
  <2>3. QED
    BY <1>2, <2>1, <2>2
<1>8. TypeOK'
  BY <1>1, <1>2, <1>4, <1>7 DEF IInv, TypeOK
<1>9. CountersAgree'
  BY <1>1, <1>2, <1>5 DEF IInv, CountersAgree
<1>10. ASSUME NEW j \in 1..(k + 1)
       PROVE  buff'[Wrap(end + j - 1)] = src[j]
  <2>1. CASE j = k + 1
    BY <1>1, <1>2, <1>3, <1>4, <2>1
  <2>2. CASE j # k + 1
    <3>1. j \in 1..k /\ j - 1 \in 0..Size-1 /\ j - 1 # k /\ end + j - 1 = end + (j - 1)
      BY <1>1, <1>4, <2>2
    <3>2. Wrap(end + j - 1) # idx
      BY <1>1, <1>3, <1>4, <3>1, WrapDistinct
    <3>3. Wrap(end + j - 1) \in 0..Size-1
      BY <1>1, <3>1 DEF Wrap
    <3>4. QED
      BY <1>1, <1>2, <1>3, <3>1, <3>2, <3>3
  <2>3. QED
    BY <2>1, <2>2
<1>11. dst' = <<>> /\ TruncatesOnlyWhenForced'
  BY <1>2 DEF IInv, CopyInOrder, TruncatesOnlyWhenForced
<1>12. CopyInOrder'
  BY <1>1, <1>2, <1>5, <1>6, <1>7, <1>10, <1>11 DEF CopyInOrder
<1>13. QED
  BY <1>8, <1>9, <1>11, <1>12 DEF IInv

LEMMA WriteEndStep ==
    ASSUME IInv, WriteEnd
    PROVE  IInv'
<1>1. /\ start \in 0..Size-1 /\ end \in 0..Size-1 /\ idx \in 0..Size-1 /\ Size \in Nat
      /\ count \in 0..Size /\ Moved \in 0..Size /\ len = 0 /\ op = "write"
      /\ Moved \in Nat /\ ret \in Nat /\ Len(src) \in Nat
  BY WriteEnd, RingAssumption DEF IInv, TypeOK, CountersAgree, WriteEnd
<1>2. /\ op' = "idle" /\ end' = idx /\ idx' = 0 /\ ret' = 0 /\ src' = <<>>
      /\ result' = [asked |-> Len(src), ret |-> ret, data |-> <<>>]
      /\ UNCHANGED <<buff, start, count, remain, want, len, dst>>
  BY WriteEnd DEF WriteEnd
<1>3. /\ Committed = count - Moved /\ count - Moved \in 0..Size
      /\ end = Wrap(start + (count - Moved)) /\ idx = Wrap(end + Moved)
  BY <1>1 DEF IInv, CountersAgree, CopyInOrder, Committed
<1>4. Moved' = 0 /\ Committed' = count
  BY <1>1, <1>2 DEF Moved, Committed
<1>5. idx = Wrap(start + count)
  BY <1>1, <1>3 DEF Wrap
<1>6. TypeOK'
  BY <1>1, <1>2 DEF IInv, TypeOK
<1>7. CountersAgree'
  BY <1>1, <1>2, <1>4, <1>5 DEF IInv, CountersAgree, Wrap
<1>8. dst' = <<>>
  BY <1>1, <1>2 DEF IInv, CopyInOrder
<1>9. CopyInOrder'
  BY <1>1, <1>2, <1>8 DEF CopyInOrder
<1>10. QED
  BY <1>2, <1>6, <1>7, <1>9 DEF IInv, TruncatesOnlyWhenForced

LEMMA ReadBeginStep ==
    ASSUME IInv, NEW n \in 0..MaxLen, ReadBegin(n)
    PROVE  IInv'
<1> DEFINE m == Available(n)
<1>1. /\ start \in 0..Size-1 /\ end \in 0..Size-1 /\ count \in 0..Size
      /\ remain \in 0..Size /\ count + remain = Size /\ end = Wrap(start + count)
      /\ op = "idle"
  BY ReadBegin(n) DEF IInv, TypeOK, CountersAgree, Committed, ReadBegin
<1>2. m \in 0..count /\ m \in Nat /\ Size \in Nat
  BY <1>1, RingAssumption DEF Available
<1>3. /\ op' = "read" /\ want' = n /\ ret' = m /\ len' = m
      /\ count' = count - m /\ remain' = remain + m /\ idx' = start
      /\ UNCHANGED <<buff, start, end, src, dst, result>>
  BY ReadBegin(n) DEF ReadBegin
<1> HIDE DEF m
<1>4. Moved' = m /\ Committed' = count
  BY <1>1, <1>2, <1>3 DEF Moved, Committed
<1>5. dst = <<>> /\ src = <<>>
  BY <1>1 DEF IInv, CopyInOrder
<1>6. TypeOK'
  <2>1. count - m \in 0..Size /\ remain + m \in 0..Size
    BY <1>1, <1>2
  <2>2. QED
    BY <1>1, <1>2, <1>3, <2>1 DEF IInv, TypeOK
<1>7. CountersAgree'
  BY <1>1, <1>2, <1>3, <1>4 DEF CountersAgree, Wrap
<1>8. CopyInOrder'
  BY <1>1, <1>2, <1>3, <1>4, <1>5 DEF CopyInOrder, Wrap
<1>9. TruncatesOnlyWhenForced'
  <2>1. m <= n /\ (m < n => count - m = 0)
    BY <1>1 DEF m, Available
  <2>2. QED
    BY <1>3, <2>1 DEF TruncatesOnlyWhenForced
<1>10. QED
  BY <1>6, <1>7, <1>8, <1>9 DEF IInv

LEMMA ReadByteStep ==
    ASSUME IInv, ReadByte
    PROVE  IInv'
<1> DEFINE k == Moved - len
<1>1. /\ start \in 0..Size-1 /\ idx \in 0..Size-1 /\ buff \in [0..Size-1 -> Byte]
      /\ len \in 1..Moved /\ Moved \in 0..Size /\ Size \in Nat /\ Moved = ret
      /\ dst \in Seq(Byte) /\ Len(dst) \in Nat
  BY ReadByte, RingAssumption DEF IInv, TypeOK, CountersAgree, Moved, ReadByte
<1>2. /\ op = "read" /\ op' = "read" /\ len' = len - 1 /\ idx' = Wrap(idx + 1)
      /\ dst' = Append(dst, buff[idx])
      /\ UNCHANGED <<buff, start, end, count, remain, want, ret, src, result>>
  BY ReadByte DEF ReadByte, struct
<1>3. /\ idx = Wrap(start + k) /\ Len(dst) = k
      /\ \A j \in 1..k : dst[j] = buff[Wrap(start + j - 1)]
  BY <1>2 DEF IInv, CopyInOrder
<1>4. k \in 0..Size-1
  BY <1>1
<1>5. Moved' = Moved /\ Committed' = Committed
  BY <1>2 DEF Moved, Committed
<1>6. (Moved - len)' = k + 1
  BY <1>1, <1>2, <1>5
<1> HIDE DEF k
<1>7. idx' = Wrap(start + (k + 1)) /\ idx' \in 0..Size-1
  <2>1. Wrap(idx + 1) = Wrap(start + (k + 1))
    BY <1>1, <1>3, <1>4, WrapSum
  <2>2. Wrap(idx + 1) \in 0..Size-1
    BY <1>1, WrapSum
  <2>3. QED
    BY <1>2, <2>1, <2>2
<1>8. dst' \in Seq(Byte) /\ Len(dst') = k + 1
  BY <1>1, <1>2, <1>3
<1>9. TypeOK'
  BY <1>1, <1>2, <1>7, <1>8 DEF IInv, TypeOK
<1>10. CountersAgree'
  BY <1>1, <1>2, <1>5 DEF IInv, CountersAgree
<1>11. ASSUME NEW j \in 1..(k + 1)
       PROVE  dst'[j] = buff[Wrap(start + j - 1)]
  <2>1. CASE j = k + 1
    <3>1. dst'[j] = buff[idx]
      BY <1>1, <1>2, <1>3, <2>1
    <3>2. start + j - 1 = start + k
      BY <1>1, <1>4, <2>1
    <3>3. QED
      BY <1>3, <3>1, <3>2
  <2>2. CASE j # k + 1
    <3>1. j \in 1..k
      BY <1>4, <2>2
    <3>2. dst'[j] = dst[j]
      BY <1>1, <1>2, <1>3, <1>4, <3>1
    <3>3. QED
      BY <1>3, <3>1, <3>2
  <2>3. QED
    BY <2>1, <2>2
<1>12. CopyInOrder'
  BY <1>1, <1>2, <1>5, <1>6, <1>7, <1>8, <1>11 DEF IInv, CopyInOrder
<1>13. QED
  BY <1>2, <1>9, <1>10, <1>12 DEF IInv, TruncatesOnlyWhenForced

LEMMA ReadEndStep ==
    ASSUME IInv, ReadEnd
    PROVE  IInv'
<1>1. /\ start \in 0..Size-1 /\ end \in 0..Size-1 /\ idx \in 0..Size-1 /\ Size \in Nat
      /\ count \in 0..Size /\ Moved \in 0..Size /\ len = 0 /\ op = "read"
      /\ ret \in Nat /\ dst \in Seq(Byte) /\ MaxLen \in Nat
  BY ReadEnd, RingAssumption DEF IInv, TypeOK, CountersAgree, ReadEnd
<1>2. /\ op' = "idle" /\ start' = idx /\ want' = 0 /\ idx' = 0 /\ ret' = 0 /\ dst' = <<>>
      /\ result' = [asked |-> want, ret |-> ret, data |-> dst]
      /\ UNCHANGED <<buff, end, count, remain, len, src>>
  BY ReadEnd DEF ReadEnd
<1>3. /\ Committed = count + Moved /\ count + Moved \in 0..Size
      /\ end = Wrap(start + (count + Moved)) /\ idx = Wrap(start + Moved)
  BY <1>1 DEF IInv, CountersAgree, CopyInOrder, Committed
<1>4. Moved' = 0 /\ Committed' = count
  BY <1>1, <1>2 DEF Moved, Committed
<1>5. end = Wrap(idx + count)
  BY <1>1, <1>3 DEF Wrap
<1>6. TypeOK'
  BY <1>1, <1>2 DEF IInv, TypeOK
<1>7. CountersAgree'
  BY <1>1, <1>2, <1>4, <1>5 DEF IInv, CountersAgree, Wrap
<1>8. src' = <<>>
  BY <1>1, <1>2 DEF IInv, CopyInOrder
<1>9. CopyInOrder'
  BY <1>1, <1>2, <1>8 DEF CopyInOrder
<1>10. QED
  BY <1>2, <1>6, <1>7, <1>9 DEF IInv, TruncatesOnlyWhenForced

\* Every step of a caller or of a copy loop keeps the invariant.
LEMMA StepIInv == IInv /\ [Next]_vars => IInv'
<1> SUFFICES ASSUME IInv, [Next]_vars PROVE IInv'
  OBVIOUS
<1>1. CASE UNCHANGED vars
  BY <1>1 DEF IInv, TypeOK, CountersAgree, TruncatesOnlyWhenForced, CopyInOrder, Moved, Committed, vars, struct, frame
<1>2. CASE Next
  BY <1>2, CallStep, WriteBeginStep, WriteByteStep, WriteEndStep,
     ReadBeginStep, ReadByteStep, ReadEndStep DEF Next
<1>3. QED
  BY <1>1, <1>2

\* ring_buf.c never leaves its types: its indices stay inside the buffer and its
\* counters between 0 and size, whatever is written, read or reset.
THEOREM TypeCorrect == Spec => []TypeOK
<1>1. Spec => []IInv
  BY InitIInv, StepIInv, PTL DEF Spec
<1>2. IInv => TypeOK
  BY DEF IInv
<1>3. QED
  BY <1>1, <1>2, PTL

\* count and remain always split the buffer, and end is where the queued bytes
\* end, however the calls wrap around, also in the middle of a copy loop.
THEOREM CountersCorrect == Spec => []CountersAgree
<1>1. Spec => []IInv
  BY InitIInv, StepIInv, PTL DEF Spec
<1>2. IInv => CountersAgree
  BY DEF IInv
<1>3. QED
  BY <1>1, <1>2, PTL

\* A call moves fewer bytes than asked only by leaving the buffer full (write)
\* or empty (read).
THEOREM TruncationCorrect == Spec => []TruncatesOnlyWhenForced
<1>1. Spec => []IInv
  BY InitIInv, StepIInv, PTL DEF Spec
<1>2. IInv => TruncatesOnlyWhenForced
  BY DEF IInv
<1>3. QED
  BY <1>1, <1>2, PTL

\* A copy loop moves exactly the bytes its call claimed, in order, between the
\* caller's memory and the cells behind end (write) or from start (read).
THEOREM CopyCorrect == Spec => []CopyInOrder
<1>1. Spec => []IInv
  BY InitIInv, StepIInv, PTL DEF Spec
<1>2. IInv => CopyInOrder
  BY DEF IInv
<1>3. QED
  BY <1>1, <1>2, PTL
-----------------------------------------------------------------------------
(***************************************************************************)
(* ring_buf.c implements the abstract queue.                               *)
(***************************************************************************)

\* A sequence that agrees with q, then with m elements of t, is their concatenation.
LEMMA ConcatPrefix ==
    ASSUME NEW S, NEW q \in Seq(S), NEW t \in Seq(S), NEW m \in 0..Len(t), NEW f \in Seq(S),
           Len(f) = Len(q) + m,
           \A i \in 1..Len(q) : f[i] = q[i],
           \A j \in 1..m : f[Len(q) + j] = t[j]
    PROVE  f = q \o SubSeq(t, 1, m)
<1> DEFINE u == SubSeq(t, 1, m)
<1>1. u \in Seq(S) /\ Len(u) = m /\ \A j \in 1..m : u[j] = t[j]
  OBVIOUS
<1> HIDE DEF u
<1>2. q \o u \in Seq(S) /\ Len(q \o u) = Len(q) + m
  BY <1>1, ConcatProperties
<1>3. \A i \in 1..(Len(q) + m) : (q \o u)[i] = IF i <= Len(q) THEN q[i] ELSE u[i - Len(q)]
  BY <1>1, ConcatProperties
<1>4. Len(q) \in Nat /\ m \in Nat
  OBVIOUS
<1>5. ASSUME NEW i \in 1..Len(f) PROVE f[i] = (q \o u)[i]
  <2>1. CASE i <= Len(q)
    <3>1. i \in 1..Len(q) /\ i \in 1..(Len(q) + m)
      BY <1>4, <2>1
    <3>2. QED
      BY <1>3, <2>1, <3>1
  <2>2. CASE i > Len(q)
    <3>1. i - Len(q) \in 1..m /\ i = Len(q) + (i - Len(q)) /\ i \in 1..(Len(q) + m)
      BY <1>4, <2>2
    <3>2. f[i] = t[i - Len(q)]
      BY <3>1
    <3>3. ~(i <= Len(q))
      BY <1>4, <2>2
    <3>4. (q \o u)[i] = u[i - Len(q)]
      BY <1>3, <3>1, <3>3, Zenon
    <3>5. u[i - Len(q)] = t[i - Len(q)]
      BY <1>1, <3>1, Zenon
    <3>6. QED
      BY <3>2, <3>4, <3>5, Zenon
  <2>3. i <= Len(q) \/ i > Len(q)
    BY <1>4
  <2>4. QED
    BY <2>1, <2>2, <2>3, Zenon
<1>6. QED
  BY <1>2, <1>5, SeqEqual DEF u

\* A sequence that agrees with q past its first m elements is q without them.
LEMMA DropPrefix ==
    ASSUME NEW S, NEW q \in Seq(S), NEW m \in 0..Len(q), NEW f \in Seq(S),
           Len(f) = Len(q) - m,
           \A j \in 1..Len(f) : f[j] = q[m + j]
    PROVE  f = SubSeq(q, m + 1, Len(q))
BY SeqEqual

\* A sequence that agrees with q on its first m elements is that prefix.
LEMMA TakePrefix ==
    ASSUME NEW S, NEW q \in Seq(S), NEW m \in 0..Len(q), NEW f \in Seq(S),
           Len(f) = m,
           \A j \in 1..m : f[j] = q[j]
    PROVE  f = SubSeq(q, 1, m)
BY SeqEqual

\* A window of memory is a sequence of bytes, element i at index a + i - 1.
LEMMA WindowSeq ==
    ASSUME NEW b \in [0..Size-1 -> Byte], NEW a \in 0..Size-1, NEW n \in 0..Size
    PROVE  /\ Window(b, a, n) \in Seq(Byte)
           /\ Len(Window(b, a, n)) = n
           /\ \A i \in 1..n : Window(b, a, n)[i] = b[Wrap(a + i - 1)]
<1>1. \A i \in 1..n : Wrap(a + i - 1) \in 0..Size-1
  BY RingAssumption DEF Wrap
<1>2. Window(b, a, n) \in [1..n -> Byte]
  BY <1>1 DEF Window
<1>3. n \in Nat
  BY RingAssumption
<1>4. Window(b, a, n) \in Seq(Byte) /\ Len(Window(b, a, n)) = n
  BY <1>2, <1>3
<1>5. \A i \in 1..n : Window(b, a, n)[i] = b[Wrap(a + i - 1)]
  BY DEF Window
<1>6. QED
  BY <1>4, <1>5

\* The queue of a state that satisfies the invariant, as a window of memory.
LEMMA QueuedFacts ==
    ASSUME IInv
    PROVE  /\ Committed \in 0..Size /\ Size \in Nat
           /\ Queued \in Seq(Byte)
           /\ Len(Queued) = Committed
           /\ \A i \in 1..Committed : Queued[i] = buff[Wrap(start + i - 1)]
<1>1. /\ Committed \in 0..Size /\ start \in 0..Size-1 /\ buff \in [0..Size-1 -> Byte]
  BY DEF IInv, TypeOK, CountersAgree
<1>2. QED
  BY <1>1, WindowSeq, RingAssumption DEF Queued

LEMMA ResetRefines ==
    ASSUME IInv, Reset
    PROVE  Queue!Clear
<1>1. Committed' = 0
  BY DEF Reset, Committed, Moved, frame
<1>2. Queued' = <<>>
  BY <1>1 DEF Queued, Window
<1>3. QED
  BY <1>2 DEF Queue!Clear, Reset

LEMMA WriteFullRefines ==
    ASSUME IInv, NEW s \in Message, WriteFull(s)
    PROVE  Queue!Put(s)
<1>1. Committed = count /\ count = Size
  BY DEF WriteFull, Committed, IInv, TypeOK, CountersAgree
<1>2. Queued' = Queued
  BY DEF WriteFull, struct, frame, Queued, Committed, Moved
<1>3. Len(s) \in 0..MaxLen /\ s \in Seq(Byte) /\ MaxLen \in Nat
  BY MessageIsSeq, RingAssumption
<1>4. Queue!Accepted(Queued, s) = 0
  BY <1>1, <1>3, QueuedFacts DEF Queue!Accepted
<1>5. Queue!AfterWrite(Queued, s) = Queued
  <2>1. SubSeq(s, 1, 0) = <<>>
    BY <1>3
  <2>2. QED
    BY <1>4, <2>1, QueuedFacts, ConcatEmptySeq DEF Queue!AfterWrite
<1>6. QED
  BY <1>2, <1>3, <1>4, <1>5 DEF Queue!Put, WriteFull

LEMMA ReadEmptyRefines ==
    ASSUME IInv, NEW n \in 0..MaxLen, ReadEmpty(n)
    PROVE  Queue!Get(n)
<1>1. Committed = 0
  BY DEF ReadEmpty, Committed, IInv, TypeOK, CountersAgree
<1>2. Queued' = Queued /\ Queued = <<>> /\ n \in Nat
  BY <1>1, RingAssumption DEF ReadEmpty, struct, frame, Queued, Committed, Moved, Window
<1>3. Queue!Taken(Queued, n) = 0
  BY <1>2 DEF Queue!Taken
<1>4. QED
  BY <1>2, <1>3 DEF Queue!Get, Queue!AfterRead, Queue!BytesRead, ReadEmpty

\* Entering a call and copying a byte of it leave the queue as it was.
LEMMA BeginRefines ==
    ASSUME IInv, \/ \E s \in Message : WriteBegin(s)
                 \/ \E n \in 0..MaxLen : ReadBegin(n)
                 \/ ReadByte
    PROVE  UNCHANGED <<Queued, result>>
<1>1. Committed' = Committed /\ UNCHANGED <<buff, start, result>>
  <2>1. ASSUME NEW s \in Message, WriteBegin(s)
        PROVE  Committed' = Committed /\ UNCHANGED <<buff, start, result>>
    <3> DEFINE n == Fitting(Len(s))
    <3>1. n \in Nat /\ Len(s) \in Nat /\ count \in Nat
      BY MessageIsSeq, RingAssumption DEF IInv, TypeOK, Fitting
    <3>2. /\ op = "idle" /\ op' = "write" /\ src' = s /\ ret' = Len(s) - n
          /\ count' = count + n /\ UNCHANGED <<buff, start, result>>
      BY <2>1 DEF WriteBegin
    <3> HIDE DEF n
    <3>3. Moved' = n
      BY <3>1, <3>2 DEF Moved
    <3>4. QED
      BY <3>1, <3>2, <3>3 DEF Committed
  <2>2. ASSUME NEW n \in 0..MaxLen, ReadBegin(n)
        PROVE  Committed' = Committed /\ UNCHANGED <<buff, start, result>>
    BY <2>2, RingAssumption DEF ReadBegin, Available, Committed, Moved, IInv, TypeOK
  <2>3. CASE ReadByte
    BY <2>3 DEF ReadByte, struct, Committed, Moved
  <2>4. QED
    BY <2>1, <2>2, <2>3
<1>2. QED
  BY <1>1 DEF Queued, Window

LEMMA WriteByteRefines ==
    ASSUME IInv, WriteByte
    PROVE  UNCHANGED <<Queued, result>>
<1> DEFINE k == Moved - len
<1>1. /\ start \in 0..Size-1 /\ end \in 0..Size-1 /\ buff \in [0..Size-1 -> Byte]
      /\ Committed \in 0..Size /\ end = Wrap(start + Committed)
      /\ Moved \in 0..Size /\ len \in 1..Moved /\ Size \in Nat
      /\ idx = Wrap(end + k) /\ op = "write"
  BY RingAssumption DEF IInv, TypeOK, CountersAgree, CopyInOrder, WriteByte
<1>2. Committed + Moved <= Size
  BY <1>1 DEF IInv, TypeOK, CountersAgree, Committed
<1>3. k \in 0..Size-1 /\ Committed + k \in 0..Size-1
  BY <1>1, <1>2
<1>4. idx = Wrap(start + (Committed + k))
  BY <1>1, <1>3, WrapSum
<1>5. /\ buff' = [buff EXCEPT ![idx] = src[k + 1]] /\ Committed' = Committed
      /\ start' = start /\ result' = result
  BY DEF WriteByte, Committed, Moved
<1> HIDE DEF k
<1>6. ASSUME NEW i \in 1..Committed
      PROVE  buff'[Wrap(start + i - 1)] = buff[Wrap(start + i - 1)]
  <2>1. i - 1 \in 0..Size-1 /\ i - 1 # Committed + k /\ start + i - 1 = start + (i - 1)
    BY <1>1, <1>3
  <2>2. Wrap(start + i - 1) # idx
    BY <1>1, <1>3, <1>4, <2>1, WrapDistinct
  <2>3. Wrap(start + i - 1) \in 0..Size-1
    BY <1>1, <2>1 DEF Wrap
  <2>4. QED
    BY <1>1, <1>5, <2>2, <2>3
<1>7. QED
  BY <1>5, <1>6 DEF Queued, Window

LEMMA WriteEndRefines ==
    ASSUME IInv, WriteEnd
    PROVE  Queue!Put(src)
<1> DEFINE m == Moved
<1>1. /\ start \in 0..Size-1 /\ end \in 0..Size-1 /\ buff \in [0..Size-1 -> Byte]
      /\ Committed \in 0..Size /\ end = Wrap(start + Committed) /\ Size \in Nat
      /\ m \in 0..Size /\ len = 0 /\ op = "write" /\ src \in Seq(Byte) /\ ret \in Nat
      /\ Len(src) \in Nat
  BY RingAssumption DEF IInv, TypeOK, CountersAgree, WriteEnd
<1>2. /\ count = Committed + m /\ count \in 0..Size /\ ret = Len(src) - m
      /\ m \in 0..Len(src) /\ (ret > 0 => Committed + m = Size)
  <2>1. Committed = count - m /\ m = Len(src) - ret /\ count \in 0..Size /\ count + remain = Size
    BY <1>1 DEF IInv, TypeOK, CountersAgree, Committed, Moved
  <2>2. ret <= Len(src) /\ (ret > 0 => remain = 0)
    BY <1>1 DEF IInv, TruncatesOnlyWhenForced
  <2> HIDE DEF m
  <2>3. QED
    BY <1>1, <2>1, <2>2
<1>3. \A j \in 1..m : buff[Wrap(end + j - 1)] = src[j]
  BY <1>1 DEF IInv, CopyInOrder
<1>4. /\ Committed' = count /\ UNCHANGED <<buff, start>>
      /\ result' = [asked |-> Len(src), ret |-> ret, data |-> <<>>]
  BY DEF WriteEnd, Committed
<1>5. /\ Queued' \in Seq(Byte) /\ Len(Queued') = Committed + m
      /\ \A i \in 1..(Committed + m) : Queued'[i] = buff[Wrap(start + i - 1)]
  <2>1. Queued' = Window(buff, start, count)
    BY <1>4 DEF Queued, Window
  <2>2. QED
    BY <1>1, <1>2, <2>1, WindowSeq
<1> HIDE DEF m
<1>6. Queue!Accepted(Queued, src) = m
  <2>1. Len(Queued) = Committed
    BY QueuedFacts
  <2>2. Len(src) = m \/ (Len(src) > m /\ Committed + m = Size)
    BY <1>1, <1>2
  <2>3. QED
    BY <1>1, <1>2, <2>1, <2>2 DEF Queue!Accepted
<1>7. ASSUME NEW i \in 1..Committed PROVE Queued'[i] = Queued[i]
  <2>1. i \in 1..(Committed + m)
    BY <1>1
  <2>2. QED
    BY <1>5, <2>1, QueuedFacts
<1>8. ASSUME NEW j \in 1..m PROVE Queued'[Committed + j] = src[j]
  <2>1. Queued'[Committed + j] = buff[Wrap(start + (Committed + j) - 1)]
    BY <1>1, <1>5
  <2>2. Wrap(end + (j - 1)) = Wrap(start + (Committed + (j - 1)))
    <3>1. j - 1 \in 0..Size /\ Committed + (j - 1) <= Size
      BY <1>1, <1>2
    <3>2. QED
      BY <1>1, <3>1, WrapSum
  <2>3. /\ end + (j - 1) = end + j - 1
        /\ start + (Committed + (j - 1)) = start + (Committed + j) - 1
    BY <1>1
  <2>4. QED
    BY <1>3, <2>1, <2>2, <2>3
<1>9. Queued' = Queue!AfterWrite(Queued, src)
  <2>1. Len(Queued) = Committed /\ Queued \in Seq(Byte)
    BY QueuedFacts
  <2>2. Queued' = Queued \o SubSeq(src, 1, m)
    BY <1>1, <1>2, <1>5, <1>7, <1>8, <2>1, ConcatPrefix
  <2>3. QED
    BY <1>6, <2>2 DEF Queue!AfterWrite
<1>10. QED
  BY <1>2, <1>4, <1>6, <1>9 DEF Queue!Put

LEMMA ReadEndRefines ==
    ASSUME IInv, ReadEnd
    PROVE  Queue!Get(want)
<1> DEFINE m == Moved
<1>1. /\ start \in 0..Size-1 /\ idx \in 0..Size-1 /\ buff \in [0..Size-1 -> Byte]
      /\ Committed \in 0..Size /\ Size \in Nat /\ want \in Nat
      /\ m \in 0..Size /\ len = 0 /\ op = "read" /\ dst \in Seq(Byte) /\ ret = m
  BY RingAssumption DEF IInv, TypeOK, CountersAgree, ReadEnd, Moved
<1>2. /\ count \in 0..Size /\ Committed = count + m
      /\ m <= want /\ (m < want => count = 0)
  BY <1>1 DEF IInv, TypeOK, TruncatesOnlyWhenForced, Committed
<1>3. /\ idx = Wrap(start + m) /\ Len(dst) = m
      /\ \A j \in 1..m : dst[j] = buff[Wrap(start + j - 1)]
  BY <1>1 DEF IInv, CopyInOrder
<1>4. /\ Committed' = count /\ start' = idx /\ UNCHANGED buff
      /\ result' = [asked |-> want, ret |-> ret, data |-> dst]
  BY DEF ReadEnd, Committed
<1>5. /\ Queued' \in Seq(Byte) /\ Len(Queued') = count
      /\ \A i \in 1..count : Queued'[i] = buff[Wrap(idx + i - 1)]
  <2>1. Queued' = Window(buff, idx, count)
    BY <1>4 DEF Queued, Window
  <2>2. QED
    BY <1>1, <1>2, <2>1, WindowSeq
<1>6. Queue!Taken(Queued, want) = m
  BY <1>1, <1>2, QueuedFacts DEF Queue!Taken
<1> HIDE DEF m
<1>7. ASSUME NEW j \in 1..count PROVE Queued'[j] = Queued[m + j]
  <2>1. Queued'[j] = buff[Wrap(idx + j - 1)] /\ idx + j - 1 = idx + (j - 1)
    BY <1>1, <1>2, <1>5
  <2>2. Wrap(idx + (j - 1)) = Wrap(start + (m + (j - 1)))
    <3>1. j - 1 \in 0..Size /\ m + (j - 1) <= Size
      BY <1>1, <1>2
    <3>2. QED
      BY <1>1, <1>3, <3>1, WrapSum
  <2>3. m + j \in 1..Committed /\ start + (m + (j - 1)) = start + (m + j) - 1
    BY <1>1, <1>2
  <2>4. Queued[m + j] = buff[Wrap(start + (m + j) - 1)]
    BY <2>3, QueuedFacts
  <2>5. QED
    BY <2>1, <2>2, <2>3, <2>4
<1>8. ASSUME NEW j \in 1..m PROVE dst[j] = Queued[j]
  <2>1. j \in 1..Committed
    BY <1>1, <1>2
  <2>2. Queued[j] = buff[Wrap(start + j - 1)]
    BY <2>1, QueuedFacts, Zenon
  <2>3. QED
    BY <1>3, <2>2, Zenon
<1>9. Len(Queued) = Committed /\ Queued \in Seq(Byte) /\ m \in 0..Len(Queued)
  BY <1>1, <1>2, QueuedFacts
<1>10. Queued' = Queue!AfterRead(Queued, want)
  <2>1. Queued' = SubSeq(Queued, m + 1, Len(Queued))
    BY <1>1, <1>2, <1>5, <1>7, <1>9, DropPrefix
  <2>2. QED
    BY <1>6, <2>1 DEF Queue!AfterRead
<1>11. dst = Queue!BytesRead(Queued, want)
  <2>1. dst = SubSeq(Queued, 1, m)
    BY <1>1, <1>3, <1>8, <1>9, TakePrefix
  <2>2. QED
    BY <1>6, <2>1 DEF Queue!BytesRead
<1>12. QED
  BY <1>1, <1>4, <1>6, <1>10, <1>11 DEF Queue!Get

\* A message ring_buf_write is given is one the abstract queue accepts.
LEMMA SrcIsMessage ==
    ASSUME IInv, op = "write"
    PROVE  src \in Queue!Message
<1>1. src \in Seq(Byte) /\ Len(src) \in 0..MaxLen /\ src \in [1..Len(src) -> Byte]
  BY DEF IInv, TypeOK, TruncatesOnlyWhenForced
<1>2. QED
  BY <1>1 DEF Queue!Message

LEMMA InitRefines == Init => Queue!QueueInit
BY DEF Init, Queue!QueueInit, Queued, Window, Committed

LEMMA StepRefines == IInv /\ [Next]_vars => [Queue!QueueNext]_(Queue!queueVars)
<1> SUFFICES ASSUME IInv, [Next]_vars
             PROVE  Queue!QueueNext \/ UNCHANGED <<Queued, result>>
  BY DEF Queue!queueVars
<1>1. CASE Reset
  BY <1>1, ResetRefines DEF Queue!QueueNext
<1>2. ASSUME NEW s \in Message, WriteFull(s) PROVE Queue!QueueNext
  BY <1>2, WriteFullRefines DEF Queue!QueueNext, Message, Queue!Message
<1>3. ASSUME NEW n \in 0..MaxLen, ReadEmpty(n) PROVE Queue!QueueNext
  BY <1>3, ReadEmptyRefines DEF Queue!QueueNext
<1>4. CASE WriteEnd
  BY <1>4, WriteEndRefines, SrcIsMessage DEF Queue!QueueNext, WriteEnd
<1>5. CASE ReadEnd
  BY <1>5, ReadEndRefines DEF Queue!QueueNext, IInv, TypeOK
<1>6. CASE UNCHANGED vars
  BY <1>6 DEF vars, struct, frame, Queued, Window, Committed, Moved
<1>7. QED
  BY <1>1, <1>2, <1>3, <1>4, <1>5, <1>6, BeginRefines, WriteByteRefines DEF Next

\* The byte loops of ring_buf.c implement the atomic queue: seen at the moment
\* each call returns, writes keep the prefix that fits, reads return the oldest
\* bytes, and both report the number of bytes ring_buf.h says they do.
THEOREM RefinesQueue == Spec => ImplementsQueue
<1>1. Spec => []IInv
  BY InitIInv, StepIInv, PTL DEF Spec
<1>2. QED
  BY <1>1, InitRefines, StepRefines, PTL DEF Spec, ImplementsQueue, Queue!QueueSpec
=============================================================================
