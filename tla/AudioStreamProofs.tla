-------------------------- MODULE AudioStreamProofs -------------------------
(***************************************************************************)
(* Theorems about the stream itself, at the pace of the device: what the   *)
(* host gets back, in which order and in which frames, and that the device *)
(* implements Loopback.                                                    *)
(***************************************************************************)
EXTENDS AudioTimedProofs, FiniteSetTheorems
-----------------------------------------------------------------------------
(***************************************************************************)
(* Whole frames.                                                           *)
(***************************************************************************)

\* Both directions have frames of the same size, as AUDIO_x_CHANNEL_NUM and
\* AUDIO_x_FRAME_SIZE_BYTE give them, and a packet of every frequency of the
\* microphone is a whole number of samples, as multiples of 1 kHz (UAC1) and of
\* 4 kHz (UAC2) are.
SameFrames ==
    /\ InpFrame = OutFrame
    /\ \A f \in InpFreqs : f % (1000 * PacketsPerMs) = 0

\* n bytes are whole frames.
Aligned(n) == n % OutFrame = 0

\* The first n bytes of s are whole frames, each silence or one the host has sent.
Framed(s, n) ==
    /\ \A i \in 1..n : s[i] # 0 => Aligned(s[i] - i)
    /\ \A i \in 1..n - 1 : ~Aligned(i) => s[i + 1] = IF s[i] = 0 THEN 0 ELSE s[i] + 1

\* Wherever bytes lie they lie in whole frames, and every length is one of whole frames.
FrameInv ==
    /\ \A h \in 0..1 : /\ Framed(rxMem[h], AUDIO_OUT_PACKET_SZ)
                       /\ Framed(txMem[h], AUDIO_INP_PACKET_SZ)
    /\ Aligned(Len(out_rb)) /\ Framed(out_rb, Len(out_rb))
    /\ Aligned(sent)
    /\ Aligned(read_bf.count) /\ Aligned(write_bf.count)
    /\ pc \in {"rxCopy", "txRead"} \cup Counting => Aligned(len)
    /\ Aligned(arg) /\ Aligned(txArmed.len)

\* A write cut short leaves the queue at the capacity of the ring buffer: if that is no
\* multiple of the frame, frames are no longer aligned.
FramesInv == ~dropped \/ Aligned(Capacity) => FrameInv

LEMMA FrameIsNat == OutFrame \in Nat \ {0}
BY RatesAssumption

LEMMA AlignedSum ==
    ASSUME NEW a \in Int, NEW b \in Int, Aligned(a), Aligned(b)
    PROVE  Aligned(a + b) /\ Aligned(a - b)
<1> DEFINE F == OutFrame
<1>0. F \in Nat \ {0}
  BY FrameIsNat
<1> HIDE DEF F
<1>1. PICK x \in Int : a = F * x
  BY <1>0 DEF Aligned, F
<1>2. PICK y \in Int : b = F * y
  BY <1>0 DEF Aligned, F
<1>3. a + b = F * (x + y) /\ a - b = F * (x - y)
  BY <1>0, <1>1, <1>2
<1>4. \A z \in Int : (F * z) % F = 0
  BY <1>0
<1>5. QED
  BY <1>3, <1>4 DEF Aligned, F

\* The length write_samples asks for is one of whole frames.
LEMMA PacketOfFrames ==
    ASSUME SameFrames, NEW f \in InpFreqs
    PROVE  Aligned(PacketBytes(f, InpFrame))
<1> DEFINE P == PacketsPerMs
           F == OutFrame
<1>1. P \in Nat \ {0} /\ F \in Nat \ {0} /\ f \in Nat /\ f % (1000 * P) = 0 /\ InpFrame = F
  BY PerMsPositive, RatesAssumption DEF SameFrames
<1> HIDE DEF P, F
<1>2. PICK a \in Nat : f = (1000 * P) * a
  <2>1. 1000 * P \in Nat \ {0}
    BY <1>1
  <2> DEFINE D == 1000 * P
  <2>2. D \in Nat \ {0} /\ f % D = 0
    BY <1>1, <2>1
  <2> HIDE DEF D
  <2>3. f = D * (f \div D) /\ f \div D \in Nat
    BY <1>1, <2>2
  <2>4. QED
    BY <2>3 DEF D
<1>3. f * F = 1000 * (P * (a * F)) /\ a * F \in Nat
  BY <1>1, <1>2
<1>4. \A n \in Nat : (1000 * n) \div 1000 = n
  OBVIOUS
<1>5. (f * F) \div 1000 = P * (a * F)
  <2>1. P * (a * F) \in Nat
    BY <1>1, <1>3
  <2>2. QED
    BY <1>3, <1>4, <2>1
<1>6. \A n \in Nat : (P * n) \div P = n
  BY <1>1
<1>7. ((f * F) \div 1000) \div P = a * F
  BY <1>3, <1>5, <1>6
<1>8. (a * F) % F = 0
  BY <1>1, <1>2
<1>9. QED
  BY <1>1, <1>7, <1>8 DEF PacketBytes, P, F, Aligned

\* Replacing whole frames between lo and hi by whole frames.
LEMMA FramedOver ==
    ASSUME NEW a, NEW b, NEW c, NEW n \in Nat, NEW lo \in Nat, NEW hi \in Nat, hi <= n,
           Aligned(lo), Aligned(hi), Framed(a, n), Framed(b, hi),
           \A i \in 1..n : c[i] = IF lo < i /\ i <= hi THEN b[i] ELSE a[i]
    PROVE  Framed(c, n)
<1>1. ASSUME NEW i \in 1..n, c[i] # 0 PROVE Aligned(c[i] - i)
  BY <1>1 DEF Framed
<1>2. ASSUME NEW i \in 1..n - 1, ~Aligned(i)
      PROVE  c[i + 1] = IF c[i] = 0 THEN 0 ELSE c[i] + 1
  <2>1. i # lo /\ i # hi /\ i \in 1..n /\ i + 1 \in 1..n
    BY <1>2
  <2>2. CASE lo < i /\ i < hi
    BY <1>2, <2>1, <2>2 DEF Framed
  <2>3. CASE i < lo \/ hi < i
    BY <1>2, <2>1, <2>3 DEF Framed
  <2>4. QED
    BY <2>1, <2>2, <2>3
<1>3. QED
  BY <1>1, <1>2 DEF Framed

\* A packet the host sends continues the stream.
LEMMA FramedFresh ==
    ASSUME NEW s, NEW n \in Nat, NEW base \in Nat, Aligned(base),
           \A i \in 1..n : s[i] = base + i
    PROVE  Framed(s, n)
<1>1. ASSUME NEW i \in 1..n PROVE s[i] # 0 /\ s[i] - i = base
  BY <1>1
<1>2. ASSUME NEW i \in 1..n - 1 PROVE s[i + 1] = s[i] + 1
  BY <1>2
<1>3. QED
  BY <1>1, <1>2 DEF Framed

LEMMA FramedConcat ==
    ASSUME NEW S, S \subseteq Int, NEW q \in Seq(S), NEW s \in Seq(S),
           Aligned(Len(q)), Aligned(Len(s)),
           Framed(q, Len(q)), Framed(s, Len(s))
    PROVE  /\ Aligned(Len(q \o s))
           /\ Framed(q \o s, Len(q \o s))
<1> DEFINE r == q \o s
<1>1. /\ Len(q) \in Nat /\ Len(s) \in Nat /\ Len(r) = Len(q) + Len(s)
      /\ \A i \in 1..Len(r) : r[i] = IF i <= Len(q) THEN q[i] ELSE s[i - Len(q)]
  BY ConcatProperties
<1> HIDE DEF r
<1>2. Aligned(Len(r))
  BY <1>1, AlignedSum
<1>3. ASSUME NEW i \in 1..Len(r), r[i] # 0 PROVE Aligned(r[i] - i)
  <2>1. CASE i <= Len(q)
    BY <1>1, <1>3, <2>1 DEF Framed
  <2>2. CASE i > Len(q)
    <3> DEFINE j == i - Len(q)
    <3>1. j \in 1..Len(s) /\ r[i] = s[j]
      BY <1>1, <1>3, <2>2
    <3>2. s[j] \in Int
      BY <3>1, ElementOfSeq
    <3>0. j \in Int /\ i = Len(q) + j
      BY <1>1
    <3> HIDE DEF j
    <3>3. Aligned(s[j] - j) /\ s[j] - j \in Int
      <4>1. s[j] # 0
        BY <1>3, <3>1
      <4>2. Aligned(s[j] - j)
        BY <3>1, <4>1, Zenon DEF Framed
      <4>3. s[j] - j \in Int
        BY <1>1, <3>1, <3>2
      <4>4. QED
        BY <4>2, <4>3
    <3>4. Aligned((s[j] - j) - Len(q))
      <4>1. Len(q) \in Int /\ Aligned(Len(q))
        BY <1>1
      <4>2. QED
        BY <3>3, <4>1, AlignedSum
    <3>5. (s[j] - j) - Len(q) = r[i] - i
      <4>1. Len(q) \in Int /\ r[i] = s[j]
        BY <1>1, <3>1
      <4>2. QED
        BY <3>0, <3>2, <4>1
    <3>6. QED
      BY <3>4, <3>5, Zenon
  <2>3. QED
    BY <1>1, <2>1, <2>2
<1>4. ASSUME NEW i \in 1..Len(r) - 1, ~Aligned(i)
      PROVE  r[i + 1] = IF r[i] = 0 THEN 0 ELSE r[i] + 1
  <2>1. i # Len(q)
    BY <1>4
  <2>2. CASE i < Len(q)
    BY <1>1, <1>4, <2>2 DEF Framed
  <2>3. CASE i > Len(q)
    <3> DEFINE j == i - Len(q)
    <3>1. j \in 1..Len(s) - 1 /\ r[i] = s[j] /\ r[i + 1] = s[j + 1] /\ i = Len(q) + j
      BY <1>1, <1>4, <2>3
    <3>2. ~Aligned(j)
      BY <1>1, <1>4, <3>1, AlignedSum
    <3>3. QED
      BY <3>1, <3>2 DEF Framed
  <2>4. QED
    BY <1>1, <2>1, <2>2, <2>3
<1>5. QED
  BY <1>2, <1>3, <1>4 DEF Framed, r

LEMMA FramedCut ==
    ASSUME NEW S, S \subseteq Int, NEW q \in Seq(S), NEW t \in 0..Len(q),
           Aligned(Len(q)), Aligned(t), Framed(q, Len(q))
    PROVE  /\ Len(SubSeq(q, 1, t)) = t /\ Framed(SubSeq(q, 1, t), t)
           /\ Aligned(Len(SubSeq(q, t + 1, Len(q))))
           /\ Framed(SubSeq(q, t + 1, Len(q)), Len(SubSeq(q, t + 1, Len(q))))
<1> DEFINE a == SubSeq(q, 1, t)
           b == SubSeq(q, t + 1, Len(q))
<1>1. /\ Len(q) \in Nat /\ t \in Nat /\ t <= Len(q) /\ \A i \in 1..Len(q) : q[i] \in Int
  <2>1. Len(q) \in Nat
    BY LenProperties
  <2>2. ASSUME NEW i \in 1..Len(q) PROVE q[i] \in Int
    <3>1. q[i] \in S
      BY ElementOfSeq
    <3>2. QED
      BY <3>1
  <2>3. QED
    BY <2>1, <2>2
<1>2. Len(a) = t /\ \A i \in 1..t : a[i] = q[i]
  BY <1>1, SubSeqProperties
<1>3. Len(b) = Len(q) - t /\ \A i \in 1..Len(q) - t : b[i] = q[t + i]
  BY <1>1, SubSeqProperties
<1> HIDE DEF a, b
<1>4. Framed(a, t)
  BY <1>1, <1>2 DEF Framed
<1>5. Aligned(Len(b))
  BY <1>1, <1>3, AlignedSum
<1>6. ASSUME NEW i \in 1..Len(b), b[i] # 0 PROVE Aligned(b[i] - i)
  <2>1. t + i \in 1..Len(q) /\ b[i] = q[t + i] /\ q[t + i] \in Int
    BY <1>1, <1>3
  <2>2. Aligned(q[t + i] - (t + i)) /\ q[t + i] - (t + i) \in Int
    BY <1>1, <1>6, <2>1 DEF Framed
  <2>3. Aligned((q[t + i] - (t + i)) + t)
    BY <1>1, <2>1, <2>2, AlignedSum
  <2>4. (q[t + i] - (t + i)) + t = b[i] - i
    BY <1>1, <2>1
  <2>5. QED
    BY <2>3, <2>4
<1>7. ASSUME NEW i \in 1..Len(b) - 1, ~Aligned(i)
      PROVE  b[i + 1] = IF b[i] = 0 THEN 0 ELSE b[i] + 1
  <2>1. /\ t + i \in 1..Len(q) - 1 /\ (t + i) + 1 = t + (i + 1)
        /\ b[i] = q[t + i] /\ b[i + 1] = q[t + (i + 1)]
    <3>1. i \in 1..Len(q) - t /\ i + 1 \in 1..Len(q) - t
      BY <1>1, <1>3
    <3>2. QED
      BY <1>1, <1>3, <3>1
  <2>2. ~Aligned(t + i)
    <3>1. (t + i) - t = i
      BY <1>1
    <3>2. QED
      BY <1>1, <1>7, <3>1, AlignedSum
  <2>3. QED
    BY <2>1, <2>2 DEF Framed
<1>8. QED
  BY <1>2, <1>4, <1>5, <1>6, <1>7 DEF Framed, a, b

\* Writing some bytes of one half of a sample buffer.
LEMMA HalfWritten ==
    ASSUME NEW size \in Nat, NEW m \in Halves(size), NEW h \in 0..1,
           NEW f \in [1..size -> 0..MaxPos], NEW m2, m2 = [m EXCEPT ![h] = f]
    PROVE  \A g \in 0..1, i \in 1..size : m2[g][i] = IF g = h THEN f[i] ELSE m[g][i]
BY DEF Halves

LEMMA AlignedZero == Aligned(0)
BY FrameIsNat DEF Aligned

LEMMA InitFramesInv == TimedInit => FramesInv
<1> SUFFICES ASSUME TimedInit PROVE FrameInv
  BY DEF FramesInv
<1>1. Aligned(Len(out_rb)) /\ Framed(out_rb, Len(out_rb))
  <2>1. out_rb = <<>> /\ Len(<<>>) = 0
    BY DEF TimedInit, Init
  <2>2. QED
    BY <2>1, AlignedZero DEF Framed
<1>2. \A h \in 0..1 : /\ Framed(rxMem[h], AUDIO_OUT_PACKET_SZ)
                      /\ Framed(txMem[h], AUDIO_INP_PACKET_SZ)
  BY PacketsFitHalves DEF TimedInit, Init, Framed
<1>3. QED
  BY <1>1, <1>2, AlignedZero DEF TimedInit, Init, FrameInv, Counting, None

\* read_samples puts whole frames behind whole frames, unless it is cut short.
LEMMA CopyFrames ==
    ASSUME TypeInv, FrameInv, RxCopy, RecordCopy, ~dropped' \/ Aligned(Capacity)
    PROVE  FrameInv'
<1>1. /\ len \in 0..AUDIO_OUT_PACKET_SZ /\ half \in 0..1 /\ pc = "rxCopy"
      /\ AUDIO_OUT_PACKET_SZ \in Nat
  BY PacketsFitHalves DEF RxCopy, Goto, TypeInv, TypeOK, LocalsFit
<1>2. RxData \in Seq(0..MaxPos) /\ Len(RxData) = len
  <2>1. \A i \in 1..len : rxMem[half][i] \in 0..MaxPos
    BY <1>1, HalfReplaced DEF TypeInv, TypeOK
  <2>2. QED
    BY <1>1, <2>1, FunctionIsSeq DEF RxData
<1>3. Framed(RxData, len) /\ Aligned(len)
  <2>1. Framed(rxMem[half], AUDIO_OUT_PACKET_SZ)
    BY <1>1 DEF FrameInv
  <2>2. \A i \in 1..len : RxData[i] = rxMem[half][i]
    BY DEF RxData
  <2>3. Framed(RxData, len)
    BY <1>1, <2>1, <2>2 DEF Framed
  <2>4. QED
    BY <1>1, <2>3 DEF FrameInv
<1> DEFINE t == Accepted(out_rb, RxData)
<1>4. t \in 0..len /\ Aligned(t)
  <2>1. t \in 0..len
    BY <1>2, WriteFits DEF TypeInv, TypeOK
  <2>2. CASE t = len
    BY <1>3, <2>1, <2>2
  <2>3. CASE t # len
    <3>1. t < len
      BY <1>1, <2>1, <2>3
    <3>2. Aligned(Capacity)
      BY <3>1 DEF RecordCopy
    <3>3. t = Capacity - Len(out_rb)
      BY <1>2, <2>3 DEF Accepted
    <3>4. Len(out_rb) \in Int /\ Aligned(Len(out_rb)) /\ Capacity \in Int
      BY CapacityAssumption, LenProperties DEF TypeInv, TypeOK, FrameInv
    <3>5. QED
      BY <2>1, <3>2, <3>3, <3>4, AlignedSum
  <2>4. QED
    BY <2>2, <2>3
<1> DEFINE part == SubSeq(RxData, 1, t)
<1>5. Aligned(Len(out_rb)') /\ Framed(out_rb', Len(out_rb'))
  <2>1. 0..MaxPos \subseteq Int /\ out_rb \in Seq(0..MaxPos)
    BY DEF TypeInv, TypeOK
  <2>2. t \in 0..Len(RxData)
    BY <1>2, <1>4
  <2>3. out_rb' = out_rb \o part
    BY DEF RxCopy, AfterWrite
  <2> HIDE DEF t
  <2>4. Len(part) = t /\ Framed(part, t)
    BY <1>2, <1>3, <1>4, <2>1, <2>2, FramedCut
  <2>5. part \in Seq(0..MaxPos)
    <3>1. 1 \in Int /\ t \in Int /\ \A i \in 1..t : i \in 1..Len(RxData)
      BY <1>1, <1>2, <1>4
    <3>2. \A i \in 1..t : RxData[i] \in 0..MaxPos
      BY <1>2, <3>1, ElementOfSeq
    <3>3. QED
      BY <3>1, <3>2, SubSeqProperties
  <2> HIDE DEF part
  <2>6. QED
    BY <1>4, <2>1, <2>3, <2>4, <2>5, FramedConcat DEF FrameInv
<1>6. pc' = "rxLoad" /\ UNCHANGED <<rxMem, txMem, sent, read_bf, write_bf, txArmed, arg>>
  BY DEF RxCopy, Goto, usb, bufs, host
<1>7. QED
  BY <1>5, <1>6 DEF FrameInv, Counting

\* write_samples takes whole frames off the ring buffer, as many as there are.
LEMMA FillFrames ==
    ASSUME TypeInv, FrameInv, TxRead
    PROVE  FrameInv'
<1> DEFINE t == Taken(out_rb, len)
           n == AUDIO_INP_PACKET_SZ
           data == BytesRead(out_rb, len)
<1>1. /\ len \in 0..n /\ n \in Nat /\ half \in 0..1 /\ pc = "txRead" /\ pc' = "txPad"
      /\ out_rb \in Seq(0..MaxPos) /\ Len(out_rb) \in Nat /\ 0..MaxPos \subseteq Int
      /\ write_bf \in DblBuffers(n)
  BY PacketsFitHalves, LenProperties DEF TxRead, Goto, TypeInv, TypeOK, LocalsFit
<1>2. t \in 0..Len(out_rb) /\ t <= len /\ Aligned(t)
  BY <1>1 DEF Taken, FrameInv
<1>3. /\ Len(data) = t /\ Framed(data, t)
      /\ Aligned(Len(out_rb')) /\ Framed(out_rb', Len(out_rb'))
  <2>1. data = SubSeq(out_rb, 1, t) /\ out_rb' = SubSeq(out_rb, t + 1, Len(out_rb))
    BY DEF BytesRead, TxRead, AfterRead
  <2> HIDE DEF data, t
  <2>2. QED
    BY <1>1, <1>2, <2>1, FramedCut DEF FrameInv
<1> HIDE DEF t, data
<1>4. ASSUME NEW h \in 0..1 PROVE Framed(txMem'[h], n)
  <2>1. \A i \in 1..n : txMem'[h][i] = IF h = half /\ i <= t THEN data[i] ELSE txMem[h][i]
    <3>1. txMem \in [0..1 -> [1..n -> 0..MaxPos]]
      BY DEF TypeInv, TypeOK, Halves
    <3>2. QED
      BY <1>1, <1>3, <3>1 DEF TxRead, data
  <2>2. Framed(txMem[h], n)
    BY <1>4 DEF FrameInv
  <2>3. CASE h = half
    <3>1. \A i \in 1..n : txMem'[h][i] = IF 0 < i /\ i <= t THEN data[i] ELSE txMem[h][i]
      BY <2>1, <2>3
    <3>2. t \in Nat /\ t <= n /\ 0 \in Nat
      BY <1>1, <1>2
    <3>3. QED
      BY <1>1, <1>2, <1>3, <2>2, <3>1, <3>2, AlignedZero, FramedOver
  <2>4. CASE h # half
    <3>1. \A i \in 1..n : txMem'[h][i] = txMem[h][i]
      BY <2>1, <2>4
    <3> HIDE DEF n
    <3>2. QED
      BY <1>1, <2>2, <3>1 DEF Framed
  <2>5. QED
    BY <2>3, <2>4
<1>5. /\ write_bf'.count = t
      /\ UNCHANGED <<rxMem, sent, read_bf, txArmed, len, arg>>
  BY <1>1, <1>3 DEF TxRead, usb, host, data, DblBuffers
<1>6. Aligned(len)
  BY <1>1 DEF FrameInv
<1>7. QED
  BY <1>2, <1>3, <1>4, <1>5, <1>6 DEF FrameInv, n

\* The silence write_samples adds is whole frames, wherever a reset between the two
\* reads of write_bf.count makes it begin and end.
LEMMA FramedSilence ==
    ASSUME NEW a, NEW c, NEW n \in Nat, NEW lo \in Int, NEW hi \in Int,
           Aligned(lo), Aligned(hi), Framed(a, n),
           \A i \in 1..n : c[i] = IF lo < i /\ i <= hi THEN 0 ELSE a[i]
    PROVE  Framed(c, n)
<1>1. ASSUME NEW i \in 1..n, c[i] # 0 PROVE Aligned(c[i] - i)
  BY <1>1 DEF Framed
<1>2. ASSUME NEW i \in 1..n - 1, ~Aligned(i)
      PROVE  c[i + 1] = IF c[i] = 0 THEN 0 ELSE c[i] + 1
  <2>1. i # lo /\ i # hi /\ i \in 1..n /\ i + 1 \in 1..n
    BY <1>2
  <2>2. CASE lo < i /\ i < hi
    BY <2>1, <2>2
  <2>3. CASE i < lo \/ hi < i
    BY <1>2, <2>1, <2>3 DEF Framed
  <2>4. QED
    BY <2>1, <2>2, <2>3
<1>3. QED
  BY <1>1, <1>2 DEF Framed

LEMMA SilencedFrames ==
    ASSUME NEW size \in Nat, NEW m \in Halves(size), NEW h \in 0..1, NEW at \in Int,
           NEW n \in Int, Aligned(size), Aligned(at), Aligned(n), NEW g \in 0..1,
           Framed(m[g], size)
    PROVE  Framed(Silenced(m, h, at, n, size)[g], size)
<1> DEFINE c == Silenced(m, h, at, n, size)[g]
           off == IF g = h THEN 0 ELSE size
           lo == at - off
           hi == at + n - off
<1>1. off \in Int /\ Aligned(off)
  BY AlignedZero
<1>2. lo \in Int /\ hi \in Int /\ Aligned(lo) /\ Aligned(hi)
  <2> HIDE DEF off
  <2>1. Aligned(at + n) /\ at + n \in Int
    BY AlignedSum
  <2>2. QED
    BY <1>1, <2>1, AlignedSum
<1>3. CASE g >= h
  <2>1. ASSUME NEW i \in 1..size PROVE c[i] = IF lo < i /\ i <= hi THEN 0 ELSE m[g][i]
    <3> DEFINE place == IF g = h THEN i ELSE size + i
    <3>1. c[i] = IF place \in at + 1 .. at + n THEN 0 ELSE m[g][i]
      BY <1>3 DEF Silenced
    <3>2. place \in at + 1 .. at + n <=> lo < i /\ i <= hi
      OBVIOUS
    <3> HIDE DEF c, lo, hi, place
    <3>3. QED
      BY <3>1, <3>2
  <2> HIDE DEF c, lo, hi
  <2>2. Framed(c, size)
    BY <1>2, <2>1, FramedSilence
  <2>3. QED
    BY <2>2 DEF c
<1>4. CASE ~(g >= h)
  <2>1. \A i \in 1..size : c[i] = m[g][i]
    BY <1>4 DEF Silenced
  <2> HIDE DEF c
  <2>2. Framed(c, size)
    BY <2>1 DEF Framed
  <2>3. QED
    BY <2>2 DEF c
<1>5. QED
  BY <1>3, <1>4

LEMMA PadFrames ==
    ASSUME SameFrames, TypeInv, FrameInv, TxPad
    PROVE  FrameInv'
<1> DEFINE n == AUDIO_INP_PACKET_SZ
           c == write_bf.count
<1>1. /\ n \in Nat /\ half \in 0..1 /\ write_bf \in DblBuffers(n) /\ txMem \in Halves(n)
      /\ c \in Int /\ arg \in Int /\ len \in Int
  BY PacketsFitHalves DEF TypeInv, TypeOK, DblBuffers
<1>2. Aligned(n)
  BY PacketOfFrames, RatesAssumption, HighestIsMaximum DEF AUDIO_INP_PACKET_SZ
<1>3. Aligned(len) /\ Aligned(c) /\ Aligned(arg)
  BY DEF FrameInv, TxPad, TxShort, TxArg, TxFill, TxCount, Goto, Counting
<1>4. CASE TxShort \/ TxArg \/ TxCount
  <2>1. /\ UNCHANGED <<rxMem, txMem, out_rb, sent, read_bf, txArmed>>
        /\ write_bf'.count \in {c, len} /\ len' \in {len, 0} /\ arg' \in {arg, c}
    BY <1>1, <1>4 DEF TxShort, TxArg, TxCount, usb, bufs, mem, host, DblBuffers
  <2>2. QED
    BY <1>3, <2>1, AlignedZero DEF FrameInv, Counting
<1>5. CASE TxFill
  <2> HIDE DEF c, n
  <2>1. Aligned(len - c) /\ Aligned(len - arg) /\ len - c \in Int /\ len - arg \in Int
    BY <1>1, <1>3, AlignedSum
  <2>2. ASSUME NEW g \in 0..1
        PROVE  /\ Framed(Silenced(txMem, half, arg, len - c, n)[g], n)
               /\ Framed(Silenced(txMem, half, c, len - arg, n)[g], n)
    <3>1. Framed(txMem[g], n)
      BY DEF FrameInv, n
    <3>2. QED
      BY <1>1, <1>2, <1>3, <2>1, <3>1, SilencedFrames
  <2>3. \/ txMem' = Silenced(txMem, half, arg, len - c, n)
        \/ txMem' = Silenced(txMem, half, c, len - arg, n)
    BY <1>5 DEF TxFill, c, n
  <2>4. \A g \in 0..1 : Framed(txMem'[g], n)
    BY <2>2, <2>3
  <2>5. UNCHANGED <<rxMem, out_rb, sent, read_bf, write_bf, txArmed, len>> /\ arg' = 0
    BY <1>5 DEF TxFill, usb, bufs, host
  <2>6. QED
    BY <1>3, <2>4, <2>5, AlignedZero DEF FrameInv, Counting, n
<1>6. QED
  BY <1>4, <1>5 DEF TxPad

\* What the other steps of the main program leave whole.
LEMMA LoopFrames ==
    ASSUME SameFrames, TypeInv, FrameInv, TimedMain, ~RxCopy, ~TxRead, ~TxPad
    PROVE  FrameInv'
<1>1. CASE WaitConfigured \/ TestOpen \/ TestRead \/ TestWrite \/ TestFb \/ RxPos \/ TxPos
  <2>1. /\ UNCHANGED <<rxMem, txMem, out_rb, sent, read_bf, write_bf, txArmed>>
        /\ pc' \notin {"rxCopy", "txRead"} \cup Counting /\ arg' = arg
    BY <1>1
       DEF Counting, WaitConfigured, TestOpen, TestRead, TestWrite, TestFb, RxPos, TxPos, Branch, Goto,
           AfterMic, usb, bufs, mem, host
  <2>2. QED
    BY <2>1 DEF FrameInv, Counting
<1>2. CASE RxLen
  <2>1. /\ UNCHANGED <<rxMem, txMem, out_rb, sent, read_bf, write_bf, txArmed, arg>>
        /\ len' = read_bf.count
    BY <1>2 DEF RxLen, usb, bufs, mem, host
  <2>2. QED
    BY <2>1 DEF FrameInv, Counting
<1>3. CASE TxNeed
  <2>1. /\ UNCHANGED <<rxMem, txMem, out_rb, sent, read_bf, write_bf, txArmed, arg>>
        /\ len' = PacketBytes(cur_inp_freq, InpFrame)
    BY <1>3 DEF TxNeed, usb, bufs, mem, host
  <2>2. Aligned(len')
    BY <2>1, PacketOfFrames DEF TypeInv, TypeOK
  <2>3. QED
    BY <2>1, <2>2 DEF FrameInv, Counting
<1>4. CASE RingInit
  <2>1. /\ UNCHANGED <<rxMem, txMem, sent, read_bf, write_bf, txArmed>>
        /\ out_rb' = <<>> /\ pc' = "wrPtr" /\ arg' = arg
    BY <1>4 DEF RingInit, Goto, usb, bufs, host
  <2>2. Aligned(Len(out_rb')) /\ Framed(out_rb', Len(out_rb'))
    BY <2>1, AlignedZero DEF Framed
  <2>3. QED
    BY <2>1, <2>2 DEF FrameInv, Counting
<1>5. CASE InitWriteBf \/ InitReadBf
  <2>1. /\ UNCHANGED <<rxMem, txMem, out_rb, sent, txArmed>>
        /\ pc' \notin {"rxCopy", "txRead"} \cup Counting /\ arg' = arg
        /\ read_bf'.count \in {read_bf.count, 0}
        /\ write_bf'.count \in {write_bf.count, 0}
    BY <1>5 DEF Counting, InitWriteBf, InitReadBf, Goto, usb, bufs, mem, host, TypeInv, TypeOK, DblBuffers
  <2>2. QED
    BY <2>1, AlignedZero DEF FrameInv, Counting
<1>6. CASE Claim
  <2>1. /\ UNCHANGED <<rxMem, txMem, out_rb, sent, read_bf, write_bf, txArmed>>
        /\ pc' \notin {"rxCopy", "txRead"} \cup Counting /\ arg' = arg
    BY <1>6 DEF Counting, Claim, Load, Store, Goto, AfterMic, usb, bufs, mem, host
  <2>2. QED
    BY <2>1 DEF FrameInv, Counting
<1>7. QED
  BY <1>1, <1>2, <1>3, <1>4, <1>5, <1>6 DEF TimedMain

\* A packet of whole frames continues the stream, in the half the controller filled.
LEMMA OutDoneFrames ==
    ASSUME TypeInv, FrameInv, NEW n \in OutLens, OutDone(n)
    PROVE  FrameInv'
<1> DEFINE z == AUDIO_OUT_PACKET_SZ
<1>1. /\ n \in Nat /\ Aligned(n) /\ z \in Nat /\ n <= z /\ sent \in Nat /\ Aligned(sent)
      /\ rxArmed.half \in 0..1
  BY PacketsFitHalves, TaskAssumption
  DEF OutLens, OutDone, TypeInv, TypeOK, Transfers, None, Aligned, FrameInv
<1>2. /\ \A h \in 0..1, i \in 1..z :
            rxMem'[h][i] = IF h = rxArmed.half /\ i <= n THEN sent + i ELSE rxMem[h][i]
      /\ read_bf'.count = n /\ sent' = sent + n
      /\ UNCHANGED <<txMem, out_rb, write_bf, txArmed, pc, len, arg>>
  <2>1. rxMem \in [0..1 -> [1..z -> 0..MaxPos]] /\ read_bf \in DblBuffers(z)
    BY DEF TypeInv, TypeOK, Halves
  <2>2. QED
    BY <1>1, <2>1 DEF OutDone, Flip, DblBuffers, main
<1>3. ASSUME NEW h \in 0..1 PROVE Framed(rxMem'[h], z)
  <2>1. Framed(rxMem[h], z)
    BY <1>3 DEF FrameInv, Counting
  <2> HIDE DEF z
  <2>2. CASE h = rxArmed.half
    <3> DEFINE packet == [i \in 1..n |-> sent + i]
    <3>1. Framed(packet, n)
      BY <1>1, FramedFresh
    <3>2. \A i \in 1..z :
             rxMem'[h][i] = IF 0 < i /\ i <= n THEN packet[i] ELSE rxMem[h][i]
      BY <1>1, <1>2, <2>2
    <3>3. 0 \in Nat
      OBVIOUS
    <3> HIDE DEF packet
    <3>4. QED
      BY <1>1, <2>1, <3>1, <3>2, <3>3, AlignedZero, FramedOver
  <2>3. CASE h # rxArmed.half
    <3>1. \A i \in 1..z : rxMem'[h][i] = rxMem[h][i]
      BY <1>2, <2>3
    <3>2. QED
      BY <1>1, <2>1, <3>1 DEF Framed
  <2>4. QED
    BY <2>2, <2>3
<1>4. Aligned(sent')
  BY <1>1, <1>2, AlignedSum
<1>5. QED
  BY <1>1, <1>2, <1>3, <1>4 DEF FrameInv, Counting

\* The other events hand on counts of whole frames.
LEMMA EventFrames ==
    ASSUME TypeInv, FrameInv, TimedNext, ~TimedMain
    PROVE  FrameInv'
<1>1. CASE TimedOpenSpeaker
  <2>1. /\ UNCHANGED <<rxMem, txMem, out_rb, sent, write_bf, txArmed, pc, len, arg>>
        /\ read_bf'.count = 0
    BY <1>1 DEF TimedOpenSpeaker, OpenSpeaker, dbl_buffer_reset, mem, main, host
  <2>2. QED
    BY <2>1, AlignedZero DEF FrameInv, Counting
<1>2. CASE TimedOpenMic
  <2>1. /\ UNCHANGED <<rxMem, txMem, out_rb, sent, read_bf, txArmed, pc, len, arg>>
        /\ write_bf'.count = 0
    BY <1>2 DEF TimedOpenMic, OpenMic, dbl_buffer_reset, mem, main, host
  <2>2. QED
    BY <2>1, AlignedZero DEF FrameInv, Counting
<1>3. ASSUME NEW intf \in Interfaces, TimedClose(intf) PROVE FrameInv'
  <2>1. /\ UNCHANGED <<rxMem, txMem, out_rb, sent, read_bf, write_bf, pc, len, arg>>
        /\ txArmed'.len \in {txArmed.len, 0}
    BY <1>3 DEF TimedClose, Close, None, bufs, mem, main
  <2>2. QED
    BY <2>1, AlignedZero DEF FrameInv, Counting
<1>4. ASSUME NEW n \in OutLens, TimedOutDone(n) PROVE FrameInv'
  BY <1>4, OutDoneFrames DEF TimedOutDone
<1>5. CASE TimedInDone
  <2>1. /\ UNCHANGED <<rxMem, txMem, out_rb, sent, read_bf, pc, len, arg>>
        /\ txArmed'.len = write_bf.count
        /\ write_bf'.count = write_bf.count
    BY <1>5, PacketsFitHalves, FlipTyped DEF TimedInDone, InDone, TypeInv, TypeOK, mem, main, host
  <2>2. QED
    BY <2>1 DEF FrameInv, Counting
<1>6. CASE TimedReset
  <2>1. /\ UNCHANGED <<rxMem, txMem, out_rb, sent, read_bf, write_bf, pc, len, arg>>
        /\ txArmed'.len = 0
    BY <1>6 DEF TimedReset, BusReset, None, bufs, mem, main
  <2>2. QED
    BY <2>1, AlignedZero DEF FrameInv, Counting
<1>7. CASE Untimed \/ \E freq \in InpFreqs : TimedSetInpFreq(freq)
  <2>1. UNCHANGED <<rxMem, txMem, out_rb, sent, read_bf, write_bf, txArmed, pc, len, arg>>
    BY <1>7 DEF Untimed, TimedSetInpFreq, Configure, FbDone, SetOutFreq, SetInpFreq, usb, bufs, mem, main, host
  <2>2. QED
    BY <2>1 DEF FrameInv, Counting
<1>8. QED
  BY <1>1, <1>2, <1>3, <1>4, <1>5, <1>6, <1>7 DEF TimedNext

LEMMA StepFramesInv ==
    SameFrames => (TypeInv /\ FramesInv /\ [TimedNext]_timedVars => FramesInv')
<1> SUFFICES ASSUME SameFrames, TypeInv, FramesInv, [TimedNext]_timedVars,
                    ~dropped' \/ Aligned(Capacity)
             PROVE  FrameInv'
  BY DEF FramesInv
<1>1. CASE UNCHANGED timedVars
  <2>1. /\ UNCHANGED <<rxMem, txMem, out_rb, sent, read_bf, write_bf, txArmed, pc, len, arg>>
        /\ dropped' = dropped
    BY <1>1 DEF timedVars, vars, usb, bufs, mem, main, host, hist
  <2>2. QED
    BY <2>1 DEF FramesInv, FrameInv
<1>2. ~dropped \/ Aligned(Capacity)
  <2>1. ASSUME RecordCopy PROVE dropped => dropped'
    BY <2>1 DEF RecordCopy
  <2>2. UNCHANGED hist \/ RecordStore \/ RecordFill => dropped' = dropped
    BY DEF hist, RecordStore, RecordFill
  <2>3. TimedNext => dropped' = dropped \/ RecordCopy
    BY <2>2
    DEF TimedNext, TimedMain, TimedOpenSpeaker, TimedOpenMic, TimedClose, TimedOutDone,
        TimedInDone, TimedReset, Untimed, TimedSetInpFreq
  <2>4. UNCHANGED timedVars => dropped' = dropped
    BY DEF timedVars, hist
  <2>5. QED
    BY <2>1, <2>3, <2>4
<1>3. FrameInv
  BY <1>2 DEF FramesInv
<1>4. CASE TimedMain /\ RxCopy
  <2>1. RecordCopy
    BY <1>4
       DEF TimedMain, RxCopy, Goto, Claim, Load, Store, WaitConfigured, RingInit, InitWriteBf,
           InitReadBf, TestOpen, TestRead, TestWrite, TestFb, Branch, RxPos, RxLen,
           TxPos, TxNeed, TxRead, TxPad, TxShort, TxArg, TxFill, TxCount
  <2>2. QED
    BY <1>3, <1>4, <2>1, CopyFrames
<1>5. QED
  BY <1>1, <1>3, <1>4, FillFrames, PadFrames, LoopFrames, EventFrames

\* Every packet the host gets back is made of whole frames, silent ones or ones it has sent
\* with their bytes in place, whatever packets are lost or repeated on the way, also when the
\* ring buffer overflows if its capacity is a multiple of the frame; if it is not, as
\* the 2048 bytes of out_rb_data are not (a frame is 6 or 8 bytes), as long as the ring buffer has refused nothing.
THEOREM FramesCorrect == SameFrames => (TimedSpec => []FramesWhole)
<1> SUFFICES ASSUME SameFrames PROVE TimedSpec => []FramesWhole
  OBVIOUS
<1>1. Spec => []TypeInv
  BY InitTypeInv, StepTypeInv, PTL DEF Spec
<1>2. TypeInv /\ FramesInv /\ [TimedNext]_timedVars => FramesInv'
  BY StepFramesInv
<1>3. TimedSpec => []FramesInv
  BY <1>1, <1>2, InitFramesInv, TimedImpliesSpec, PTL DEF TimedSpec
<1>4. TypeInv /\ FramesInv => FramesWhole
  <2> SUFFICES ASSUME TypeInv, FrameInv PROVE WholeFrames(MicPacket)
    BY DEF FramesInv, FramesWhole, Aligned
  <2> DEFINE n == txArmed.len
             s == MicPacket
  <2>1. /\ n \in 0..AUDIO_INP_PACKET_SZ /\ AUDIO_INP_PACKET_SZ \in Nat
        /\ n # 0 => txArmed.half \in 0..1
    BY PacketsFitHalves DEF TypeInv, TypeOK, Transfers, None
  <2>2. Len(s) = n /\ \A i \in 1..n : s[i] = txMem[txArmed.half][i]
    BY <2>1 DEF MicPacket
  <2>3. Framed(s, n)
    <3>1. CASE n = 0
      BY <3>1 DEF Framed
    <3>2. CASE n # 0
      <4>1. Framed(txMem[txArmed.half], AUDIO_INP_PACKET_SZ)
        BY <2>1, <3>2 DEF FrameInv, Counting
      <4> HIDE DEF n, s
      <4>2. QED
        BY <2>1, <2>2, <4>1 DEF Framed
    <3>3. QED
      BY <3>1, <3>2
  <2>4. Aligned(n)
    BY DEF FrameInv, Counting
  <2> HIDE DEF n, s
  <2>5. WholeFrames(s)
    BY <2>2, <2>3, <2>4 DEF WholeFrames, Framed, Aligned
  <2>6. QED
    BY <2>5 DEF s
<1>5. QED
  BY <1>1, <1>3, <1>4, TimedImpliesSpec, PTL
-----------------------------------------------------------------------------
(***************************************************************************)
(* The bytes on their way to the host, in order.                           *)
(***************************************************************************)

\* The bytes behind the ones the host has got back: the packet the controller sends,
\* the one write_samples has prepared for it, and the ring buffer.
Line == ArmedData \o PreparedData \o out_rb

\* s counts upwards from above lo, to hi at most.
Between(s, lo, hi) ==
    /\ lo <= hi
    /\ Increasing(s)
    /\ \A i \in 1..Len(s) : lo < s[i] /\ s[i] <= hi

\* Up to a length n the half h holds bytes of the stream and then only silence.
SilentAfter(h, n) == \A i \in filled[h]+1..n : txMem[h][i] = 0

\* The flags of the microphone agree with the host, the transfer and the loop, and a
\* store to come leaves its mark alone.
MicFlags ==
    /\ "TX" \in open_flag <=> 2 \in streams
    /\ "TX" \in ep_busy_flag \/ pc \in TxWork \cup {"txBusy"} \/ txArmed # None
          => "TX" \in open_flag
    /\ pc \in TxWork => "TX" \notin ep_busy_flag
    /\ pc \in {"rxStore", "txStore", "fbStore"} /\ "TX" \in ep_busy_flag => "TX" \in reg
    /\ pc \in Boot => out_rb = <<>>

Filling == {"txNeed", "txRead", "txPad", "txArg", "txFill"}

\* write_samples works on the half that is not in use, and what has been prepared
\* there or armed is bytes of the stream with silence only behind them.
MicData ==
    /\ pc \in Filling => half = Other(write_bf)
    /\ pc \in Counting => write_bf.count = filled[Other(write_bf)]
    /\ pc = "txCount" => SilentAfter(Other(write_bf), len)
    /\ Prepared /\ pc \notin Counting => SilentAfter(Other(write_bf), write_bf.count)
    /\ txArmed # None => SilentAfter(txArmed.half, txArmed.len)

LineInv == Between(Line, heard, copied)

\* The host has stopped no stream and no clearing of EP_TX_FLAG has been undone.
Untouched == closes = 0 /\ "TX" \notin clobbered

StreamOrder == Untouched => MicFlags /\ MicData /\ LineInv

LEMMA Regroup ==
    ASSUME NEW a \in Seq(Nat), NEW b \in Seq(Nat), NEW c \in Seq(Nat)
    PROVE  (a \o b) \o c = a \o (b \o c)
BY ConcatAssociative

LEMMA RegroupFour ==
    ASSUME NEW a \in Seq(Nat), NEW b \in Seq(Nat), NEW c \in Seq(Nat), NEW d \in Seq(Nat)
    PROVE  (a \o b) \o (c \o d) = ((a \o b) \o c) \o d
<1>1. a \o b \in Seq(Nat)
  BY ConcatProperties
<1>2. QED
  BY <1>1, Regroup, Zenon

LEMMA BetweenConcat ==
    ASSUME NEW s \in Seq(Nat), NEW t \in Seq(Nat), NEW lo \in Nat, NEW mid \in Nat,
           NEW hi \in Nat, Between(s, lo, mid), Between(t, mid, hi)
    PROVE  Between(s \o t, lo, hi)
<1> DEFINE r == s \o t
<1>1. /\ Len(s) \in Nat /\ Len(t) \in Nat /\ Len(r) = Len(s) + Len(t)
      /\ \A i \in 1..Len(r) : r[i] = IF i <= Len(s) THEN s[i] ELSE t[i - Len(s)]
  BY ConcatProperties
<1>2. \A i \in 1..Len(s) : s[i] \in Nat
  BY ElementOfSeq
<1>3. \A i \in 1..Len(t) : t[i] \in Nat
  BY ElementOfSeq
<1> HIDE DEF r
<1>4. ASSUME NEW i \in 1..Len(r) PROVE lo < r[i] /\ r[i] <= hi
  <2>1. CASE i <= Len(s)
    BY <1>1, <1>2, <2>1 DEF Between
  <2>2. CASE i > Len(s)
    <3>1. i - Len(s) \in 1..Len(t) /\ r[i] = t[i - Len(s)]
      BY <1>1, <2>2
    <3>2. QED
      BY <1>3, <3>1 DEF Between
  <2>3. QED
    BY <1>1, <2>1, <2>2
<1>5. ASSUME NEW i \in 1..Len(r), NEW j \in 1..Len(r), i < j PROVE r[i] < r[j]
  <2>1. CASE j <= Len(s)
    <3>1. i \in 1..Len(s) /\ j \in 1..Len(s) /\ r[i] = s[i] /\ r[j] = s[j]
      BY <1>1, <1>5, <2>1
    <3>2. QED
      BY <1>5, <3>1 DEF Between, Increasing
  <2>2. CASE i <= Len(s) /\ j > Len(s)
    <3>1. r[i] = s[i] /\ i \in 1..Len(s) /\ r[i] <= mid /\ r[i] \in Nat
      <4>1. i \in 1..Len(s) /\ r[i] = s[i]
        BY <1>1, <2>2
      <4>2. QED
        BY <1>2, <4>1 DEF Between
    <3>2. j - Len(s) \in 1..Len(t) /\ r[j] = t[j - Len(s)]
      BY <1>1, <2>2
    <3>3. mid < r[j] /\ r[j] \in Nat
      BY <1>3, <3>2 DEF Between
    <3>4. QED
      BY <3>1, <3>3
  <2>3. CASE i > Len(s)
    <3>1. /\ i - Len(s) \in 1..Len(t) /\ r[i] = t[i - Len(s)]
          /\ j - Len(s) \in 1..Len(t) /\ r[j] = t[j - Len(s)]
          /\ i - Len(s) < j - Len(s)
      BY <1>1, <1>5, <2>3
    <3>2. QED
      BY <3>1 DEF Between, Increasing
  <2>4. QED
    BY <1>1, <2>1, <2>2, <2>3
<1>6. QED
  BY <1>4, <1>5 DEF Between, Increasing, r

\* What is behind s in a line begins above its last byte.
LEMMA BetweenRest ==
    ASSUME NEW s \in Seq(Nat), NEW t \in Seq(Nat), NEW lo \in Nat, NEW hi \in Nat,
           Between(s \o t, lo, hi)
    PROVE  /\ Between(s, lo, IF s = <<>> THEN lo ELSE s[Len(s)])
           /\ Between(t, IF s = <<>> THEN lo ELSE s[Len(s)], hi)
           /\ (IF s = <<>> THEN lo ELSE s[Len(s)]) \in Nat
<1> DEFINE r == s \o t
           mid == IF s = <<>> THEN lo ELSE s[Len(s)]
<1>1. /\ Len(s) \in Nat /\ Len(t) \in Nat /\ Len(r) = Len(s) + Len(t)
      /\ \A i \in 1..Len(r) : r[i] = IF i <= Len(s) THEN s[i] ELSE t[i - Len(s)]
      /\ Len(s) = 0 <=> s = <<>>
  BY ConcatProperties, EmptySeq
<1>2. \A i \in 1..Len(s) : s[i] \in Nat /\ s[i] = r[i]
  <2>1. \A i \in 1..Len(s) : s[i] \in Nat
    BY ElementOfSeq
  <2>2. QED
    BY <1>1, <2>1
<1>3. \A i \in 1..Len(t) : t[i] \in Nat /\ t[i] = r[Len(s) + i]
  <2>1. \A i \in 1..Len(t) : t[i] \in Nat
    BY ElementOfSeq
  <2>2. ASSUME NEW i \in 1..Len(t) PROVE t[i] = r[Len(s) + i]
    <3>1. Len(s) + i \in 1..Len(r) /\ (Len(s) + i) - Len(s) = i /\ ~(Len(s) + i <= Len(s))
      BY <1>1
    <3>2. QED
      BY <1>1, <3>1
  <2>3. QED
    BY <2>1, <2>2
<1>4. /\ lo <= hi
      /\ \A i \in 1..Len(r) : lo < r[i] /\ r[i] <= hi
      /\ \A i, j \in 1..Len(r) : i < j => r[i] < r[j]
  BY DEF Between, Increasing
<1> HIDE DEF r
<1>5. mid \in Nat /\ lo <= mid /\ mid <= hi
  <2>1. CASE Len(s) = 0
    BY <1>1, <1>4, <2>1
  <2>2. CASE Len(s) # 0
    <3>1. Len(s) \in 1..Len(s) /\ Len(s) \in 1..Len(r) /\ mid = s[Len(s)]
      BY <1>1, <2>2
    <3> HIDE DEF mid
    <3>2. QED
      BY <1>2, <1>4, <3>1
  <2>3. QED
    BY <2>1, <2>2
<1>6. ASSUME NEW i \in 1..Len(s) PROVE lo < s[i] /\ s[i] <= mid
  <2>1. Len(s) \in 1..Len(s) /\ Len(s) \in 1..Len(r) /\ mid = s[Len(s)] /\ i \in 1..Len(r)
    BY <1>1
  <2> HIDE DEF mid
  <2>2. CASE i = Len(s)
    BY <1>2, <1>4, <2>1, <2>2
  <2>3. CASE i < Len(s)
    BY <1>2, <1>4, <2>1, <2>3
  <2>4. QED
    BY <1>1, <2>2, <2>3
<1>7. ASSUME NEW i \in 1..Len(t) PROVE mid < t[i] /\ t[i] <= hi
  <2>1. Len(s) + i \in 1..Len(r) /\ t[i] = r[Len(s) + i]
    BY <1>1, <1>3
  <2>2. CASE Len(s) = 0
    BY <1>1, <1>4, <2>1, <2>2
  <2>3. CASE Len(s) # 0
    <3>1. /\ Len(s) \in 1..Len(r) /\ mid = s[Len(s)] /\ s[Len(s)] = r[Len(s)]
          /\ Len(s) < Len(s) + i
      BY <1>1, <1>2, <2>3
    <3> HIDE DEF mid
    <3>2. QED
      BY <1>4, <2>1, <3>1
  <2>4. QED
    BY <2>2, <2>3
<1>8. ASSUME NEW i \in 1..Len(s), NEW j \in 1..Len(s), i < j PROVE s[i] < s[j]
  BY <1>1, <1>2, <1>4, <1>8
<1>9. ASSUME NEW i \in 1..Len(t), NEW j \in 1..Len(t), i < j PROVE t[i] < t[j]
  <2>1. Len(s) + i \in 1..Len(r) /\ Len(s) + j \in 1..Len(r) /\ Len(s) + i < Len(s) + j
    BY <1>1, <1>9
  <2>2. QED
    BY <1>3, <1>4, <2>1
<1> HIDE DEF mid
<1>10. QED
  BY <1>5, <1>6, <1>7, <1>8, <1>9 DEF Between, Increasing, mid

LEMMA BetweenPrefix ==
    ASSUME NEW s \in Seq(Nat), NEW k \in 0..Len(s), NEW lo \in Nat, NEW hi \in Nat,
           Between(s, lo, hi)
    PROVE  SubSeq(s, 1, k) \in Seq(Nat) /\ Between(SubSeq(s, 1, k), lo, hi)
<1>1. /\ SubSeq(s, 1, k) \in Seq(Nat) /\ Len(SubSeq(s, 1, k)) = k /\ Len(s) \in Nat
      /\ \A i \in 1..k : SubSeq(s, 1, k)[i] = s[i]
  BY SubSeqProperties
<1>2. \A i \in 1..k : i \in 1..Len(s)
  BY <1>1
<1> DEFINE r == SubSeq(s, 1, k)
<1> HIDE DEF r
<1>3. QED
  BY <1>1, <1>2 DEF Between, Increasing, r

\* The stream's bytes in a half of write_buffer.
LEMMA DataTyped ==
    ASSUME TypeInv, HistType, NEW h \in 0..1, NEW n \in 0..AUDIO_INP_PACKET_SZ
    PROVE  /\ Data(h, n) \in Seq(Nat)
           /\ filled[h] \in 0..AUDIO_INP_PACKET_SZ
           /\ Len(Data(h, n)) = IF filled[h] <= n THEN filled[h] ELSE n
<1> DEFINE k == IF filled[h] <= n THEN filled[h] ELSE n
<1>1. AUDIO_INP_PACKET_SZ \in Nat /\ filled[h] \in 0..AUDIO_INP_PACKET_SZ
  BY PacketsFitHalves DEF HistType
<1>2. k \in 0..AUDIO_INP_PACKET_SZ
  BY <1>1
<1> HIDE DEF k
<1>3. \A i \in 1..k : txMem[h][i] \in Nat
  <2>1. ASSUME NEW i \in 1..k PROVE txMem[h][i] \in Nat
    <3>1. i \in 1..AUDIO_INP_PACKET_SZ
      BY <1>1, <1>2
    <3>2. txMem[h][i] \in 0..MaxPos
      BY <1>1, <3>1, HalfReplaced DEF TypeInv, TypeOK
    <3>3. QED
      BY <3>2, TaskAssumption
  <2>2. QED
    BY <2>1
<1>4. Data(h, n) = [i \in 1..k |-> txMem[h][i]]
  BY DEF Data, k
<1>5. k \in Nat
  BY <1>1, <1>2
<1>6. Data(h, n) \in Seq(Nat) /\ Len(Data(h, n)) = k
  BY <1>3, <1>4, <1>5, FunctionIsSeq
<1>7. QED
  BY <1>1, <1>6 DEF k

LEMMA LineTyped ==
    ASSUME TypeInv, HistType
    PROVE  /\ ArmedData \in Seq(Nat) /\ PreparedData \in Seq(Nat) /\ out_rb \in Seq(Nat)
           /\ txArmed # None => txArmed.half \in 0..1
           /\ txArmed.len \in 0..AUDIO_INP_PACKET_SZ
           /\ write_bf.count \in 0..AUDIO_INP_PACKET_SZ
           /\ Other(write_bf) \in 0..1
<1>1. AUDIO_INP_PACKET_SZ \in Nat /\ MaxPos \in Nat
  BY PacketsFitHalves, TaskAssumption
<1>2. /\ txArmed # None => txArmed.half \in 0..1
      /\ txArmed.len \in 0..AUDIO_INP_PACKET_SZ
      /\ write_bf.count \in 0..AUDIO_INP_PACKET_SZ
      /\ Other(write_bf) \in 0..1
  BY <1>1 DEF TypeInv, TypeOK, Transfers, None, DblBuffers, Other
<1>3. ArmedData \in Seq(Nat)
  BY <1>2, DataTyped DEF ArmedData
<1>4. PreparedData \in Seq(Nat)
  BY <1>2, DataTyped DEF PreparedData
<1>5. out_rb \in Seq(Nat)
  BY <1>1, SeqMonotonic DEF TypeInv, TypeOK
<1>6. QED
  BY <1>2, <1>3, <1>4, <1>5

\* Neither the armed packet nor a prepared one changes with the other half.
LEMMA ArmedKept ==
    ASSUME TypeInv, HistType, txArmed' = txArmed,
           txArmed # None =>
               /\ filled'[txArmed.half] = filled[txArmed.half]
               /\ \A i \in 1..AUDIO_INP_PACKET_SZ :
                     txMem'[txArmed.half][i] = txMem[txArmed.half][i]
    PROVE  /\ ArmedData' = ArmedData
           /\ txArmed # None /\ SilentAfter(txArmed.half, txArmed.len)
                  => SilentAfter(txArmed.half, txArmed.len)'
<1> DEFINE h == txArmed.half
           n == txArmed.len
           k == IF filled[h] <= n THEN filled[h] ELSE n
<1>1. CASE txArmed = None
  BY <1>1 DEF ArmedData
<1>2. CASE txArmed # None
  <2>1. h \in 0..1 /\ n \in 0..AUDIO_INP_PACKET_SZ
    BY <1>2, LineTyped
  <2>2. /\ k \in 0..AUDIO_INP_PACKET_SZ /\ AUDIO_INP_PACKET_SZ \in Nat
        /\ filled[h] \in 0..AUDIO_INP_PACKET_SZ
    BY <2>1, PacketsFitHalves DEF HistType
  <2>3. /\ filled'[h] = filled[h] /\ h' = h /\ n' = n
        /\ \A i \in 1..AUDIO_INP_PACKET_SZ : txMem'[h][i] = txMem[h][i]
    BY <1>2
  <2>4. /\ ArmedData = [i \in 1..k |-> txMem[h][i]]
        /\ ArmedData' = [i \in 1..k |-> txMem'[h][i]]
    BY <1>2, <2>3 DEF ArmedData, Data
  <2> HIDE DEF k
  <2>5. ArmedData' = ArmedData
    <3>1. \A i \in 1..k : txMem'[h][i] = txMem[h][i]
      BY <2>2, <2>3
    <3>2. [i \in 1..k |-> txMem'[h][i]] = [i \in 1..k |-> txMem[h][i]]
      BY <3>1, Zenon
    <3>3. QED
      BY <2>4, <3>2, Zenon
  <2>6. ASSUME SilentAfter(h, n) PROVE SilentAfter(h, n)'
    BY <2>1, <2>2, <2>3, <2>6 DEF SilentAfter
  <2>7. QED
    BY <2>5, <2>6
<1>3. QED
  BY <1>1, <1>2

LEMMA PreparedKept ==
    ASSUME TypeInv, HistType, Prepared' <=> Prepared,
           Prepared =>
               /\ write_bf' = write_bf
               /\ UNCHANGED <<txMem, filled>>
    PROVE  /\ PreparedData' = PreparedData
           /\ Prepared /\ SilentAfter(Other(write_bf), write_bf.count)
                  => SilentAfter(Other(write_bf), write_bf.count)'
<1>1. CASE ~Prepared
  BY <1>1 DEF PreparedData
<1>2. CASE Prepared
  <2>1. UNCHANGED <<write_bf, txMem, filled>> /\ Prepared'
    BY <1>2
  <2>2. Other(write_bf)' = Other(write_bf)
    BY <2>1 DEF Other
  <2>3. QED
    BY <1>2, <2>1, <2>2 DEF PreparedData, Data, SilentAfter
<1>3. QED
  BY <1>1, <1>2

\* What has been proved of every state at the pace of the device.
TimedInv ==
    /\ TypeInv /\ OwnInv /\ PaceInv /\ LossInv /\ StaleInv /\ WholeInv /\ HistType

LEMMA TimedInvCorrect == ~EarlyOpen => (TimedSpec => []TimedInv)
<1> SUFFICES ASSUME ~EarlyOpen PROVE TimedSpec => []TimedInv
  OBVIOUS
<1>1. TimedSpec => [](TypeInv /\ OwnInv /\ PaceInv)
  BY PaceCorrect
<1>2. TimedSpec => []LossInv
  BY <1>1, InitLossInv, StepLossInv, PTL DEF TimedSpec
<1>3. TimedSpec => []StaleInv
  BY <1>1, <1>2, InitStaleInv, StepStaleInv, PTL DEF TimedSpec
<1>4. TimedSpec => []WholeInv
  BY <1>1, InitWholeInv, StepWholeInv, PTL DEF TimedSpec
<1>5. TimedSpec => []HistType
  BY <1>1, InitHistType, StepHistType, PTL DEF TimedSpec
<1>6. TypeInv /\ OwnInv /\ PaceInv /\ LossInv /\ StaleInv /\ WholeInv /\ HistType => TimedInv
  BY DEF TimedInv
<1>7. QED
  BY <1>1, <1>2, <1>3, <1>4, <1>5, <1>6, PTL

\* While the host has stopped nothing read_samples copies packets that are new.
LEMMA CopiesNew ==
    ASSUME TimedInv, Untouched, pc = "rxCopy", RecordCopy
    PROVE  /\ len \in Nat /\ copied \in Nat /\ sent \in Nat
           /\ RxData \in Seq(Nat) /\ Len(RxData) = len
           /\ copied' \in Nat /\ Between(RxData, copied, copied')
           /\ len = 0 => RxData = <<>> /\ copied' = copied
           /\ len > 0 => /\ unread /\ RxData = UnreadData /\ copied + len <= sent
                         /\ \A i \in 1..len : RxData[i] = sent - len + i
                         /\ copied' = sent
<1>1. /\ len \in 0..AUDIO_OUT_PACKET_SZ /\ half \in 0..1 /\ AUDIO_OUT_PACKET_SZ \in Nat
      /\ copied \in Nat /\ sent \in Nat /\ MaxPos \in Nat /\ read_bf.count \in Nat
  BY PacketsFitHalves, TaskAssumption
  DEF TimedInv, TypeInv, TypeOK, LocalsFit, LossInv, StreamInv, DblBuffers
<1>2. RxData \in Seq(Nat) /\ Len(RxData) = len
  <2>1. ASSUME NEW i \in 1..len PROVE rxMem[half][i] \in Nat
    <3>1. i \in 1..AUDIO_OUT_PACKET_SZ
      BY <1>1
    <3>2. rxMem[half][i] \in 0..MaxPos
      BY <1>1, <3>1, HalfReplaced DEF TimedInv, TypeInv, TypeOK
    <3>3. QED
      BY <1>1, <3>2
  <2>2. QED
    BY <1>1, <2>1, FunctionIsSeq DEF RxData
<1>3. CASE len = 0
  <2>1. RxData = <<>>
    BY <1>2, <1>3, EmptySeq
  <2>2. copied' = copied
    BY <1>3 DEF RecordCopy
  <2>3. Between(RxData, copied, copied')
    BY <1>1, <1>2, <1>3, <2>2 DEF Between, Increasing
  <2>4. QED
    BY <1>1, <1>2, <1>3, <2>1, <2>2, <2>3
<1>4. CASE len > 0
  <2>1. read_bf.count > 0
    BY <1>4 DEF TimedInv, StaleInv, FreshInv
  <2>2. unread
    <3>1. Owed \in 0..2 /\ (Repeats => Owed # 0)
      BY DEF Owed
    <3>2. Owed = 0
      BY <3>1 DEF TimedInv, StaleInv, Untouched
    <3>3. ~Repeats
      BY <3>1, <3>2
    <3>4. QED
      BY <2>1, <3>3 DEF Repeats
  <2>3. /\ half = Other(read_bf) /\ len = read_bf.count /\ copied + len <= sent
        /\ \A i \in 1..len : rxMem[half][i] = sent - len + i
    BY <2>2 DEF TimedInv, LossInv, UnreadInv, Latest
  <2>4. \A i \in 1..len : RxData[i] = sent - len + i
    BY <2>3 DEF RxData
  <2>5. RxData = UnreadData
    BY <2>2, <2>3 DEF RxData, UnreadData
  <2>6. RxData[1] = sent - len + 1 /\ RxData[len] = sent
    BY <1>1, <1>4, <2>4
  <2>7. ~(RxData[1] <= copied)
    BY <1>1, <2>3, <2>6
  <2>8. copied' = sent
    BY <1>4, <2>6, <2>7 DEF RecordCopy
  <2>9. Between(RxData, copied, copied')
    <3> DEFINE r == RxData
    <3>1. /\ Len(r) = len /\ \A i \in 1..len : r[i] = sent - len + i
          /\ copied + len <= sent /\ copied' = sent
      BY <1>2, <2>3, <2>4, <2>8
    <3> HIDE DEF r
    <3>2. QED
      BY <1>1, <3>1 DEF Between, Increasing, r
  <2>10. QED
    BY <1>1, <1>2, <1>4, <2>2, <2>3, <2>4, <2>5, <2>8, <2>9
<1>5. QED
  BY <1>1, <1>3, <1>4

LEMMA LineWith ==
    ASSUME TimedInv, NEW x \in Seq(Nat)
    PROVE  (ArmedData \o PreparedData) \o (out_rb \o x) = Line \o x
<1>1. ArmedData \in Seq(Nat) /\ PreparedData \in Seq(Nat) /\ out_rb \in Seq(Nat)
  BY LineTyped DEF TimedInv
<1>2. Line = (ArmedData \o PreparedData) \o out_rb
  BY DEF Line
<1>3. ArmedData \o PreparedData \in Seq(Nat)
  BY <1>1, ConcatProperties
<1>4. QED
  BY <1>1, <1>2, <1>3, Regroup, Zenon

\* The part of a packet the ring buffer accepts goes behind the line.
Kept == SubSeq(RxData, 1, Accepted(out_rb, RxData))

LEMMA LineLonger ==
    ASSUME TimedInv, RxCopy, RxData \in Seq(Nat), ArmedData' = ArmedData,
           PreparedData' = PreparedData
    PROVE  /\ Accepted(out_rb, RxData) \in 0..Len(RxData)
           /\ Kept \in Seq(Nat) /\ Line \in Seq(Nat) /\ out_rb \in Seq(Nat)
           /\ out_rb' = out_rb \o Kept /\ Line' = Line \o Kept
<1>1. /\ ArmedData \in Seq(Nat) /\ PreparedData \in Seq(Nat) /\ out_rb \in Seq(Nat)
      /\ Len(out_rb) <= Capacity
  BY LineTyped DEF TimedInv, TypeInv, TypeOK
<1>2. Accepted(out_rb, RxData) \in 0..Len(RxData)
  BY <1>1, WriteFits
<1>3. Kept \in Seq(Nat)
  BY <1>2, SubSeqProperties DEF Kept
<1>4. out_rb' = out_rb \o Kept
  BY DEF RxCopy, AfterWrite, Kept
<1>5. Line \in Seq(Nat)
  BY <1>1, ConcatProperties DEF Line
<1>6. Line' = Line \o Kept
  <2>1. Line' = (ArmedData \o PreparedData) \o (out_rb \o Kept)
    BY <1>4 DEF Line
  <2>2. QED
    BY <1>3, <2>1, LineWith
<1>7. QED
  BY <1>1, <1>2, <1>3, <1>4, <1>5, <1>6

LEMMA CopyLine ==
    ASSUME TimedInv, Untouched, StreamOrder, RxCopy, RecordCopy
    PROVE  /\ ArmedData' = ArmedData /\ PreparedData' = PreparedData
           /\ MicFlags' /\ MicData' /\ LineInv'
<1>1. /\ pc = "rxCopy" /\ pc' = "rxLoad"
      /\ UNCHANGED <<streams, txArmed, open_flag, ep_busy_flag, write_bf, txMem, reg, filled,
                     clobbered, closes, heard>>
  BY DEF RxCopy, RecordCopy, Goto, usb, bufs, host
<1>2. MicFlags /\ MicData /\ LineInv
  BY DEF StreamOrder
<1>3. Prepared' <=> Prepared
  BY <1>1 DEF Prepared, Preparing
<1>4. ArmedData' = ArmedData /\ PreparedData' = PreparedData
  BY <1>1, <1>3, ArmedKept, PreparedKept DEF TimedInv
<1>5. MicFlags'
  BY <1>1, <1>2 DEF MicFlags, TxWork, Boot
<1>6. MicData'
  <2>1. Other(write_bf)' = Other(write_bf)
    BY <1>1 DEF Other
  <2>2. QED
    BY <1>1, <1>2, <1>3, <2>1 DEF MicData, SilentAfter, Filling, Counting
<1>7. LineInv'
  <2>1. /\ len \in Nat /\ copied \in Nat /\ sent \in Nat
        /\ RxData \in Seq(Nat) /\ Len(RxData) = len
        /\ Between(RxData, copied, copied') /\ copied' \in Nat
    BY <1>1, CopiesNew
  <2>2. /\ Kept \in Seq(Nat) /\ Line \in Seq(Nat) /\ Line' = Line \o Kept
        /\ Accepted(out_rb, RxData) \in 0..Len(RxData)
    BY <1>4, <2>1, LineLonger
  <2>3. Between(Kept, copied, copied')
    BY <2>1, <2>2, BetweenPrefix DEF Kept
  <2>4. heard \in Nat
    BY TaskAssumption DEF TimedInv, HistType
  <2>5. Between(Line \o Kept, heard, copied')
    BY <1>2, <2>1, <2>2, <2>3, <2>4, BetweenConcat DEF LineInv
  <2>6. QED
    BY <1>1, <2>2, <2>5 DEF LineInv
<1>8. QED
  BY <1>4, <1>5, <1>6, <1>7

\* A read cuts the queue in two.
LEMMA ReadParts ==
    ASSUME NEW q \in Seq(Nat), NEW n \in Nat
    PROVE  /\ BytesRead(q, n) \in Seq(Nat) /\ AfterRead(q, n) \in Seq(Nat)
           /\ BytesRead(q, n) \o AfterRead(q, n) = q
<1> DEFINE t == Taken(q, n)
<1>1. Len(q) \in Nat
  BY LenProperties
<1>2. t \in 0..Len(q)
  BY <1>1 DEF Taken
<1>3. BytesRead(q, n) = SubSeq(q, 1, t) /\ AfterRead(q, n) = SubSeq(q, t + 1, Len(q))
  BY DEF BytesRead, AfterRead
<1> HIDE DEF t
<1>4. SubSeq(q, 1, t) \in Seq(Nat) /\ SubSeq(q, t + 1, Len(q)) \in Seq(Nat)
  BY <1>1, <1>2, SubSeqProperties
<1>5. 1 \in 1..Len(q) + 1 /\ t \in 1 - 1..Len(q) /\ Len(q) \in t..Len(q)
  BY <1>1, <1>2
<1>6. SubSeq(q, 1, t) \o SubSeq(q, t + 1, Len(q)) = SubSeq(q, 1, Len(q))
  BY <1>5, ConcatAdjacentSubSeq
<1>7. SubSeq(q, 1, Len(q)) = q
  BY SubSeqFull
<1>8. QED
  BY <1>3, <1>4, <1>6, <1>7

\* write_samples takes the next packet from the front of the ring buffer: the line
\* stays what it was.
LEMMA FillLine ==
    ASSUME TimedInv, Untouched, StreamOrder, TxRead, RecordFill
    PROVE  /\ ArmedData' = ArmedData /\ PreparedData = <<>>
           /\ PreparedData' = BytesRead(out_rb, len) /\ out_rb' = AfterRead(out_rb, len)
           /\ MicFlags' /\ MicData' /\ LineInv'
<1> DEFINE h == half
           t == Taken(out_rb, len)
           n == AUDIO_INP_PACKET_SZ
           data == BytesRead(out_rb, len)
<1>1. /\ pc = "txRead" /\ pc' = "txPad" /\ h' = h /\ out_rb' = AfterRead(out_rb, len)
      /\ UNCHANGED <<streams, txArmed, open_flag, ep_busy_flag, reg,
                     clobbered, closes, heard, copied>>
  BY DEF TxRead, RecordFill, Goto, usb, host
<1>2. MicFlags /\ MicData /\ LineInv
  BY DEF StreamOrder
<1>3. /\ h \in 0..1 /\ len \in 0..n /\ n \in Nat /\ out_rb \in Seq(Nat) /\ Len(out_rb) \in Nat
      /\ write_bf \in DblBuffers(n) /\ h = Other(write_bf)
      /\ "TX" \notin ep_busy_flag
  BY <1>1, <1>2, PacketsFitHalves, LineTyped, LenProperties
  DEF TimedInv, TypeInv, TypeOK, LocalsFit, MicFlags, MicData, Filling, TxWork
<1>4. /\ t \in 0..n /\ t <= Len(out_rb) /\ t \in Nat
      /\ data \in Seq(Nat) /\ Len(data) = t
      /\ \A i \in 1..t : data[i] \in Nat
  <2>1. t \in 0..Len(out_rb) /\ t <= n /\ t <= len
    BY <1>3 DEF Taken
  <2>2. data = SubSeq(out_rb, 1, t)
    BY DEF BytesRead
  <2> HIDE DEF t, data
  <2>3. data \in Seq(Nat) /\ Len(data) = t
    BY <1>3, <2>1, <2>2, SubSeqProperties
  <2>4. \A i \in 1..t : data[i] \in Nat
    BY <2>3, ElementOfSeq
  <2>5. QED
    BY <1>3, <2>1, <2>3, <2>4
<1>5. /\ \A g \in 0..1, i \in 1..n :
            txMem'[g][i] = IF g = h /\ i <= t THEN data[i] ELSE txMem[g][i]
      /\ filled'[h] = t /\ \A g \in 0..1 : g # h => filled'[g] = filled[g]
      /\ write_bf'.count = t /\ Other(write_bf') = h
  <2>1. /\ txMem \in [0..1 -> [1..n -> 0..MaxPos]]
        /\ filled \in [0..1 -> 0..n]
    BY DEF TimedInv, TypeInv, TypeOK, Halves, HistType
  <2>2. /\ filled' = [filled EXCEPT ![h] = t]
        /\ write_bf' = [write_bf EXCEPT !.count = Len(data)]
        /\ txMem' = [txMem EXCEPT ![h] = [i \in DOMAIN @ |-> IF i <= Len(data) THEN data[i] ELSE @[i]]]
    BY DEF TxRead, RecordFill
  <2> HIDE DEF h, t, n, data
  <2>3. QED
    BY <1>3, <1>4, <2>1, <2>2 DEF DblBuffers, Other
<1> HIDE DEF t, data
<1>6. PreparedData = <<>>
  BY <1>1, <1>3 DEF PreparedData, Prepared, Preparing
<1>7. PreparedData' = data
  <2>1. Prepared'
    BY <1>1 DEF Prepared, Preparing
  <2>2. PreparedData' = [i \in 1..t |-> txMem'[h][i]]
    BY <1>4, <1>5, <2>1 DEF PreparedData, Data
  <2>3. \A i \in 1..t : txMem'[h][i] = data[i]
    BY <1>3, <1>4, <1>5
  <2>4. QED
    BY <1>4, <2>2, <2>3
<1>8. txArmed # None => txArmed.half \in 0..1 /\ txArmed.half # h
  BY <1>1, LineTyped DEF TimedInv, PaceInv, TxInv
<1>9. /\ ArmedData' = ArmedData
      /\ txArmed # None /\ SilentAfter(txArmed.half, txArmed.len)
             => SilentAfter(txArmed.half, txArmed.len)'
  BY <1>1, <1>5, <1>8, ArmedKept DEF TimedInv
<1>10. MicFlags'
  BY <1>1, <1>2 DEF MicFlags, TxWork, Boot
<1>11. MicData'
  <2>1. half' = Other(write_bf)' /\ write_bf'.count = filled'[Other(write_bf)']
    BY <1>1, <1>5
  <2>2. txArmed' # None => SilentAfter(txArmed.half, txArmed.len)'
    BY <1>1, <1>2, <1>9 DEF MicData
  <2>3. QED
    BY <1>1, <2>1, <2>2 DEF MicData, Filling, Counting
<1>12. LineInv'
  <2>1. data \o out_rb' = out_rb /\ out_rb' \in Seq(Nat)
    <3>1. len \in Nat
      BY <1>3
    <3>2. QED
      BY <1>1, <1>3, <3>1, ReadParts DEF data
  <2>2. ArmedData \in Seq(Nat)
    BY LineTyped DEF TimedInv
  <2>3. Line' = (ArmedData \o data) \o out_rb'
    BY <1>7, <1>9 DEF Line
  <2>4. Line' = ArmedData \o out_rb
    BY <1>4, <2>1, <2>2, <2>3, Regroup, Zenon
  <2>5. Line = ArmedData \o out_rb
    BY <1>6, <2>2, ConcatEmptySeq DEF Line
  <2>6. QED
    BY <1>1, <1>2, <2>4, <2>5 DEF LineInv
<1>13. QED
  BY <1>1, <1>6, <1>7, <1>9, <1>10, <1>11, <1>12 DEF data

\* The silence it adds is not part of the line.
LEMMA PadLine ==
    ASSUME TimedInv, Untouched, StreamOrder, TxPad, UNCHANGED hist
    PROVE  /\ ArmedData' = ArmedData /\ PreparedData' = PreparedData /\ out_rb' = out_rb
           /\ MicFlags' /\ MicData' /\ LineInv'
<1> DEFINE h == Other(write_bf)
           c == write_bf.count
           n == AUDIO_INP_PACKET_SZ
<1>1. /\ pc \in Counting /\ pc' \in Preparing /\ pc' # "txStore"
      /\ UNCHANGED <<streams, txArmed, open_flag, ep_busy_flag, reg, out_rb,
                     clobbered, closes, heard, copied, filled>>
  BY DEF TxPad, TxShort, TxArg, TxFill, TxCount, Goto, Counting, Preparing, usb, bufs, mem,
         host, hist
<1>2. MicFlags /\ MicData /\ LineInv
  BY DEF StreamOrder
<1>3. /\ h \in 0..1 /\ len \in 0..n /\ n \in Nat /\ c \in 0..n /\ c <= len /\ c = filled[h]
      /\ txMem \in [0..1 -> [1..n -> 0..MaxPos]] /\ write_bf \in DblBuffers(n)
  BY <1>1, <1>2, PacketsFitHalves
  DEF TimedInv, TypeInv, TypeOK, LocalsFit, MicData, WholeInv, Counting, DblBuffers, Other, Halves
<1>4. pc = "txFill" => /\ half = h /\ arg = c
                       /\ txArmed # None => txArmed.half # h
  BY <1>2 DEF MicData, Filling, TimedInv, WholeInv, PaceInv, TxInv
<1>5. /\ \A g \in 0..1, i \in 1..n : txMem'[g][i] =
            IF pc = "txFill" /\ g = h /\ i \in c+1..len THEN 0 ELSE txMem[g][i]
      /\ write_bf'.count = IF pc = "txCount" THEN len ELSE c
      /\ Other(write_bf') = h
  <2>1. CASE TxFill
    <3>1. pc = "txFill" /\ write_bf' = write_bf
      BY <2>1 DEF TxFill, Goto, bufs
    <3>2. txMem' = Silenced(txMem, h, c, len - c, n)
      BY <1>4, <2>1, <3>1 DEF TxFill
    <3> HIDE DEF h, c, n
    <3>3. \A g \in 0..1, i \in 1..n :
             txMem'[g][i] = IF g = h /\ i \in c+1..len THEN 0 ELSE txMem[g][i]
      BY <1>3, <3>2 DEF Silenced
    <3>4. QED
      BY <3>1, <3>3 DEF h, c
  <2>2. CASE TxShort \/ TxArg
    BY <2>2 DEF TxShort, TxArg, Goto, bufs, mem
  <2>3. CASE TxCount
    BY <1>3, <2>3 DEF TxCount, Goto, mem, DblBuffers, Other
  <2>4. QED
    BY <2>1, <2>2, <2>3 DEF TxPad
<1>6. PreparedData' = PreparedData
  <2>1. Prepared /\ Prepared'
    BY <1>1 DEF Prepared, Preparing, Counting
  <2>2. PreparedData = [i \in 1..c |-> txMem[h][i]]
    BY <1>3, <2>1 DEF PreparedData, Data
  <2>3. filled'[h] = c /\ c <= write_bf'.count
    BY <1>1, <1>3, <1>5
  <2>4. PreparedData' = [i \in 1..c |-> txMem'[h][i]]
    BY <1>5, <2>1, <2>3 DEF PreparedData, Data
  <2>5. \A i \in 1..c : txMem'[h][i] = txMem[h][i]
    BY <1>3, <1>5
  <2> HIDE DEF c, h
  <2>6. QED
    BY <2>2, <2>4, <2>5
<1>7. txArmed # None => txArmed.half \in 0..1
  BY LineTyped DEF TimedInv
<1>8. txArmed # None => \A i \in 1..n : txMem'[txArmed.half][i] = txMem[txArmed.half][i]
  BY <1>4, <1>5, <1>7
<1>9. /\ ArmedData' = ArmedData
      /\ txArmed # None /\ SilentAfter(txArmed.half, txArmed.len)
             => SilentAfter(txArmed.half, txArmed.len)'
  BY <1>1, <1>8, ArmedKept DEF TimedInv
<1>10. MicFlags'
  BY <1>1, <1>2 DEF MicFlags, TxWork, Boot, Counting, Preparing
<1>11. MicData'
  <2>1. pc' \in Filling => half' = h /\ pc \in Filling
    BY <1>2 DEF TxPad, TxShort, TxArg, TxFill, TxCount, Goto, Filling, MicData
  <2>2. pc' \in Counting => pc # "txCount"
    BY DEF TxPad, TxShort, TxArg, TxFill, TxCount, Goto, Counting
  <2>3. pc' = "txCount" => SilentAfter(Other(write_bf), len)'
    <3>1. SUFFICES ASSUME pc' = "txCount" PROVE SilentAfter(Other(write_bf), len)'
      OBVIOUS
    <3>2. pc = "txFill" /\ len' = len
      BY <3>1 DEF TxPad, TxShort, TxArg, TxFill, TxCount, Goto
    <3>3. \A i \in c+1..len : txMem'[h][i] = 0
      BY <1>3, <1>5, <3>2
    <3>4. filled'[h] = c
      BY <1>1, <1>3
    <3>5. QED
      BY <1>5, <3>2, <3>3, <3>4 DEF SilentAfter
  <2>4. pc' \notin Counting => SilentAfter(Other(write_bf), write_bf.count)'
    <3>1. SUFFICES ASSUME pc' \notin Counting
                   PROVE  SilentAfter(Other(write_bf), write_bf.count)'
      OBVIOUS
    <3>2. filled'[h] = c
      BY <1>1, <1>3
    <3>3. pc = "txCount" \/ (pc = "txPad" /\ write_bf'.count = c)
      BY <1>5, <3>1 DEF TxPad, TxShort, TxArg, TxFill, TxCount, Goto, Counting
    <3>4. CASE pc = "txCount"
      <4>1. \A i \in filled[h]+1..len : txMem[h][i] = 0
        BY <1>2, <3>4 DEF MicData, SilentAfter
      <4>2. \A i \in c+1..len : txMem'[h][i] = 0
        BY <1>3, <1>5, <3>4, <4>1
      <4>3. QED
        BY <1>5, <3>2, <3>4, <4>2 DEF SilentAfter
    <3>5. CASE pc # "txCount"
      BY <1>3, <1>5, <3>2, <3>3, <3>5 DEF SilentAfter
    <3>6. QED
      BY <3>4, <3>5
  <2>5. pc' \in Counting => write_bf'.count = filled'[Other(write_bf)']
    BY <1>1, <1>3, <1>5, <2>2 DEF Counting
  <2>6. txArmed' # None => SilentAfter(txArmed.half, txArmed.len)'
    BY <1>1, <1>2, <1>9 DEF MicData
  <2>7. QED
    BY <1>5, <2>1, <2>3, <2>4, <2>5, <2>6 DEF MicData
<1>12. LineInv'
  <2>1. Line' = Line
    BY <1>1, <1>6, <1>9 DEF Line
  <2>2. QED
    BY <1>1, <1>2, <2>1 DEF LineInv
<1>13. QED
  BY <1>1, <1>6, <1>9, <1>10, <1>11, <1>12

\* The other steps of the main program leave the bytes where they are.
LEMMA LoopLine ==
    ASSUME TimedInv, Untouched, Untouched', StreamOrder, TimedMain, ~RxCopy, ~TxRead, ~TxPad
    PROVE  /\ ArmedData' = ArmedData /\ PreparedData' = PreparedData /\ out_rb' = out_rb
           /\ MicFlags' /\ MicData' /\ LineInv'
<1>1. MicFlags /\ MicData /\ LineInv
  BY DEF StreamOrder
<1>2. UNCHANGED <<streams, txArmed, open_flag, txMem, filled, heard, copied>>
  BY
  DEF TimedMain, RecordStore, hist, usb, mem, Goto, WaitConfigured, RingInit, InitWriteBf,
      InitReadBf, TestOpen, TestRead, TestWrite, TestFb, Branch, RxPos, RxLen, TxPos, TxNeed,
      Claim, Load, Store
<1>3. /\ MicFlags'
      /\ Prepared' <=> Prepared
      /\ Prepared \/ pc \in TxWork => write_bf' = write_bf
      /\ pc' \in Filling => half' = Other(write_bf) /\ pc \in TxWork
      /\ pc \notin Counting /\ pc' \notin Counting
      /\ out_rb' = out_rb
  <2> USE DEF MicFlags, Prepared, Preparing, Filling, Counting, TxWork, Boot, Goto
  <2>1. CASE WaitConfigured \/ RingInit \/ InitWriteBf \/ InitReadBf
    <3>1. open_flag = {}
      BY <2>1 DEF TimedInv, PaceInv, BootInv, WaitConfigured, RingInit, InitWriteBf, InitReadBf,
                  Branch
    <3>2. QED
      BY <1>1, <1>2, <2>1, <3>1
      DEF WaitConfigured, RingInit, InitWriteBf, InitReadBf, Branch, mem, bufs
  <2>2. CASE TestOpen \/ TestRead \/ TestFb
    <3>1. CASE TestOpen
      BY <1>1, <1>2, <3>1 DEF TestOpen, Branch, bufs, mem
    <3>2. CASE TestRead
      BY <1>1, <1>2, <3>2 DEF TestRead, Branch, bufs, mem
    <3>3. CASE TestFb
      BY <1>1, <1>2, <3>3 DEF TestFb, Branch, bufs, mem
    <3>4. QED
      BY <2>2, <3>1, <3>2, <3>3
  <2>3. CASE TestWrite
    BY <1>1, <1>2, <2>3 DEF TestWrite, AfterMic, Branch, bufs, mem
  <2>4. CASE RxPos \/ RxLen \/ TxPos \/ TxNeed
    <3>1. CASE RxPos \/ RxLen \/ TxPos
      BY <1>1, <1>2, <3>1 DEF RxPos, RxLen, TxPos, bufs, mem
    <3>2. CASE TxNeed
      BY <1>1, <1>2, <3>2 DEF TxNeed, MicData, bufs, mem
    <3>3. QED
      BY <2>4, <3>1, <3>2
  <2>5. CASE Claim /\ RecordStore
    <3>1. CASE \/ Load("rxLoad", "rxStore") \/ Load("txLoad", "txStore")
               \/ Load("fbLoad", "fbStore")
      BY <1>1, <1>2, <3>1 DEF Load, bufs, mem
    <3>2. "TX" \notin ep_busy_flag /\ pc \in {"rxStore", "txStore", "fbStore"} => "TX" \notin reg
      BY <2>5 DEF RecordStore, Untouched
    <3>3. CASE Store("rxStore", "RX", "txOpen") \/ Store("fbStore", "FB", "top")
      BY <1>1, <1>2, <3>2, <3>3 DEF Store, bufs, mem
    <3>4. CASE Store("txStore", "TX", AfterMic)
      BY <1>1, <1>2, <3>4 DEF Store, AfterMic, bufs, mem
    <3>5. QED
      BY <2>5, <3>1, <3>3, <3>4 DEF Claim
  <2>6. QED
    BY <2>1, <2>2, <2>3, <2>4, <2>5 DEF TimedMain
<1>4. /\ PreparedData' = PreparedData
      /\ Prepared /\ SilentAfter(Other(write_bf), write_bf.count)
             => SilentAfter(Other(write_bf), write_bf.count)'
  BY <1>2, <1>3, PreparedKept DEF TimedInv
<1>5. /\ ArmedData' = ArmedData
      /\ txArmed # None /\ SilentAfter(txArmed.half, txArmed.len)
             => SilentAfter(txArmed.half, txArmed.len)'
  BY <1>2, ArmedKept DEF TimedInv
<1>6. MicData'
  <2>1. pc' \in Filling => half' = Other(write_bf)'
    BY <1>3 DEF Other
  <2>2. QED
    BY <1>1, <1>2, <1>3, <1>4, <1>5, <2>1 DEF MicData, Counting
<1>7. LineInv'
  <2>1. Line' = Line
    BY <1>3, <1>4, <1>5 DEF Line
  <2>2. QED
    BY <1>1, <1>2, <2>1 DEF LineInv
<1>8. QED
  BY <1>3, <1>4, <1>5, <1>6, <1>7

\* The host gets the armed packet, the oldest bytes of the line, and the prepared one
\* is armed.
LEMMA DoneLine ==
    ASSUME TimedInv, Untouched, StreamOrder, TimedInDone
    PROVE  /\ ArmedData' = PreparedData /\ PreparedData' = <<>> /\ out_rb' = out_rb
           /\ MicFlags' /\ MicData' /\ LineInv'
<1>1. /\ "TX" \notin ep_busy_flag' /\ streams' = streams /\ 2 \in streams
      /\ txArmed' = [half |-> write_bf'.buffer_pos, len |-> write_bf.count]
      /\ write_bf' = Flip(write_bf) /\ txGap = 2
      /\ UNCHANGED <<open_flag, txMem, filled, out_rb, pc, reg, copied, half>>
      /\ heard' = IF ArmedData = <<>> THEN heard ELSE ArmedData[Len(ArmedData)]
  BY DEF TimedInDone, InDone, mem, main
<1>2. MicFlags /\ MicData /\ LineInv
  BY DEF StreamOrder
<1>3. "TX" \in open_flag /\ "TX" \in ep_busy_flag /\ pc \notin TxWork
  BY <1>1, <1>2 DEF MicFlags, TimedInv, PaceInv, TxInv, Quiet
<1>4. Prepared /\ ~Prepared' /\ pc \notin Filling \cup Counting
  BY <1>1, <1>3 DEF Prepared, Preparing, Filling, Counting, TxWork
<1>5. /\ txArmed'.half = Other(write_bf) /\ txArmed'.len = write_bf.count
      /\ txArmed' # None
  BY <1>1, LineTyped, FlipTyped, PacketsFitHalves DEF TimedInv, TypeInv, TypeOK, Other, None
<1>6. ArmedData' = PreparedData
  BY <1>1, <1>4, <1>5 DEF ArmedData, PreparedData, Data
<1>7. PreparedData' = <<>>
  BY <1>4 DEF PreparedData
<1>8. MicFlags'
  BY <1>1, <1>2, <1>3 DEF MicFlags, TxWork, Boot
<1>9. MicData'
  <2>1. SilentAfter(txArmed.half, txArmed.len)'
    BY <1>1, <1>2, <1>4, <1>5 DEF MicData, SilentAfter
  <2>2. QED
    BY <1>1, <1>4, <2>1 DEF MicData, Counting
<1>10. LineInv'
  <2>1. /\ ArmedData \in Seq(Nat) /\ PreparedData \in Seq(Nat) /\ out_rb \in Seq(Nat)
        /\ heard \in Nat /\ copied \in Nat
    BY LineTyped, TaskAssumption DEF TimedInv, HistType, LossInv, StreamInv, TypeInv, TypeOK
  <2>2. PreparedData \o out_rb \in Seq(Nat)
    BY <2>1, ConcatProperties
  <2>3. Line = ArmedData \o (PreparedData \o out_rb)
    BY <2>1, Regroup, Zenon DEF Line
  <2>4. Line' = PreparedData \o out_rb
    <3>1. Line' = (PreparedData \o <<>>) \o out_rb
      BY <1>1, <1>6, <1>7 DEF Line
    <3>2. PreparedData \o <<>> = PreparedData
      BY <2>1, ConcatEmptySeq
    <3>3. QED
      BY <3>1, <3>2
  <2>5. Between(ArmedData \o (PreparedData \o out_rb), heard, copied)
    BY <1>2, <2>3 DEF LineInv
  <2>6. Between(PreparedData \o out_rb, heard', copied)
    BY <1>1, <2>1, <2>2, <2>5, BetweenRest, Zenon
  <2>7. QED
    BY <1>1, <2>4, <2>6 DEF LineInv
<1>11. QED
  BY <1>1, <1>6, <1>7, <1>8, <1>9, <1>10

\* The other events do not move the bytes unless they stop a stream.
LEMMA EventLine ==
    ASSUME ~EarlyOpen, TimedInv, Untouched, Untouched', StreamOrder, TimedNext, ~TimedMain,
           ~TimedInDone
    PROVE  /\ ArmedData' = ArmedData /\ PreparedData' = PreparedData /\ out_rb' = out_rb
           /\ heard' = heard
           /\ MicFlags' /\ MicData' /\ LineInv'
<1>1. MicFlags /\ MicData /\ LineInv
  BY DEF StreamOrder
<1>2. /\ UNCHANGED <<txMem, filled, heard, copied, out_rb, pc, half, len, reg, txArmed>>
      /\ MicFlags'
      /\ Prepared' <=> Prepared
      /\ Prepared \/ pc \in TxWork => write_bf' = write_bf
  <2> USE DEF MicFlags, Prepared, Preparing, TxWork, Boot
  <2>1. CASE TimedOpenSpeaker
    BY <1>1, <2>1 DEF TimedOpenSpeaker, OpenSpeaker, MayOpen, Speaker, mem, main, Boot
  <2>2. CASE TimedOpenMic
    <3>1. 2 \notin streams /\ "TX" \notin open_flag
      BY <1>1, <2>2 DEF TimedOpenMic, OpenMic, MayOpen
    <3>2. QED
      BY <1>1, <2>2, <3>1 DEF TimedOpenMic, OpenMic, MayOpen, Mic, mem, main, hist
  <2>3. ASSUME NEW intf \in Interfaces, TimedClose(intf)
        PROVE  /\ UNCHANGED <<txMem, filled, heard, copied, out_rb, pc, half, len, reg, txArmed>>
               /\ MicFlags'
               /\ Prepared' <=> Prepared
               /\ write_bf' = write_bf
    <3>1. intf \notin streams \cup {0}
      BY <2>3 DEF TimedClose, Close, Untouched
    <3>2. /\ UNCHANGED <<txMem, filled, heard, copied, out_rb, pc, half, len, reg, write_bf>>
          /\ streams' = streams
          /\ open_flag' = open_flag \ (IF intf = 1 THEN Speaker ELSE Mic)
          /\ ep_busy_flag' = ep_busy_flag \ (IF intf = 1 THEN Speaker ELSE Mic)
          /\ txArmed' = IF intf = 2 THEN None ELSE txArmed
      BY <2>3, <3>1 DEF TimedClose, Close, mem, main, bufs
    <3>3. CASE intf = 1
      BY <1>1, <3>2, <3>3 DEF Speaker
    <3>4. CASE intf # 1
      <4>1. intf = 2
        BY <3>1, <3>4, TaskAssumption
      <4>2. "TX" \notin open_flag /\ "TX" \notin ep_busy_flag /\ txArmed = None
        BY <1>1, <3>1, <4>1
      <4>3. QED
        BY <1>1, <3>2, <4>1, <4>2 DEF Mic
    <3>5. QED
      BY <3>3, <3>4
  <2>4. ASSUME NEW n \in OutLens, TimedOutDone(n)
        PROVE  /\ UNCHANGED <<txMem, filled, heard, copied, out_rb, pc, half, len, reg, txArmed>>
               /\ MicFlags'
               /\ Prepared' <=> Prepared
               /\ write_bf' = write_bf
    BY <1>1, <2>4 DEF TimedOutDone, OutDone, main
  <2>5. CASE TimedReset
    BY <2>5, TaskAssumption DEF TimedReset, BusReset, Untouched, TimedInv, TypeInv, TypeOK
  <2>6. CASE Untimed \/ \E freq \in InpFreqs : TimedSetInpFreq(freq)
    BY <1>1, <2>6 DEF Untimed, TimedSetInpFreq, Configure, FbDone, SetOutFreq, SetInpFreq, usb, bufs, mem, main, hist
  <2>7. QED
    BY <2>1, <2>2, <2>3, <2>4, <2>5, <2>6 DEF TimedNext
<1>3. /\ PreparedData' = PreparedData
      /\ Prepared /\ SilentAfter(Other(write_bf), write_bf.count)
             => SilentAfter(Other(write_bf), write_bf.count)'
  BY <1>2, PreparedKept DEF TimedInv
<1>4. /\ ArmedData' = ArmedData
      /\ txArmed # None /\ SilentAfter(txArmed.half, txArmed.len)
             => SilentAfter(txArmed.half, txArmed.len)'
  BY <1>2, ArmedKept DEF TimedInv
<1>5. MicData'
  <2>1. /\ pc' \in Filling => half' = Other(write_bf)'
        /\ pc \in Counting => write_bf' = write_bf
    BY <1>1, <1>2 DEF MicData, Filling, Counting, TxWork, Other
  <2>2. /\ pc' \in Counting => write_bf'.count = filled'[Other(write_bf)']
        /\ pc' = "txCount" => SilentAfter(Other(write_bf), len)'
    BY <1>1, <1>2, <2>1 DEF MicData, SilentAfter, Counting
  <2>3. QED
    BY <1>1, <1>2, <1>3, <1>4, <2>1, <2>2 DEF MicData
<1>6. LineInv'
  <2>1. Line' = Line
    BY <1>2, <1>3, <1>4 DEF Line
  <2>2. QED
    BY <1>1, <1>2, <2>1 DEF LineInv
<1>7. QED
  BY <1>2, <1>3, <1>4, <1>5, <1>6

LEMMA InitStreamOrder == TimedInit => StreamOrder
<1> SUFFICES ASSUME TimedInit PROVE StreamOrder
  OBVIOUS
<1>1. MicFlags /\ MicData
  BY DEF TimedInit, Init, MicFlags, MicData, Prepared, Preparing, Filling, Counting, TxWork
<1>2. Line = <<>>
  <2>1. ArmedData = <<>> /\ PreparedData = <<>> /\ out_rb = <<>>
    BY DEF TimedInit, Init, ArmedData, PreparedData, Prepared, Preparing
  <2>2. <<>> \in Seq(Nat)
    BY EmptySeq
  <2>3. QED
    BY <2>1, <2>2, ConcatEmptySeq DEF Line
<1>3. heard = 0 /\ copied = 0
  BY DEF TimedInit
<1>4. QED
  BY <1>1, <1>2, <1>3 DEF StreamOrder, LineInv, Between, Increasing

\* What the history records of each step of the main program.
LEMMA MainHist ==
    ASSUME TimedMain
    PROVE  /\ RxCopy => RecordCopy
           /\ TxRead => RecordFill
           /\ TxPad => UNCHANGED hist
           /\ ~RxCopy /\ ~TxRead => unread' = unread
BY DEF TimedMain, RecordStore, hist, RxCopy, Goto, Claim, Load, Store, WaitConfigured, RingInit,
       InitWriteBf, InitReadBf, TestOpen, TestRead, TestWrite, TestFb, Branch, RxPos, RxLen,
       TxPos, TxNeed, TxRead, TxPad, TxShort, TxArg, TxFill, TxCount

\* A stream that has not been touched had not been touched before.
LEMMA UntouchedBefore ==
    ASSUME TypeInv, [TimedNext]_timedVars, Untouched'
    PROVE  Untouched
<1>1. closes \in Nat
  BY TaskAssumption DEF TypeInv, TypeOK
<1>2. CASE UNCHANGED timedVars
  BY <1>2 DEF Untouched, timedVars, vars, host, hist
<1>3. CASE TimedMain
  <2>1. closes' = closes
    BY <1>3
    DEF TimedMain, host, RxCopy, TxRead, Claim, Load, Store, WaitConfigured, RingInit, InitWriteBf,
        InitReadBf, TestOpen, TestRead, TestWrite, TestFb, Branch, RxPos, RxLen, TxPos, TxNeed, TxPad, TxShort, TxArg, TxFill, TxCount
  <2>2. clobbered \subseteq clobbered'
    <3>1. RecordCopy \/ RecordFill \/ UNCHANGED hist => clobbered' = clobbered
      BY DEF RecordCopy, RecordFill, hist
    <3>2. RecordStore => clobbered \subseteq clobbered'
      BY DEF RecordStore
    <3>3. QED
      BY <1>3, <3>1, <3>2 DEF TimedMain
  <2>3. QED
    BY <2>1, <2>2 DEF Untouched
<1>4. CASE TimedNext /\ ~TimedMain
  <2>1. ASSUME NEW intf \in Interfaces, TimedClose(intf) PROVE Untouched
    BY <1>1, <2>1 DEF Untouched, TimedClose, Close
  <2>2. CASE TimedReset
    BY <1>1, <2>2 DEF Untouched, TimedReset, BusReset, hist
  <2>3. CASE TimedOpenSpeaker \/ TimedOpenMic
    BY <2>3 DEF Untouched, TimedOpenSpeaker, OpenSpeaker, TimedOpenMic, OpenMic, host, hist
  <2>4. ASSUME NEW n \in OutLens, TimedOutDone(n) PROVE Untouched
    BY <2>4 DEF Untouched, TimedOutDone, OutDone
  <2>5. CASE TimedInDone
    BY <2>5 DEF Untouched, TimedInDone, InDone, host
  <2>6. CASE Untimed \/ \E freq \in InpFreqs : TimedSetInpFreq(freq)
    BY <2>6 DEF Untouched, Untimed, TimedSetInpFreq, Configure, FbDone, SetOutFreq, SetInpFreq, host, hist
  <2>7. QED
    BY <1>4, <2>1, <2>2, <2>3, <2>4, <2>5, <2>6 DEF TimedNext
<1>5. QED
  BY <1>2, <1>3, <1>4

LEMMA StepStreamOrder ==
    ~EarlyOpen => (TimedInv /\ StreamOrder /\ [TimedNext]_timedVars => StreamOrder')
<1> SUFFICES ASSUME ~EarlyOpen, TimedInv, StreamOrder, [TimedNext]_timedVars, Untouched'
             PROVE  (MicFlags /\ MicData /\ LineInv)'
  BY DEF StreamOrder
<1>1. Untouched
  BY UntouchedBefore DEF TimedInv
<1>2. CASE UNCHANGED timedVars
  <2>1. MicFlags /\ MicData /\ LineInv
    BY <1>1 DEF StreamOrder
  <2>2. /\ UNCHANGED <<streams, txArmed, open_flag, ep_busy_flag, write_bf, txMem, filled, out_rb>>
        /\ UNCHANGED <<pc, half, len, reg, heard, copied>>
    BY <1>2 DEF timedVars, vars, usb, bufs, mem, main, hist
  <2>3. Prepared' <=> Prepared
    BY <2>2 DEF Prepared, Preparing
  <2>4. ArmedData' = ArmedData /\ PreparedData' = PreparedData
    BY <2>2, <2>3, ArmedKept, PreparedKept DEF TimedInv
  <2>5. MicFlags'
    BY <2>1, <2>2 DEF MicFlags
  <2>6. MicData'
    BY <2>1, <2>2, <2>3 DEF MicData, SilentAfter, Other
  <2>7. LineInv'
    BY <2>1, <2>2, <2>4 DEF LineInv, Line
  <2>8. QED
    BY <2>5, <2>6, <2>7
<1>3. CASE TimedMain
  <2>1. CASE RxCopy
    BY <1>1, <1>3, <2>1, MainHist, CopyLine
  <2>2. CASE TxRead
    BY <1>1, <1>3, <2>2, MainHist, FillLine
  <2>3. CASE TxPad
    BY <1>1, <1>3, <2>3, MainHist, PadLine
  <2>4. QED
    BY <1>1, <1>3, <2>1, <2>2, <2>3, LoopLine
<1>4. CASE TimedNext /\ ~TimedMain
  BY <1>1, <1>4, DoneLine, EventLine
<1>5. QED
  BY <1>2, <1>3, <1>4

LEMMA StreamOrderCorrect == ~EarlyOpen => (TimedSpec => [](TimedInv /\ StreamOrder))
<1> SUFFICES ASSUME ~EarlyOpen PROVE TimedSpec => [](TimedInv /\ StreamOrder)
  OBVIOUS
<1>1. TimedSpec => []TimedInv
  BY TimedInvCorrect
<1>2. TimedInv /\ StreamOrder /\ [TimedNext]_timedVars => StreamOrder'
  BY StepStreamOrder
<1>3. QED
  BY <1>1, <1>2, InitStreamOrder, PTL DEF TimedSpec

\* What is behind the part of the line the controller sends.
LEMMA LineParts ==
    ASSUME TimedInv, Untouched, StreamOrder
    PROVE  /\ Between(ArmedData, heard, copied)
           /\ ArmedData \in Seq(Nat) /\ PreparedData \in Seq(Nat) /\ out_rb \in Seq(Nat)
           /\ heard \in Nat /\ copied \in Nat
           /\ LET last == IF ArmedData = <<>> THEN heard ELSE ArmedData[Len(ArmedData)] IN
                  /\ last \in Nat
                  /\ Between(ArmedData, heard, last)
                  /\ Between(PreparedData \o out_rb, last, copied)
<1>1. /\ ArmedData \in Seq(Nat) /\ PreparedData \in Seq(Nat) /\ out_rb \in Seq(Nat)
      /\ heard \in Nat /\ copied \in Nat
  BY LineTyped, TaskAssumption DEF TimedInv, HistType, LossInv, StreamInv, TypeInv, TypeOK
<1>2. PreparedData \o out_rb \in Seq(Nat)
  BY <1>1, ConcatProperties
<1>3. Line = ArmedData \o (PreparedData \o out_rb)
  BY <1>1, Regroup, Zenon DEF Line
<1>4. Between(ArmedData \o (PreparedData \o out_rb), heard, copied)
  BY <1>3 DEF StreamOrder, LineInv
<1> DEFINE last == IF ArmedData = <<>> THEN heard ELSE ArmedData[Len(ArmedData)]
<1>5. last \in Nat /\ Between(ArmedData, heard, last) /\ Between(PreparedData \o out_rb, last, copied)
  BY <1>1, <1>2, <1>4, BetweenRest, Zenon
<1> HIDE DEF last
<1>6. Between(ArmedData, heard, copied)
  <2>1. \A i \in 1..Len(ArmedData) : ArmedData[i] \in Nat
    BY <1>1, ElementOfSeq
  <2> DEFINE s == ArmedData
  <2>2. /\ heard <= last /\ last <= copied /\ Increasing(s) /\ \A i \in 1..Len(s) : s[i] \in Nat
        /\ \A i \in 1..Len(s) : heard < s[i] /\ s[i] <= last
    BY <1>5, <2>1 DEF Between
  <2> HIDE DEF s
  <2>3. Between(s, heard, copied)
    BY <1>1, <1>5, <2>2 DEF Between
  <2>4. QED
    BY <2>3 DEF s
<1>7. QED
  BY <1>1, <1>5, <1>6 DEF last

\* The host gets the bytes of the stream in the order it sent them, none of them twice,
\* with silence only behind the last byte of a packet, wherever the callbacks interrupt
\* the loop, unless the host stops a stream or resets the bus or a store of
\* ep_busy_flag undoes the clearing of EP_TX_FLAG.
THEOREM MicInOrderCorrect == ~EarlyOpen => (TimedSpec => MicInOrder)
<1> SUFFICES ASSUME ~EarlyOpen PROVE TimedSpec => MicInOrder
  OBVIOUS
<1>1. TimedSpec => [](TimedInv /\ StreamOrder)
  BY StreamOrderCorrect
<1>2. ASSUME TimedInv, StreamOrder, InDone, closes = 0, "TX" \notin clobbered
      PROVE  /\ Increasing(ArmedData)
             /\ \A i \in 1..Len(ArmedData) : heard < ArmedData[i]
             /\ \A i \in Len(ArmedData)+1..txArmed.len : MicPacket[i] = 0
  <2>1. Untouched
    BY <1>2 DEF Untouched
  <2>2. Between(ArmedData, heard, copied)
    BY <1>2, <2>1, LineParts
  <2>3. ASSUME NEW i \in Len(ArmedData)+1..txArmed.len PROVE MicPacket[i] = 0
    <3>1. txArmed.len \in Nat /\ Len(ArmedData) \in Nat
      BY <1>2, LineTyped, LenProperties, PacketsFitHalves DEF TimedInv
    <3>2. txArmed # None
      BY <2>3, <3>1 DEF None
    <3>3. ArmedData = Data(txArmed.half, txArmed.len)
      BY <3>2 DEF ArmedData
    <3>4. /\ filled[txArmed.half] \in Nat
          /\ Len(ArmedData) = IF filled[txArmed.half] <= txArmed.len
                              THEN filled[txArmed.half] ELSE txArmed.len
      <4>1. txArmed.half \in 0..1 /\ txArmed.len \in 0..AUDIO_INP_PACKET_SZ
        BY <1>2, <3>2, LineTyped DEF TimedInv
      <4>2. filled[txArmed.half] \in 0..AUDIO_INP_PACKET_SZ
        BY <1>2, <4>1, DataTyped DEF TimedInv
      <4>3. Len(ArmedData) = IF filled[txArmed.half] <= txArmed.len
                             THEN filled[txArmed.half] ELSE txArmed.len
        BY <1>2, <3>3, <4>1, DataTyped DEF TimedInv
      <4>4. QED
        BY <4>2, <4>3, PacketsFitHalves
    <3>5. i \in filled[txArmed.half]+1..txArmed.len /\ i \in 1..txArmed.len
      BY <2>3, <3>1, <3>4
    <3>6. txMem[txArmed.half][i] = 0
      BY <1>2, <2>1, <3>2, <3>5 DEF StreamOrder, MicData, SilentAfter
    <3>7. QED
      BY <3>5, <3>6 DEF MicPacket
  <2>4. QED
    BY <2>2, <2>3 DEF Between
<1>3. TimedInv /\ StreamOrder
         => [InDone /\ closes = 0 /\ "TX" \notin clobbered
               => /\ Increasing(ArmedData)
                  /\ \A i \in 1..Len(ArmedData) : heard < ArmedData[i]
                  /\ \A i \in Len(ArmedData)+1..txArmed.len : MicPacket[i] = 0]_timedVars
  BY <1>2
<1>4. QED
  BY <1>1, <1>3, PTL DEF MicInOrder
-----------------------------------------------------------------------------
(***************************************************************************)
(* The device implements Loopback.                                         *)
(***************************************************************************)

LEMMA BytesConcat ==
    ASSUME NEW s \in Seq(Nat), NEW t \in Seq(Nat)
    PROVE  Bytes(s \o t) = Bytes(s) \cup Bytes(t)
<1> DEFINE r == s \o t
<1>1. /\ Len(s) \in Nat /\ Len(t) \in Nat /\ Len(r) = Len(s) + Len(t)
      /\ \A i \in 1..Len(r) : r[i] = IF i <= Len(s) THEN s[i] ELSE t[i - Len(s)]
  BY ConcatProperties
<1> HIDE DEF r
<1>2. ASSUME NEW p \in Bytes(r) PROVE p \in Bytes(s) \cup Bytes(t)
  <2>1. PICK i \in 1..Len(r) : p = r[i]
    BY DEF Bytes
  <2>2. CASE i <= Len(s)
    <3>1. i \in 1..Len(s) /\ p = s[i]
      BY <1>1, <2>1, <2>2
    <3>2. QED
      BY <3>1 DEF Bytes
  <2>3. CASE i > Len(s)
    <3>1. i - Len(s) \in 1..Len(t) /\ p = t[i - Len(s)]
      BY <1>1, <2>1, <2>3
    <3>2. QED
      BY <3>1 DEF Bytes
  <2>4. QED
    BY <1>1, <2>2, <2>3
<1>3. ASSUME NEW p \in Bytes(s) PROVE p \in Bytes(r)
  <2>1. PICK i \in 1..Len(s) : p = s[i]
    BY DEF Bytes
  <2>2. i \in 1..Len(r) /\ r[i] = p
    BY <1>1, <2>1
  <2>3. QED
    BY <2>2 DEF Bytes
<1>4. ASSUME NEW p \in Bytes(t) PROVE p \in Bytes(r)
  <2>1. PICK i \in 1..Len(t) : p = t[i]
    BY DEF Bytes
  <2>2. Len(s) + i \in 1..Len(r) /\ ~(Len(s) + i <= Len(s)) /\ (Len(s) + i) - Len(s) = i
    BY <1>1, <2>1
  <2>3. r[Len(s) + i] = p
    BY <1>1, <2>1, <2>2
  <2>4. QED
    BY <2>2, <2>3 DEF Bytes
<1>5. QED
  BY <1>2, <1>3, <1>4 DEF r

LEMMA BytesBetween ==
    ASSUME NEW s \in Seq(Nat), NEW lo \in Nat, NEW hi \in Nat, Between(s, lo, hi)
    PROVE  \A p \in Bytes(s) : p \in Nat /\ lo < p /\ p <= hi
<1>1. ASSUME NEW i \in 1..Len(s) PROVE s[i] \in Nat /\ lo < s[i] /\ s[i] <= hi
  BY ElementOfSeq DEF Between
<1>2. QED
  BY <1>1 DEF Bytes

\* The bytes of a packet that is not copied yet.
LEMMA UnreadBytes ==
    ASSUME TimedInv
    PROVE  /\ sent \in Nat /\ copied \in Nat /\ read_bf.count \in Nat
           /\ unread => /\ copied <= sent - read_bf.count /\ read_bf.count > 0
                        /\ Bytes(UnreadData) = sent - read_bf.count + 1 .. sent
           /\ ~unread => Bytes(UnreadData) = {}
<1>1. sent \in Nat /\ copied \in Nat /\ read_bf.count \in Nat
  BY TaskAssumption, PacketsFitHalves
  DEF TimedInv, LossInv, StreamInv, TypeInv, TypeOK, DblBuffers
<1>2. ASSUME unread
      PROVE  /\ copied <= sent - read_bf.count /\ read_bf.count > 0
             /\ Bytes(UnreadData) = sent - read_bf.count + 1 .. sent
  <2> DEFINE n == read_bf.count
             m == rxMem[Other(read_bf)]
             u == UnreadData
  <2>1. n > 0 /\ copied + n <= sent /\ \A i \in 1..n : m[i] = sent - n + i
    BY <1>2 DEF TimedInv, LossInv, UnreadInv, Latest
  <2>2. u = [i \in 1..n |-> m[i]]
    BY <1>2 DEF UnreadData
  <2> HIDE DEF n, m, u
  <2>3. n \in Nat
    BY <1>1 DEF n
  <2>4. Len(u) = n /\ \A i \in 1..n : u[i] = sent - n + i
    BY <2>1, <2>2, <2>3
  <2>5. Bytes(u) = {sent - n + i : i \in 1..n}
    BY <2>4 DEF Bytes
  <2>6. {sent - n + i : i \in 1..n} = sent - n + 1 .. sent
    <3>1. ASSUME NEW p \in sent - n + 1 .. sent PROVE \E i \in 1..n : p = sent - n + i
      <4>1. p - (sent - n) \in 1..n /\ p = sent - n + (p - (sent - n))
        BY <1>1, <2>3
      <4>2. QED
        BY <4>1
    <3>2. ASSUME NEW i \in 1..n PROVE sent - n + i \in sent - n + 1 .. sent
      BY <1>1, <2>3
    <3>3. QED
      BY <3>1, <3>2
  <2>7. QED
    BY <1>1, <2>1, <2>3, <2>5, <2>6 DEF n, u
<1>3. ASSUME ~unread PROVE Bytes(UnreadData) = {}
  BY <1>3 DEF UnreadData, Bytes
<1>4. QED
  BY <1>1, <1>2, <1>3

LEMMA UnreadKept ==
    ASSUME unread' <=> unread, unread => read_bf' = read_bf /\ rxMem' = rxMem
    PROVE  UnreadData' = UnreadData
BY DEF UnreadData, Other

\* A step that leaves the line alone and reads no packet.
LEMMA LineStutter ==
    ASSUME ArmedData' = ArmedData, PreparedData' = PreparedData, out_rb' = out_rb,
           UnreadData' = UnreadData, sent' = sent, heard' = heard
    PROVE  UNCHANGED L!loopVars
BY DEF L!loopVars, InDevice, Bytes

\* A packet the host sends: the one before it has been copied.
LEMMA SendStep ==
    ASSUME ~EarlyOpen, TimedInv, StreamOrder, TimedNext, NEW n \in OutLens, TimedOutDone(n),
           Untouched, Untouched', clobbered = {}
    PROVE  L!Send \/ UNCHANGED L!loopVars
<1>1. /\ ~TimedMain /\ ~TimedInDone
  <2>1. pc' = pc /\ sent' = sent + n /\ unread' = (n > 0) /\ streams' = streams
        /\ UNCHANGED <<write_bf, heard>>
    BY DEF TimedOutDone, OutDone, main
  <2>2. read_bf'.buffer_pos # read_bf.buffer_pos
    BY FlipTyped, PacketsFitHalves
    DEF TimedOutDone, OutDone, TimedInv, TypeInv, TypeOK, Flip, DblBuffers
  <2>3. read_bf' # read_bf
    BY <2>2
  <2>4. QED
    BY <2>1, <2>3
    DEF TimedMain, Goto, WaitConfigured, RingInit, InitWriteBf, InitReadBf, TestOpen, TestRead,
        TestWrite, TestFb, Branch, RxPos, RxLen, RxCopy, TxPos, TxNeed, TxRead, TxPad, TxShort, TxArg, TxFill, TxCount,
        Claim, Load, Store, bufs, TimedInDone, InDone
<1>2. /\ ArmedData' = ArmedData /\ PreparedData' = PreparedData /\ out_rb' = out_rb
      /\ heard' = heard
  BY <1>1, EventLine
<1>3. ~unread
  BY DEF TimedOutDone, TimedInv, LossInv, AnnouncedInv
<1>4. n \in Nat /\ sent' = sent + n /\ unread' = (n > 0) /\ read_bf'.count = n
  BY PacketsFitHalves DEF TimedOutDone, OutDone, OutLens, TimedInv, TypeInv, TypeOK, Flip, DblBuffers
<1>5. CASE n = 0
  <2>1. ~unread' /\ sent' = sent
    <3>1. ~(n > 0)
      BY <1>5
    <3>2. ~unread'
      BY <1>4, <3>1, Zenon
    <3>3. sent \in Nat
      BY UnreadBytes
    <3>4. QED
      BY <1>4, <1>5, <3>2, <3>3
  <2>2. UnreadData' = UnreadData
    BY <1>3, <2>1, UnreadKept
  <2>3. QED
    BY <1>2, <2>1, <2>2, LineStutter
<1>6. CASE n > 0
  <2>1. unread'
    BY <1>4, <1>6
  <2>2. LossInv'
    BY OutDoneLoss DEF TimedInv
  <2> DEFINE m == rxMem'[Other(read_bf')]
             u == UnreadData'
  <2>3. \A i \in 1..n : m[i] = sent' - n + i
    BY <1>4, <2>1, <2>2 DEF LossInv, UnreadInv, Latest
  <2>4. u = [i \in 1..n |-> m[i]]
    BY <1>4, <2>1 DEF UnreadData
  <2>5. sent \in Nat /\ Bytes(UnreadData) = {}
    BY <1>3, UnreadBytes
  <2> HIDE DEF m, u
  <2>6. Len(u) = n /\ \A i \in 1..n : u[i] = sent + i
    BY <1>4, <2>3, <2>4, <2>5
  <2>7. Bytes(u) = sent + 1 .. sent'
    <3>1. ASSUME NEW p \in sent + 1 .. sent' PROVE p \in Bytes(u)
      <4>1. p - sent \in 1..n /\ p = sent + (p - sent)
        BY <1>4, <2>5
      <4>2. u[p - sent] = p
        BY <2>6, <4>1
      <4>3. QED
        BY <2>6, <4>1, <4>2 DEF Bytes
    <3>2. ASSUME NEW p \in Bytes(u) PROVE p \in sent + 1 .. sent'
      <4>1. PICK i \in 1..n : p = sent + i
        BY <2>6 DEF Bytes
      <4>2. QED
        BY <1>4, <2>5, <4>1
    <3>3. QED
      BY <3>1, <3>2
  <2>8. InDevice' = InDevice \cup (sent + 1 .. sent')
    <3>1. /\ Bytes(ArmedData)' = Bytes(ArmedData) /\ Bytes(PreparedData)' = Bytes(PreparedData)
          /\ Bytes(out_rb)' = Bytes(out_rb) /\ Bytes(UnreadData)' = Bytes(u)
      BY <1>2 DEF Bytes, u
    <3>2. QED
      BY <2>5, <2>7, <3>1 DEF InDevice
  <2>9. sent' > sent
    BY <1>4, <1>6, <2>5
  <2>10. QED
    BY <1>2, <2>8, <2>9 DEF L!Send
<1>7. QED
  BY <1>4, <1>5, <1>6

\* The in callback delivers the oldest bytes, if the packet has any.
LEMMA DeliverStep ==
    ASSUME TimedInv, StreamOrder, TimedInDone, Untouched
    PROVE  L!Deliver \/ UNCHANGED L!loopVars
<1>1. ArmedData' = PreparedData /\ PreparedData' = <<>> /\ out_rb' = out_rb
  BY DoneLine
<1>2. /\ heard' = IF ArmedData = <<>> THEN heard ELSE ArmedData[Len(ArmedData)]
      /\ UNCHANGED <<sent, copied, unread, read_bf, rxMem>>
  BY DEF TimedInDone, InDone, mem, host
<1>3. UnreadData' = UnreadData
  BY <1>2, UnreadKept
<1>4. /\ ArmedData \in Seq(Nat) /\ PreparedData \in Seq(Nat) /\ out_rb \in Seq(Nat)
      /\ heard \in Nat /\ copied \in Nat /\ heard' \in Nat
      /\ Between(ArmedData, heard, heard')
      /\ Between(PreparedData \o out_rb, heard', copied)
  BY <1>2, LineParts
<1> DEFINE R == Bytes(PreparedData) \cup Bytes(out_rb) \cup Bytes(UnreadData)
<1>5. InDevice = Bytes(ArmedData) \cup R
  BY DEF InDevice
<1>6. InDevice' = R
  <2>1. Bytes(<<>>) = {}
    BY DEF Bytes
  <2>2. /\ Bytes(ArmedData)' = Bytes(PreparedData) /\ Bytes(PreparedData)' = Bytes(<<>>)
        /\ Bytes(out_rb)' = Bytes(out_rb) /\ Bytes(UnreadData)' = Bytes(UnreadData)
    BY <1>1, <1>3 DEF Bytes
  <2>3. QED
    BY <2>1, <2>2 DEF InDevice
<1>7. CASE ArmedData = <<>>
  <2>1. Bytes(ArmedData) = {}
    BY <1>7 DEF Bytes
  <2>2. QED
    BY <1>2, <1>5, <1>6, <1>7, <2>1 DEF L!loopVars
<1>8. CASE ArmedData # <<>>
  <2>1. heard' \in Bytes(ArmedData)
    <3>1. Len(ArmedData) \in 1..Len(ArmedData)
      BY <1>4, <1>8, EmptySeq
    <3>2. QED
      BY <1>2, <1>8, <3>1 DEF Bytes
  <2>2. \A p \in Bytes(ArmedData) : p \in Nat /\ p <= heard'
    BY <1>4, BytesBetween
  <2>3. \A p \in Bytes(PreparedData) \cup Bytes(out_rb) : p \in Nat /\ heard' < p
    <3>1. PreparedData \o out_rb \in Seq(Nat)
      BY <1>4, ConcatProperties
    <3>2. QED
      BY <1>4, <3>1, BytesConcat, BytesBetween
  <2>4. \A p \in Bytes(UnreadData) : p \in Nat /\ heard' < p
    <3>1. heard' <= copied
      BY <1>4 DEF Between
    <3>2. QED
      BY <1>4, <3>1, UnreadBytes
  <2>5. R = {p \in InDevice : p > heard'}
    BY <1>4, <1>5, <2>2, <2>3, <2>4
  <2>6. QED
    BY <1>2, <1>5, <1>6, <2>1, <2>5 DEF L!Deliver
<1>9. QED
  BY <1>7, <1>8

LEMMA LastIsHighest ==
    ASSUME NEW s \in Seq(Nat), NEW lo \in Nat, NEW hi \in Nat, Between(s, lo, hi), Len(s) # 0
    PROVE  /\ s[Len(s)] \in Bytes(s)
           /\ s[Len(s)] \in Nat /\ s[Len(s)] <= hi
           /\ \A p \in Bytes(s) : p \in Nat /\ p <= s[Len(s)]
<1>1. Len(s) \in Nat /\ Len(s) \in 1..Len(s)
  BY LenProperties
<1>2. \A i \in 1..Len(s) : s[i] \in Nat
  BY ElementOfSeq
<1>3. ASSUME NEW i \in 1..Len(s) PROVE s[i] <= s[Len(s)]
  <2>1. CASE i = Len(s)
    BY <1>1, <1>2, <2>1
  <2>2. CASE i < Len(s)
    BY <1>1, <1>2, <2>2 DEF Between, Increasing
  <2>3. QED
    BY <1>1, <2>1, <2>2
<1>4. QED
  BY <1>1, <1>2, <1>3 DEF Bytes, Between

\* As many different bytes as an increasing sequence has.
LEMMA ManyBytes ==
    ASSUME NEW s \in Seq(Nat), Increasing(s), NEW T, Bytes(s) \subseteq T, IsFiniteSet(T)
    PROVE  Cardinality(T) >= Len(s)
<1> DEFINE n == Len(s)
           f == [i \in 1..n |-> s[i]]
<1>1. n \in Nat /\ \A i \in 1..n : s[i] \in Nat /\ s[i] \in T
  BY ElementOfSeq, LenProperties DEF Bytes
<1>2. f \in [1..n -> T]
  BY <1>1
<1>3. \A i, j \in 1..n : s[i] = s[j] => i = j
  <2>1. ASSUME NEW i \in 1..n, NEW j \in 1..n, s[i] = s[j] PROVE i = j
    <3>1. ~(i < j)
      BY <1>1, <2>1 DEF Increasing
    <3>2. ~(j < i)
      BY <1>1, <2>1 DEF Increasing
    <3>3. QED
      BY <1>1, <3>1, <3>2
  <2>2. QED
    BY <2>1
<1>4. f \in Injection(1..n, T)
  BY <1>2, <1>3 DEF Injection, IsInjective
<1> HIDE DEF f, n
<1>5. Cardinality(1..n) <= Cardinality(T)
  BY <1>4, FS_Injection
<1>6. Cardinality(1..n) = n
  BY <1>1, FS_Interval
<1>7. Cardinality(T) \in Nat
  BY FS_CardinalityType
<1>8. QED
  BY <1>1, <1>5, <1>6, <1>7 DEF n

\* read_samples moves a packet inside the device; what the ring buffer does not
\* accept is the newest there is, and then the ring buffer is full.
LEMMA LoseStep ==
    ASSUME TimedInv, StreamOrder, RxCopy, RecordCopy, Untouched
    PROVE  (dropped' /\ L!Lose) \/ UNCHANGED L!loopVars
<1> DEFINE k == Accepted(out_rb, RxData)
           X == Kept
           Y == SubSeq(RxData, k + 1, Len(RxData))
<1>1. /\ pc = "rxCopy" /\ sent' = sent /\ heard' = heard
      /\ ArmedData' = ArmedData /\ PreparedData' = PreparedData
  BY CopyLine DEF RxCopy, RecordCopy, Goto, host
<1>2. /\ len \in Nat /\ copied \in Nat /\ sent \in Nat
      /\ RxData \in Seq(Nat) /\ Len(RxData) = len
      /\ copied' \in Nat /\ Between(RxData, copied, copied')
      /\ len = 0 => RxData = <<>> /\ copied' = copied
      /\ len > 0 => unread /\ RxData = UnreadData
  BY <1>1, CopiesNew
<1>3. ~unread' /\ Bytes(UnreadData)' = {}
  <2>1. ~unread'
    BY CopyTakesLatest DEF TimedInv
  <2>2. UnreadData' = <<>>
    BY <2>1 DEF UnreadData
  <2>3. Bytes(<<>>) = {}
    BY DEF Bytes
  <2>4. QED
    BY <2>1, <2>2, <2>3 DEF Bytes
<1>4. /\ k \in 0..len /\ X \in Seq(Nat) /\ Line \in Seq(Nat) /\ out_rb \in Seq(Nat)
      /\ out_rb' = out_rb \o X /\ Line' = Line \o X
  BY <1>1, <1>2, LineLonger
<1>5. Y \in Seq(Nat) /\ Len(Y) = len - k /\ Len(X) = k /\ X \o Y = RxData
  <2>1. Y \in Seq(Nat) /\ Len(Y) = len - k /\ Len(X) = k
    <3>1. k \in 0..len /\ Len(RxData) \in Nat
      BY <1>2, <1>4
    <3> HIDE DEF k
    <3>2. Len(X) = k
      BY <1>2, <3>1, SubSeqProperties DEF k, Kept
    <3>3. Y \in Seq(Nat) /\ Len(Y) = len - k
      BY <1>2, <3>1, SubSeqProperties
    <3>4. QED
      BY <3>2, <3>3
  <2>2. 1 \in 1..Len(RxData) + 1 /\ k \in 1 - 1..Len(RxData) /\ Len(RxData) \in k..Len(RxData)
    BY <1>2, <1>4
  <2>3. X \o Y = SubSeq(RxData, 1, Len(RxData))
    BY <1>2, <2>2, ConcatAdjacentSubSeq DEF Kept
  <2>4. SubSeq(RxData, 1, Len(RxData)) = RxData
    BY <1>2, SubSeqFull
  <2>5. QED
    BY <2>1, <2>3, <2>4
<1>6. Bytes(UnreadData) = Bytes(X) \cup Bytes(Y)
  <2>1. CASE len > 0
    <3>1. Bytes(X \o Y) = Bytes(X) \cup Bytes(Y)
      BY <1>4, <1>5, BytesConcat
    <3>2. QED
      BY <1>2, <1>5, <2>1, <3>1
  <2>2. CASE len = 0
    <3>1. ~unread
      <4>1. unread => len = read_bf.count /\ read_bf.count > 0
        BY <1>1 DEF TimedInv, LossInv, UnreadInv, Latest
      <4>2. QED
        BY <2>2, <4>1
    <3>2. Len(X) = 0 /\ Len(Y) = 0
      BY <1>4, <1>5, <2>2
    <3>3. Bytes(UnreadData) = {}
      BY <3>1, UnreadBytes
    <3> HIDE DEF X, Y
    <3>4. Bytes(X) = {} /\ Bytes(Y) = {}
      BY <3>2 DEF Bytes
    <3>5. QED
      BY <3>3, <3>4
  <2>3. QED
    BY <1>2, <2>1, <2>2
<1>7. /\ InDevice' = Bytes(Line')
      /\ InDevice = Bytes(Line') \cup Bytes(Y)
  <2>1. /\ ArmedData \in Seq(Nat) /\ PreparedData \in Seq(Nat)
        /\ ArmedData \o PreparedData \in Seq(Nat)
    BY LineTyped, ConcatProperties DEF TimedInv
  <2>2. Bytes(Line) = Bytes(ArmedData) \cup Bytes(PreparedData) \cup Bytes(out_rb)
    <3>1. Bytes(Line) = Bytes(ArmedData \o PreparedData) \cup Bytes(out_rb)
      BY <1>4, <2>1, BytesConcat DEF Line
    <3>2. Bytes(ArmedData \o PreparedData) = Bytes(ArmedData) \cup Bytes(PreparedData)
      BY <2>1, BytesConcat
    <3>3. QED
      BY <3>1, <3>2
  <2>3. Bytes(Line') = Bytes(Line) \cup Bytes(X)
    BY <1>4, BytesConcat
  <2>4. Bytes(out_rb') = Bytes(out_rb) \cup Bytes(X)
    BY <1>4, BytesConcat
  <2>5. /\ Bytes(ArmedData)' = Bytes(ArmedData) /\ Bytes(PreparedData)' = Bytes(PreparedData)
        /\ Bytes(out_rb)' = Bytes(out_rb')
    BY <1>1 DEF Bytes
  <2> HIDE DEF X, Y, k
  <2>6. InDevice' = Bytes(ArmedData) \cup Bytes(PreparedData) \cup Bytes(out_rb')
    BY <1>3, <2>5 DEF InDevice
  <2>7. QED
    BY <1>6, <2>2, <2>3, <2>4, <2>6 DEF InDevice
<1>8. k < len => Len(out_rb') = Capacity
  <2>1. Len(out_rb') = Len(out_rb) + k /\ Len(out_rb) \in Nat
    BY <1>4, <1>5, ConcatProperties, LenProperties
  <2>2. k < len => k = Capacity - Len(out_rb)
    BY <1>2 DEF Accepted
  <2>3. QED
    BY <1>4, <2>1, <2>2, CapacityAssumption
<1>0. k < len => dropped'
  BY <1>2 DEF RecordCopy
<1> HIDE DEF k, X, Y
<1>9. CASE k = len
  <2>1. Bytes(Y) = {}
    <3>1. Len(Y) = 0
      BY <1>2, <1>5, <1>9
    <3>2. QED
      BY <3>1 DEF Bytes
  <2>2. QED
    BY <1>1, <1>7, <2>1 DEF L!loopVars
<1>10. CASE k < len
  <2>1. Len(out_rb') = Capacity /\ Capacity \in Nat \ {0}
    BY <1>8, <1>10, CapacityAssumption
  <2> DEFINE mid == IF X = <<>> THEN copied ELSE X[Len(X)]
  <2>2. Between(X, copied, mid) /\ Between(Y, mid, copied') /\ mid \in Nat
    BY <1>2, <1>4, <1>5, BetweenRest, Zenon
  <2> HIDE DEF mid
  <2>3. Between(Line', heard, mid) /\ heard \in Nat
    <3>1. heard \in Nat
      BY TaskAssumption DEF TimedInv, HistType
    <3>2. Between(Line, heard, copied)
      BY DEF StreamOrder, LineInv
    <3>3. QED
      BY <1>2, <1>4, <2>2, <3>1, <3>2, BetweenConcat
  <2>4. Line' \in Seq(Nat) /\ out_rb' \in Seq(Nat) /\ Len(Line') # 0 /\ Bytes(out_rb') \subseteq Bytes(Line')
    <3>1. out_rb' \in Seq(Nat)
      BY <1>4, ConcatProperties
    <3>2. ArmedData \o PreparedData \in Seq(Nat)
      BY LineTyped, ConcatProperties DEF TimedInv
    <3>3. Line' = (ArmedData \o PreparedData) \o out_rb'
      BY <1>1 DEF Line
    <3>4. Len(Line') = Len(ArmedData \o PreparedData) + Len(out_rb') /\ Line' \in Seq(Nat)
      BY <3>1, <3>2, <3>3, ConcatProperties
    <3>5. Bytes(Line') = Bytes(ArmedData \o PreparedData) \cup Bytes(out_rb')
      BY <3>1, <3>2, <3>3, BytesConcat
    <3>6. Len(ArmedData \o PreparedData) \in Nat
      BY <3>2, LenProperties
    <3>7. QED
      BY <2>1, <3>1, <3>4, <3>5, <3>6
  <2> DEFINE last == Line'[Len(Line')]
  <2>5. /\ last \in Bytes(Line') /\ last \in Nat /\ last <= mid
        /\ \A p \in Bytes(Line') : p \in Nat /\ p <= last
    BY <2>2, <2>3, <2>4, LastIsHighest
  <2>6. \A p \in Bytes(Y) : p \in Nat /\ mid < p
    BY <1>2, <1>5, <2>2, BytesBetween
  <2> HIDE DEF last
  <2>7. last \in InDevice /\ InDevice' = {p \in InDevice : p <= last}
    <3>1. \A p \in Bytes(Y) : ~(p <= last)
      BY <2>2, <2>5, <2>6
    <3>2. \A p \in Bytes(Line') : p <= last
      BY <2>5
    <3>3. last \in InDevice
      BY <1>7, <2>5
    <3>4. QED
      BY <1>7, <3>1, <3>2, <3>3, Zenon
  <2>8. Cardinality(InDevice') >= Capacity
    <3>1. IsFiniteSet(Bytes(Line'))
      <4>1. Bytes(Line') \in SUBSET (0..last)
        <5>1. ASSUME NEW p \in Bytes(Line') PROVE p \in 0..last
          BY <2>5, <5>1
        <5>2. QED
          BY <5>1
      <4>2. IsFiniteSet(0..last)
        BY <2>5, FS_Interval
      <4>3. QED
        BY <4>1, <4>2, FS_Subset
    <3>2. Increasing(out_rb')
      <4>1. /\ ArmedData \o PreparedData \in Seq(Nat)
            /\ Line' = (ArmedData \o PreparedData) \o out_rb'
        BY <1>1, LineTyped, ConcatProperties DEF TimedInv, Line
      <4> DEFINE a == ArmedData \o PreparedData
                 m == IF a = <<>> THEN heard ELSE a[Len(a)]
      <4>2. Between(out_rb', m, mid)
        BY <2>2, <2>3, <2>4, <4>1, BetweenRest, Zenon
      <4>3. QED
        BY <4>2 DEF Between
    <3>3. Cardinality(Bytes(Line')) >= Len(out_rb')
      BY <2>4, <3>1, <3>2, ManyBytes
    <3>4. QED
      BY <1>7, <2>1, <3>3
  <2>9. L!Cardinality(InDevice') = Cardinality(InDevice')
    BY DEF L!Cardinality, Cardinality
  <2>10. QED
    BY <1>0, <1>1, <1>10, <2>7, <2>8, <2>9 DEF L!Lose
<1>11. QED
  BY <1>2, <1>4, <1>9, <1>10

\* The other steps of the main program leave the packets of the speaker alone.
LEMMA LoopUnread ==
    ASSUME TimedInv, TimedMain, ~RxCopy
    PROVE  UnreadData' = UnreadData /\ sent' = sent /\ heard' = heard
<1>1. CASE TxRead
  <2>1. UnreadData' = UnreadData
    <3>1. UNCHANGED <<unread, read_bf, rxMem>>
      BY <1>1, MainHist DEF TxRead, RecordFill
    <3>2. QED
      BY <3>1, UnreadKept
  <2>2. QED
    BY <1>1, <2>1, MainHist DEF TxRead, RecordFill, host
<1>2. CASE ~TxRead
  <2>1. unread' = unread
    BY <1>2, MainHist
  <2>2. unread => ~InitReadBf
    <3>1. unread => pc \notin Boot
      BY DEF TimedInv, LossInv, UnreadInv, PaceInv, BootInv
    <3>2. QED
      BY <3>1 DEF InitReadBf, Goto, Boot
  <2>3. rxMem' = rxMem /\ sent' = sent /\ heard' = heard
    BY <1>2
    DEF TimedMain, RecordStore, hist, host, mem, Claim, Load, Store, WaitConfigured, RingInit,
        InitWriteBf, InitReadBf, TestOpen, TestRead, TestWrite, TestFb, Branch, RxPos, RxLen,
        TxPos, TxNeed, TxPad, TxShort, TxArg, TxFill, TxCount
  <2>4. ~InitReadBf => read_bf' = read_bf
    BY <1>2
    DEF TimedMain, bufs, Claim, Load, Store, WaitConfigured, RingInit,
        InitWriteBf, TestOpen, TestRead, TestWrite, TestFb, Branch, RxPos, RxLen,
        TxPos, TxNeed, TxPad, TxShort, TxArg, TxFill, TxCount
  <2>5. UnreadData' = UnreadData
    BY <2>1, <2>2, <2>3, <2>4, UnreadKept
  <2>6. QED
    BY <2>3, <2>5
<1>3. QED
  BY <1>1, <1>2

\* write_samples moves bytes from the ring buffer to the packet it prepares.
LEMMA FillStep ==
    ASSUME TimedInv, TimedMain, StreamOrder, Untouched, TxRead
    PROVE  UNCHANGED L!loopVars
<1>1. /\ ArmedData' = ArmedData /\ PreparedData = <<>>
      /\ PreparedData' = BytesRead(out_rb, len) /\ out_rb' = AfterRead(out_rb, len)
  BY FillLine, MainHist
<1>2. ~RxCopy
  BY DEF TxRead, RxCopy, Goto
<1>3. UnreadData' = UnreadData /\ sent' = sent /\ heard' = heard
  BY <1>2, LoopUnread
<1>4. /\ BytesRead(out_rb, len) \in Seq(Nat) /\ AfterRead(out_rb, len) \in Seq(Nat)
      /\ BytesRead(out_rb, len) \o AfterRead(out_rb, len) = out_rb
  BY LineTyped, ReadParts DEF TimedInv, TypeInv, TypeOK
<1>5. Bytes(out_rb) = Bytes(PreparedData)' \cup Bytes(out_rb)'
  <2>1. Bytes(out_rb) = Bytes(BytesRead(out_rb, len)) \cup Bytes(AfterRead(out_rb, len))
    BY <1>4, BytesConcat
  <2>2. QED
    BY <1>1, <2>1 DEF Bytes
<1>6. Bytes(PreparedData) = {}
  BY <1>1 DEF Bytes
<1>7. Bytes(ArmedData)' = Bytes(ArmedData) /\ Bytes(UnreadData)' = Bytes(UnreadData)
  BY <1>1, <1>3 DEF Bytes
<1>8. InDevice' = InDevice
  BY <1>5, <1>6, <1>7 DEF InDevice
<1>9. QED
  BY <1>3, <1>8 DEF L!loopVars

\* The other events: none takes a packet from read_samples unless it stops a stream.
LEMMA EventStep ==
    ASSUME ~EarlyOpen, TimedInv, Untouched, Untouched', StreamOrder, TimedNext, ~TimedMain,
           ~TimedInDone, ~\E n \in OutLens : TimedOutDone(n)
    PROVE  UNCHANGED L!loopVars
<1>1. /\ ArmedData' = ArmedData /\ PreparedData' = PreparedData /\ out_rb' = out_rb
      /\ heard' = heard
  BY EventLine
<1>2. closes = 0 /\ closes' = 0
  BY DEF Untouched
<1>3. unread => 1 \in streams
  <2>1. unread => "RX" \in open_flag
    BY DEF TimedInv, LossInv, UnreadInv
  <2>2. ~Left
    <3>1. Owed \in 0..2 /\ (Left => Owed # 0)
      BY DEF Owed
    <3>2. QED
      BY <1>2, <3>1 DEF TimedInv, StaleInv
  <2>3. QED
    BY <2>1, <2>2 DEF Left
<1>4. sent' = sent /\ UnreadData' = UnreadData
  <2>1. CASE TimedOpenSpeaker
    <3>1. ~unread /\ ~unread'
      BY <1>3, <2>1 DEF TimedOpenSpeaker, OpenSpeaker, MayOpen
    <3>2. QED
      BY <2>1, <3>1, UnreadKept DEF TimedOpenSpeaker, OpenSpeaker, host
  <2>2. CASE TimedOpenMic
    BY <2>2, UnreadKept DEF TimedOpenMic, OpenMic, host, hist, mem
  <2>3. ASSUME NEW intf \in Interfaces, TimedClose(intf)
        PROVE  sent' = sent /\ UnreadData' = UnreadData
    <3>1. intf # 1 \/ ~unread
      BY <1>2, <1>3, <2>3 DEF TimedClose, Close
    <3>2. (unread' <=> unread) /\ sent' = sent /\ read_bf' = read_bf /\ rxMem' = rxMem
      BY <2>3, <3>1 DEF TimedClose, Close, bufs, mem
    <3>3. QED
      BY <3>2, UnreadKept
  <2>4. ~TimedReset
    BY <1>2 DEF TimedReset, BusReset
  <2>5. CASE Untimed \/ \E freq \in InpFreqs : TimedSetInpFreq(freq)
    BY <2>5, UnreadKept
    DEF Untimed, TimedSetInpFreq, Configure, FbDone, SetOutFreq, SetInpFreq, host, hist, bufs, mem
  <2>6. QED
    BY <2>1, <2>2, <2>3, <2>4, <2>5 DEF TimedNext
<1>5. QED
  BY <1>1, <1>4, LineStutter

\* Every step of the device is a step of Loopback or none, until the host stops a
\* stream or a store undoes the clearing of a flag.  It loses bytes only where
\* ring_buf_write refuses some.
LEMMA LoopbackStep ==
    ASSUME ~EarlyOpen, TimedInv, StreamOrder, [TimedNext]_timedVars, closes' = 0,
           clobbered' = {}
    PROVE  L!Send \/ L!Deliver \/ (dropped' /\ L!Lose) \/ UNCHANGED L!loopVars
<1>1. Untouched' /\ Untouched
  BY UntouchedBefore DEF Untouched, TimedInv
<1>2. CASE UNCHANGED timedVars
  <2>1. UNCHANGED <<txArmed, ep_busy_flag, read_bf, write_bf, rxMem, txMem, out_rb, pc,
                    sent, heard, unread, filled>>
    BY <1>2 DEF timedVars, vars, usb, bufs, mem, main, host, hist
  <2>2. Prepared' <=> Prepared
    BY <2>1 DEF Prepared, Preparing
  <2>3. ArmedData' = ArmedData /\ PreparedData' = PreparedData
    BY <2>1, <2>2, ArmedKept, PreparedKept DEF TimedInv
  <2>4. QED
    BY <2>1, <2>3, UnreadKept, LineStutter
<1>3. CASE TimedMain
  <2>1. CASE RxCopy
    BY <1>1, <1>3, <2>1, MainHist, LoseStep
  <2>2. CASE TxRead
    BY <1>1, <1>3, <2>2, FillStep
  <2>3. CASE ~RxCopy /\ ~TxRead
    <3>1. ArmedData' = ArmedData /\ PreparedData' = PreparedData /\ out_rb' = out_rb
      <4>1. CASE TxPad
        BY <1>1, <1>3, <4>1, MainHist, PadLine
      <4>2. CASE ~TxPad
        BY <1>1, <1>3, <2>3, <4>2, LoopLine
      <4>3. QED
        BY <4>1, <4>2
    <3>2. QED
      BY <1>3, <2>3, <3>1, LoopUnread, LineStutter
  <2>4. QED
    BY <2>1, <2>2, <2>3
<1>4. CASE TimedNext /\ ~TimedMain
  <2>1. ASSUME NEW n \in OutLens, TimedOutDone(n) PROVE L!Send \/ UNCHANGED L!loopVars
    <3>1. clobbered = {}
      BY <2>1 DEF TimedOutDone
    <3>2. QED
      BY <1>1, <1>4, <2>1, <3>1, SendStep
  <2>2. CASE TimedInDone
    BY <1>1, <2>2, DeliverStep
  <2>3. QED
    BY <1>1, <1>4, <2>1, <2>2, EventStep
<1>5. QED
  BY <1>2, <1>3, <1>4

LEMMA InitLoopback == TimedInit => L!LoopInit
<1> SUFFICES ASSUME TimedInit PROVE L!LoopInit
  OBVIOUS
<1>1. ArmedData = <<>> /\ PreparedData = <<>> /\ out_rb = <<>> /\ UnreadData = <<>>
  BY DEF TimedInit, Init, ArmedData, PreparedData, Prepared, Preparing, UnreadData
<1>2. Bytes(<<>>) = {}
  BY DEF Bytes
<1>3. InDevice = {}
  BY <1>1, <1>2 DEF InDevice
<1>4. QED
  BY <1>3 DEF TimedInit, Init, L!LoopInit

\* The device implements Loopback as long as the host stops no stream, resets no bus and
\* no store of ep_busy_flag undoes what a callback cleared: the bytes the host sends
\* come back in order and once, and get lost only when out_rb is full, the newest.
THEOREM LoopbackImplemented == ~EarlyOpen => (TimedSpec => ImplementsLoopback)
<1> SUFFICES ASSUME ~EarlyOpen PROVE TimedSpec => ImplementsLoopback
  OBVIOUS
<1>1. TimedSpec => [](TimedInv /\ StreamOrder)
  BY StreamOrderCorrect
<1>2. TimedInv /\ StreamOrder /\ [TimedNext]_timedVars
         => [closes' = 0 /\ clobbered' = {} => L!LoopNext]_(L!loopVars)
  BY LoopbackStep DEF L!LoopNext
<1>3. QED
  BY <1>1, <1>2, InitLoopback, PTL DEF TimedSpec, ImplementsLoopback

\* No byte has had a reason to get lost.
Clean == closes = 0 /\ clobbered = {} /\ ~dropped

LEMMA CleanBefore ==
    ASSUME TypeInv, [TimedNext]_timedVars, Clean'
    PROVE  Clean
<1>1. closes = 0
  BY UntouchedBefore DEF Clean, Untouched
<1>2. clobbered \subseteq clobbered' /\ (dropped => dropped')
  <2>1. CASE UNCHANGED timedVars
    BY <2>1 DEF timedVars, hist
  <2>2. CASE TimedMain
    <3>1. \/ RecordCopy
          \/ (RecordFill \/ RecordStore \/ UNCHANGED hist)
      BY <2>2 DEF TimedMain
    <3>2. RecordCopy => clobbered' = clobbered /\ (dropped => dropped')
      BY DEF RecordCopy
    <3>3. RecordFill \/ RecordStore \/ UNCHANGED hist
            => clobbered \subseteq clobbered' /\ dropped' = dropped
      BY DEF RecordFill, RecordStore, hist
    <3>4. QED
      BY <3>1, <3>2, <3>3
  <2>3. CASE TimedNext /\ ~TimedMain
    <3>1. clobbered' = clobbered /\ dropped' = dropped
      BY <2>3
      DEF TimedNext, TimedOpenSpeaker, TimedOpenMic, TimedClose, TimedOutDone, TimedInDone,
          TimedReset, Untimed, TimedSetInpFreq, hist
    <3>2. QED
      BY <3>1
  <2>4. QED
    BY <2>1, <2>2, <2>3
<1>3. QED
  BY <1>1, <1>2 DEF Clean

\* In a step of a clean stream Loopback loses nothing.
LEMMA StepForgotten ==
    ASSUME ~EarlyOpen, TimedInv, StreamOrder, NothingForgotten, [TimedNext]_timedVars, Clean'
    PROVE  InDevice' = heard' + 1 .. sent'
<1>1. Clean
  BY CleanBefore DEF TimedInv
<1>2. InDevice = heard + 1 .. sent
  BY <1>1 DEF NothingForgotten, Clean
<1>3. heard \in Nat /\ sent \in Nat /\ heard <= sent
  <2>1. heard \in Nat /\ copied \in 0..sent /\ sent \in Nat
    BY TaskAssumption DEF TimedInv, HistType, LossInv, StreamInv, TypeInv, TypeOK
  <2>2. heard <= copied
    BY <1>1 DEF StreamOrder, LineInv, Between, Untouched, Clean
  <2>3. QED
    BY <2>1, <2>2
<1>4. L!Send \/ L!Deliver \/ UNCHANGED L!loopVars
  BY LoopbackStep DEF Clean
<1>5. sent' \in Nat
  <2>1. TypeInv'
    BY TimedIsUntimed, StepTypeInv DEF TimedInv
  <2>2. QED
    BY <2>1, TaskAssumption DEF TypeInv, TypeOK
<1>6. CASE L!Send
  <2>1. sent' > sent /\ InDevice' = InDevice \cup (sent + 1 .. sent') /\ heard' = heard
    BY <1>6 DEF L!Send
  <2>2. (heard + 1 .. sent) \cup (sent + 1 .. sent') = heard + 1 .. sent'
    BY <1>3, <1>5, <2>1
  <2>3. QED
    BY <1>2, <2>1, <2>2
<1>7. CASE L!Deliver
  <2>1. heard' \in InDevice /\ InDevice' = {p \in InDevice : p > heard'} /\ sent' = sent
    BY <1>7 DEF L!Deliver
  <2> DEFINE h == heard'
  <2>2. h \in heard + 1 .. sent /\ InDevice' = {p \in heard + 1 .. sent : p > h}
    BY <1>2, <2>1
  <2> HIDE DEF h
  <2>3. {p \in heard + 1 .. sent : p > h} = h + 1 .. sent
    BY <1>3, <2>2
  <2>4. QED
    BY <2>1, <2>2, <2>3 DEF h
<1>8. CASE UNCHANGED L!loopVars
  BY <1>2, <1>8 DEF L!loopVars
<1>9. QED
  BY <1>4, <1>6, <1>7, <1>8

\* No byte vanishes on its way: as long as the host stops nothing, no store of
\* ep_busy_flag undoes what a callback cleared and the ring buffer does not overflow, what
\* the host has sent and not got back is in the device, and nothing else is.
THEOREM NothingForgottenCorrect == ~EarlyOpen => (TimedSpec => []NothingForgotten)
<1> SUFFICES ASSUME ~EarlyOpen PROVE TimedSpec => []NothingForgotten
  OBVIOUS
<1>1. TimedSpec => [](TimedInv /\ StreamOrder)
  BY StreamOrderCorrect
<1>2. TimedInit => NothingForgotten
  <2> SUFFICES ASSUME TimedInit PROVE InDevice = heard + 1 .. sent
    BY DEF NothingForgotten
  <2>1. sent = 0 /\ heard = 0 /\ InDevice = {}
    BY InitLoopback DEF L!LoopInit
  <2>2. QED
    BY <2>1
<1>3. TimedInv /\ StreamOrder /\ NothingForgotten /\ [TimedNext]_timedVars => NothingForgotten'
  BY StepForgotten DEF NothingForgotten, Clean
<1>4. QED
  BY <1>1, <1>2, <1>3, PTL DEF TimedSpec
=============================================================================
