--------------------------- MODULE AudioTaskProofs --------------------------
(***************************************************************************)
(* Theorems about audio_task.c for every set of frequencies, frame size,   *)
(* ring buffer size and length of the stream, however callbacks interrupt  *)
(* the main program.                                                       *)
(***************************************************************************)
EXTENDS AudioTask, UsbRatesProofs, SequenceTheorems

\* Lengths the main program holds in its locals fit the halves they are used on.
LocalsFit ==
    /\ pc = "rxCopy" => len <= AUDIO_OUT_PACKET_SZ
    /\ pc \in {"txRead", "txPad", "txArg", "txFill", "txCount"} => len <= AUDIO_INP_PACKET_SZ

\* The high-speed build has no feedback endpoint, so its loop never serves one.
FeedbackOnlyAtFullSpeed ==
    pc \in {"fbOpen", "fbBusy", "fbLoad", "fbStore"} => FullSpeed

TypeInv == TypeOK /\ LocalsFit /\ FeedbackOnlyAtFullSpeed

LEMMA FunctionIsSeq ==
    ASSUME NEW S, NEW n \in Nat, NEW f \in [1..n -> S]
    PROVE  f \in Seq(S) /\ Len(f) = n
OBVIOUS

LEMMA Element ==
    ASSUME NEW S, NEW s \in Seq(S), NEW i \in Nat \ {0}, i <= Len(s)
    PROVE  s[i] \in S
OBVIOUS

\* A write to the ring buffer keeps it a sequence that fits.
LEMMA WriteFits ==
    ASSUME NEW S, NEW q \in Seq(S), Len(q) <= Capacity, NEW s \in Seq(S)
    PROVE  /\ Accepted(q, s) \in 0..Len(s)
           /\ AfterWrite(q, s) \in Seq(S)
           /\ Len(AfterWrite(q, s)) <= Capacity
<1>1. Len(q) \in Nat /\ Len(s) \in Nat
  OBVIOUS
<1>2. /\ Accepted(q, s) \in 0..Len(s)
      /\ Len(q) + Accepted(q, s) <= Capacity
  BY <1>1, CapacityAssumption DEF Accepted
<1>3. /\ SubSeq(s, 1, Accepted(q, s)) \in Seq(S)
      /\ Len(SubSeq(s, 1, Accepted(q, s))) = Accepted(q, s)
  BY <1>1, <1>2, SubSeqProperties
<1>4. /\ AfterWrite(q, s) \in Seq(S)
      /\ Len(AfterWrite(q, s)) = Len(q) + Accepted(q, s)
  BY <1>3, ConcatProperties DEF AfterWrite
<1>5. QED
  BY <1>2, <1>4

\* A read of n bytes yields at most n and keeps the rest.
LEMMA ReadFits ==
    ASSUME NEW S, NEW q \in Seq(S), Len(q) <= Capacity, NEW n \in Nat
    PROVE  /\ BytesRead(q, n) \in Seq(S)
           /\ Len(BytesRead(q, n)) \in 0..n
           /\ AfterRead(q, n) \in Seq(S)
           /\ Len(AfterRead(q, n)) <= Capacity
<1>1. Len(q) \in Nat
  OBVIOUS
<1>2. Taken(q, n) \in 0..Len(q) /\ Taken(q, n) <= n
  BY <1>1 DEF Taken
<1>3. /\ BytesRead(q, n) \in Seq(S)
      /\ Len(BytesRead(q, n)) = Taken(q, n)
  BY <1>1, <1>2, SubSeqProperties DEF BytesRead
<1>4. /\ AfterRead(q, n) \in Seq(S)
      /\ Len(AfterRead(q, n)) = Len(q) - Taken(q, n)
  BY <1>1, <1>2, SubSeqProperties DEF AfterRead
<1>5. QED
  BY <1>1, <1>2, <1>3, <1>4, CapacityAssumption

\* Replacing a half of a sample buffer by another of its size.
LEMMA HalfReplaced ==
    ASSUME NEW size \in Nat, NEW m \in Halves(size), NEW h \in 0..1
    PROVE  /\ DOMAIN m[h] = 1..size
           /\ \A i \in 1..size : m[h][i] \in 0..MaxPos
           /\ \A f \in [1..size -> 0..MaxPos] : [m EXCEPT ![h] = f] \in Halves(size)
BY DEF Halves

\* The memset writes zeroes and keeps what it does not reach.
LEMMA SilencedTyped ==
    ASSUME NEW size \in Nat, NEW m \in Halves(size), NEW h, NEW at, NEW n
    PROVE  Silenced(m, h, at, n, size) \in Halves(size)
BY TaskAssumption DEF Silenced, Halves

LEMMA ResetTyped ==
    ASSUME NEW size \in Nat, NEW bf \in DblBuffers(size)
    PROVE  /\ dbl_buffer_reset(bf) \in DblBuffers(size)
           /\ dbl_buffer_reset(bf).buffer_pos = 0
           /\ dbl_buffer_reset(bf).halfsize = bf.halfsize
BY DEF dbl_buffer_reset, DblBuffers

LEMMA FlipTyped ==
    ASSUME NEW size \in Nat, NEW bf \in DblBuffers(size)
    PROVE  /\ Flip(bf) \in DblBuffers(size)
           /\ Flip(bf).buffer_pos = 1 - bf.buffer_pos
           /\ Flip(bf).halfsize = bf.halfsize
           /\ Flip(bf).count = bf.count
BY DEF Flip, DblBuffers

LEMMA InitTypeInv == Init => TypeInv
<1> SUFFICES ASSUME Init PROVE TypeInv
  OBVIOUS
<1>1. cur_out_freq \in OutFreqs /\ cur_inp_freq \in InpFreqs
  BY RatesAssumption, HighestIsMaximum, LowestIsMinimum DEF Init
<1>2. /\ rxMem \in Halves(AUDIO_OUT_PACKET_SZ)
      /\ txMem \in Halves(AUDIO_INP_PACKET_SZ)
  BY TaskAssumption DEF Init, Halves
<1>3. out_rb \in Seq(0..MaxPos) /\ Len(out_rb) <= Capacity
  BY CapacityAssumption DEF Init
<1>4. QED
  <2>1. /\ read_bf \in DblBuffers(AUDIO_OUT_PACKET_SZ)
        /\ write_bf \in DblBuffers(AUDIO_INP_PACKET_SZ)
    BY PacketsFitHalves DEF Init, DblBuffers
  <2>2. /\ rxArmed \in Transfers(AUDIO_OUT_PACKET_SZ)
        /\ txArmed \in Transfers(AUDIO_INP_PACKET_SZ)
    BY DEF Init, Transfers
  <2>3. /\ sent \in 0..MaxPos /\ closes \in 0..MaxCloses
        /\ half \in 0..1 /\ len \in Nat /\ arg \in 0..AUDIO_INP_PACKET_SZ
    BY TaskAssumption, PacketsFitHalves DEF Init
  <2>4. TypeOK
    BY <1>1, <1>2, <1>3, <2>1, <2>2, <2>3 DEF Init, TypeOK
  <2>5. LocalsFit /\ FeedbackOnlyAtFullSpeed
    BY DEF Init, LocalsFit, FeedbackOnlyAtFullSpeed
  <2>6. QED
    BY <2>4, <2>5 DEF TypeInv

\* Callbacks that move no data.
LEMMA ControlType ==
    ASSUME TypeInv,
           \/ Configure \/ BusReset \/ OpenSpeaker \/ OpenMic
           \/ \E intf \in Interfaces : Close(intf)
           \/ FbDone
           \/ \E freq \in OutFreqs : SetOutFreq(freq)
           \/ \E freq \in InpFreqs : SetInpFreq(freq)
    PROVE  TypeInv'
<1> USE DEF TypeInv, TypeOK, LocalsFit, FeedbackOnlyAtFullSpeed
<1>1. CASE Configure
  BY <1>1 DEF Configure, rates, bufs, mem, main, host
<1>2. CASE OpenSpeaker
  <2>1. /\ read_bf' \in DblBuffers(AUDIO_OUT_PACKET_SZ)
        /\ rxArmed' \in Transfers(AUDIO_OUT_PACKET_SZ)
    BY <1>2, PacketsFitHalves, ResetTyped DEF OpenSpeaker, Transfers, DblBuffers
  <2>2. QED
    BY <1>2, <2>1 DEF OpenSpeaker, MayOpen, rates, mem, main, host, Flags
<1>3. CASE OpenMic
  <2>1. write_bf' \in DblBuffers(AUDIO_INP_PACKET_SZ)
    BY <1>3, PacketsFitHalves, ResetTyped DEF OpenMic
  <2>2. QED
    BY <1>3, <2>1 DEF OpenMic, MayOpen, rates, mem, main, host, Flags
<1>4. ASSUME NEW intf \in Interfaces, Close(intf) PROVE TypeInv'
  BY <1>4, TaskAssumption DEF Close, rates, bufs, mem, main, Transfers, Flags
<1>5. CASE FbDone
  BY <1>5 DEF FbDone, usb, bufs, mem, main, host
<1>6. CASE BusReset
  <2>1. /\ rxArmed' \in Transfers(AUDIO_OUT_PACKET_SZ)
        /\ txArmed' \in Transfers(AUDIO_INP_PACKET_SZ)
        /\ streams' \subseteq Interfaces /\ configured' \in BOOLEAN
    BY <1>6 DEF BusReset, Transfers
  <2>2. closes' \in 0..MaxCloses
    BY <1>6, TaskAssumption DEF BusReset
  <2>3. UNCHANGED <<open_flag, ep_busy_flag, rates, bufs, mem, main, sent>>
    BY <1>6 DEF BusReset
  <2>4. QED
    BY <2>1, <2>2, <2>3 DEF rates, bufs, mem, main
<1>7. ASSUME NEW freq \in OutFreqs, SetOutFreq(freq) PROVE TypeInv'
  BY <1>7 DEF SetOutFreq, usb, bufs, mem, main, host
<1>8. ASSUME NEW freq \in InpFreqs, SetInpFreq(freq) PROVE TypeInv'
  BY <1>8 DEF SetInpFreq, usb, bufs, mem, main, host
<1>9. QED
  BY <1>1, <1>2, <1>3, <1>4, <1>5, <1>6, <1>7, <1>8

LEMMA OutDoneType ==
    ASSUME TypeInv, NEW n \in OutLens, OutDone(n)
    PROVE  TypeInv'
<1>1. n \in Nat /\ n <= AUDIO_OUT_PACKET_SZ /\ rxArmed.half \in 0..1
  BY PacketsFitHalves DEF OutLens, OutDone, TypeInv, TypeOK, Transfers, None
<1>2. sent + n \in 0..MaxPos /\ sent \in Nat
  BY <1>1, TaskAssumption DEF OutDone, TypeInv, TypeOK
<1>3. rxMem' \in Halves(AUDIO_OUT_PACKET_SZ)
  <2> DEFINE h == rxArmed.half
             f == [i \in 1..AUDIO_OUT_PACKET_SZ |-> IF i <= n THEN sent + i ELSE rxMem[h][i]]
  <2>1. /\ DOMAIN rxMem[h] = 1..AUDIO_OUT_PACKET_SZ
        /\ \A i \in 1..AUDIO_OUT_PACKET_SZ : rxMem[h][i] \in 0..MaxPos
        /\ \A g \in [1..AUDIO_OUT_PACKET_SZ -> 0..MaxPos] :
              [rxMem EXCEPT ![h] = g] \in Halves(AUDIO_OUT_PACKET_SZ)
    BY <1>1, HalfReplaced, PacketsFitHalves DEF TypeInv, TypeOK
  <2>2. f \in [1..AUDIO_OUT_PACKET_SZ -> 0..MaxPos]
    BY <2>1, <1>1, <1>2, TaskAssumption, PacketsFitHalves
  <2>3. rxMem' = [rxMem EXCEPT ![h] = f]
    BY <2>1 DEF OutDone
  <2>4. QED
    BY <2>1, <2>2, <2>3
<1>4. read_bf' \in DblBuffers(AUDIO_OUT_PACKET_SZ)
  <2>1. n \in 0..AUDIO_OUT_PACKET_SZ
    BY <1>1, PacketsFitHalves
  <2>2. read_bf' = [Flip(read_bf) EXCEPT !.count = n]
    BY DEF OutDone
  <2>3. QED
    BY <2>1, <2>2, FlipTyped, PacketsFitHalves DEF TypeInv, TypeOK, DblBuffers
<1>5. rxArmed' \in Transfers(AUDIO_OUT_PACKET_SZ)
  BY <1>4, PacketsFitHalves DEF OutDone, TypeInv, TypeOK, Transfers, DblBuffers
<1>6. QED
  BY <1>2, <1>3, <1>4, <1>5
  DEF OutDone, TypeInv, TypeOK, LocalsFit, FeedbackOnlyAtFullSpeed, rates, main, Flags

LEMMA InDoneType ==
    ASSUME TypeInv, InDone
    PROVE  TypeInv'
<1>1. write_bf' \in DblBuffers(AUDIO_INP_PACKET_SZ)
  BY PacketsFitHalves, FlipTyped DEF InDone, TypeInv, TypeOK
<1>2. txArmed' \in Transfers(AUDIO_INP_PACKET_SZ)
  BY <1>1, PacketsFitHalves DEF InDone, TypeInv, TypeOK, Transfers, DblBuffers
<1>3. QED
  BY <1>1, <1>2
     DEF InDone, TypeInv, TypeOK, LocalsFit, FeedbackOnlyAtFullSpeed, rates, mem, main,
         host, Flags

\* Steps of the main program that move no data.
LEMMA BranchType ==
    ASSUME TypeInv,
           \/ WaitConfigured \/ RingInit \/ InitWriteBf \/ InitReadBf
           \/ TestOpen \/ TestRead \/ TestWrite \/ TestFb
    PROVE  TypeInv'
<1> USE DEF TypeInv, TypeOK, LocalsFit, FeedbackOnlyAtFullSpeed, Goto
<1>1. ASSUME UNCHANGED <<usb, open_flag, ep_busy_flag, rates, bufs, mem, half, len, arg, reg,
                         host>>,
             pc' \notin {"rxCopy", "txRead", "txPad", "txArg", "txFill", "txCount"},
             FeedbackOnlyAtFullSpeed'
      PROVE  TypeInv'
  BY <1>1 DEF usb, rates, bufs, mem, host
<1>2. CASE WaitConfigured \/ TestOpen
  BY <1>1, <1>2 DEF WaitConfigured, TestOpen, Branch
<1>3. CASE TestRead \/ TestFb
  BY <1>1, <1>3 DEF TestRead, TestFb, Branch
<1>4. CASE TestWrite
  BY <1>1, <1>4 DEF TestWrite, AfterMic, Branch
<1>5. CASE RingInit
  BY <1>5, CapacityAssumption DEF RingInit, usb, rates, bufs, host
<1>6. CASE InitWriteBf
  BY <1>6, PacketsFitHalves DEF InitWriteBf, usb, rates, mem, host, DblBuffers
<1>7. CASE InitReadBf
  BY <1>7, PacketsFitHalves DEF InitReadBf, usb, rates, mem, host, DblBuffers
<1>8. QED
  BY <1>2, <1>3, <1>4, <1>5, <1>6, <1>7

\* The load and the store of ep_busy_flag.
LEMMA ClaimType ==
    ASSUME TypeInv, Claim
    PROVE  TypeInv'
<1>1. /\ pc' \notin {"rxCopy", "txRead", "txPad", "txArg", "txFill", "txCount"}
      /\ FeedbackOnlyAtFullSpeed'
  BY DEF Claim, Load, Store, Goto, AfterMic, TypeInv, FeedbackOnlyAtFullSpeed
<1>2. ep_busy_flag \subseteq Flags /\ reg \subseteq Flags
  BY DEF TypeInv, TypeOK
<1>3. ep_busy_flag' \subseteq Flags /\ reg' \subseteq Flags
  <2>1. ASSUME NEW from, NEW to, Load(from, to)
        PROVE  ep_busy_flag' \subseteq Flags /\ reg' \subseteq Flags
    BY <2>1, <1>2 DEF Load
  <2>2. ASSUME NEW from, NEW to, NEW flag \in Flags, Store(from, flag, to)
        PROVE  ep_busy_flag' \subseteq Flags /\ reg' \subseteq Flags
    BY <2>2, <1>2 DEF Store
  <2>3. "RX" \in Flags /\ "TX" \in Flags
    BY DEF Flags, Speaker, Mic
  <2>4. pc = "fbStore" => "FB" \in Flags
    BY DEF TypeInv, FeedbackOnlyAtFullSpeed, Flags, Speaker
  <2>5. CASE Store("fbStore", "FB", "top")
    BY <2>2, <2>4, <2>5 DEF Store, Goto
  <2>6. QED
    BY <2>1, <2>2, <2>3, <2>5 DEF Claim
<1>4. UNCHANGED <<usb, open_flag, rates, bufs, mem, half, len, arg, host>>
  BY DEF Claim, Load, Store
<1>5. QED
  BY <1>1, <1>3, <1>4 DEF TypeInv, TypeOK, LocalsFit, usb, rates, bufs, mem, host

\* read_samples: what it copies is what the callback counted.
LEMMA ReadType ==
    ASSUME TypeInv, RxPos \/ RxLen \/ RxCopy
    PROVE  TypeInv'
<1> USE DEF TypeInv, TypeOK, LocalsFit, FeedbackOnlyAtFullSpeed, Goto
<1>1. CASE RxPos
  BY <1>1 DEF RxPos, Other, DblBuffers, usb, rates, bufs, mem, host
<1>2. CASE RxLen
  BY <1>2, PacketsFitHalves DEF RxLen, DblBuffers, usb, rates, bufs, mem, host
<1>3. CASE RxCopy
  <2>1. len \in 0..AUDIO_OUT_PACKET_SZ /\ half \in 0..1
    BY <1>3, PacketsFitHalves DEF RxCopy
  <2>2. RxData \in [1..len -> 0..MaxPos]
    BY <2>1, PacketsFitHalves DEF RxData, Halves
  <2>3. RxData \in Seq(0..MaxPos)
    <3>1. len \in Nat
      BY <2>1, PacketsFitHalves
    <3>2. QED
      BY <2>2, <3>1, FunctionIsSeq
  <2>4. out_rb' \in Seq(0..MaxPos) /\ Len(out_rb') <= Capacity
    BY <1>3, <2>3, WriteFits DEF RxCopy
  <2>5. QED
    BY <1>3, <2>4 DEF RxCopy, usb, rates, bufs, host
<1>4. QED
  BY <1>1, <1>2, <1>3

\* write_samples: what it fetches and what it pads stays inside the half.
LEMMA WriteType ==
    ASSUME TypeInv, TxPos \/ TxNeed \/ TxRead \/ TxPad
    PROVE  TypeInv'
<1> USE DEF TypeInv, TypeOK, LocalsFit, FeedbackOnlyAtFullSpeed, Goto
<1>1. CASE TxPos
  BY <1>1 DEF TxPos, Other, DblBuffers, usb, rates, bufs, mem, host
<1>2. CASE TxNeed
  BY <1>2, PacketsFitHalves DEF TxNeed, usb, rates, bufs, mem, host
<1>3. CASE TxRead
  <2> DEFINE data == BytesRead(out_rb, len)
  <2>1. len \in 0..AUDIO_INP_PACKET_SZ /\ half \in 0..1
    BY <1>3, PacketsFitHalves DEF TxRead
  <2>2. /\ data \in Seq(0..MaxPos) /\ Len(data) \in 0..len
        /\ AfterRead(out_rb, len) \in Seq(0..MaxPos)
        /\ Len(AfterRead(out_rb, len)) <= Capacity
    BY <2>1, ReadFits
  <2>3. txMem' \in Halves(AUDIO_INP_PACKET_SZ)
    <3> DEFINE f == [i \in 1..AUDIO_INP_PACKET_SZ |->
                        IF i <= Len(data) THEN data[i] ELSE txMem[half][i]]
    <3>1. /\ DOMAIN txMem[half] = 1..AUDIO_INP_PACKET_SZ
          /\ \A i \in 1..AUDIO_INP_PACKET_SZ : txMem[half][i] \in 0..MaxPos
          /\ \A g \in [1..AUDIO_INP_PACKET_SZ -> 0..MaxPos] :
                [txMem EXCEPT ![half] = g] \in Halves(AUDIO_INP_PACKET_SZ)
      BY <2>1, HalfReplaced, PacketsFitHalves
    <3>2. f \in [1..AUDIO_INP_PACKET_SZ -> 0..MaxPos]
      <4>1. ASSUME NEW i \in 1..AUDIO_INP_PACKET_SZ
            PROVE  (IF i <= Len(data) THEN data[i] ELSE txMem[half][i]) \in 0..MaxPos
        <5> HIDE DEF data, TypeInv, TypeOK
        <5>1. data \in Seq(0..MaxPos)
          BY <2>2
        <5>2. ASSUME i <= Len(data) PROVE data[i] \in 0..MaxPos
          <6>1. i \in Nat \ {0}
            BY PacketsFitHalves
          <6>2. QED
            BY <5>1, <5>2, <6>1, Element
        <5>3. QED
          BY <5>2, <3>1
      <4>2. QED
        BY <4>1
    <3>3. txMem' = [txMem EXCEPT ![half] = f]
      BY <3>1, <1>3 DEF TxRead
    <3>4. QED
      BY <3>1, <3>2, <3>3
  <2>4. write_bf' \in DblBuffers(AUDIO_INP_PACKET_SZ)
    <3>1. /\ write_bf' = [write_bf EXCEPT !.count = Len(data)]
          /\ write_bf \in DblBuffers(AUDIO_INP_PACKET_SZ)
      BY <1>3 DEF TxRead
    <3>2. Len(data) \in 0..AUDIO_INP_PACKET_SZ
      BY <2>1, <2>2, PacketsFitHalves
    <3> HIDE DEF data, TypeInv, TypeOK
    <3>3. QED
      BY <3>1, <3>2 DEF DblBuffers
  <2>5. QED
    BY <1>3, <2>1, <2>2, <2>3, <2>4 DEF TxRead, usb, rates, host
<1>4. CASE TxShort
  BY <1>4 DEF TxShort, usb, rates, bufs, mem, host
<1>5. CASE TxArg
  BY <1>5, PacketsFitHalves DEF TxArg, DblBuffers, usb, rates, bufs, mem, host
<1>6. CASE TxFill
  <2>1. len \in Nat /\ half \in 0..1 /\ arg \in Nat /\ write_bf.count \in Nat
    BY PacketsFitHalves DEF DblBuffers
  <2>2. txMem' \in Halves(AUDIO_INP_PACKET_SZ)
    <3>1. txMem \in Halves(AUDIO_INP_PACKET_SZ)
      OBVIOUS
    <3>2. /\ Silenced(txMem, half, arg, len - write_bf.count, AUDIO_INP_PACKET_SZ)
                \in Halves(AUDIO_INP_PACKET_SZ)
          /\ Silenced(txMem, half, write_bf.count, len - arg, AUDIO_INP_PACKET_SZ)
                \in Halves(AUDIO_INP_PACKET_SZ)
      BY <3>1, SilencedTyped, PacketsFitHalves
    <3>3. QED
      BY <1>6, <3>2 DEF TxFill
  <2>3. QED
    BY <1>6, <2>1, <2>2, PacketsFitHalves DEF TxFill, usb, rates, bufs, host
<1>7. CASE TxCount
  <2>1. len \in 0..AUDIO_INP_PACKET_SZ
    BY <1>7, PacketsFitHalves DEF TxCount
  <2>2. write_bf' \in DblBuffers(AUDIO_INP_PACKET_SZ)
    BY <1>7, <2>1, PacketsFitHalves DEF TxCount, DblBuffers
  <2>3. QED
    BY <1>7, <2>2 DEF TxCount, usb, rates, mem, host
<1>8. QED
  BY <1>1, <1>2, <1>3, <1>4, <1>5, <1>6, <1>7 DEF TxPad

LEMMA StepTypeInv == TypeInv /\ [Next]_vars => TypeInv'
<1> SUFFICES ASSUME TypeInv, [Next]_vars PROVE TypeInv'
  OBVIOUS
<1>1. CASE UNCHANGED vars
  BY <1>1 DEF TypeInv, TypeOK, LocalsFit, FeedbackOnlyAtFullSpeed,
              vars, usb, rates, bufs, mem, main, host
<1>2. CASE Main
  BY <1>2, BranchType, ClaimType, ReadType, WriteType DEF Main
<1>3. CASE Callback
  BY <1>3, ControlType, OutDoneType, InDoneType DEF Callback
<1>4. QED
  BY <1>1, <1>2, <1>3 DEF Next

\* The flag bytes, the double buffers, both sample memories, the ring buffer and
\* the locals of the loop keep their types however callbacks interrupt it, also
\* when the host opens an interface before the buffers are initialised.
THEOREM TaskTypeCorrect == Spec => []TypeOK
<1>1. Spec => []TypeInv
  BY InitTypeInv, StepTypeInv, PTL DEF Spec
<1>2. TypeInv => TypeOK
  BY DEF TypeInv
<1>3. QED
  BY <1>1, <1>2, PTL
-----------------------------------------------------------------------------
(***************************************************************************)
(* Who uses which half, when the host waits for audio_test.                *)
(***************************************************************************)

\* Transfers exist only on interfaces that stream, nothing streams before the
\* buffers are initialised, and the speaker's buffer is initialised by then.
OwnInv ==
    /\ pc \in Boot => streams = {}
    /\ pc \notin Boot \/ pc \in {"rdPos", "rdCount"}
          => read_bf.halfsize = AUDIO_OUT_PACKET_SZ
    /\ rxArmed # None => 1 \in streams
    /\ txArmed # None => 2 \in streams
    /\ ArmedIsCurrent
    /\ ReadHasRoom

LEMMA InitOwnInv == Init => OwnInv
BY DEF Init, OwnInv, Boot, ArmedIsCurrent, ReadHasRoom

\* The loop never touches a transfer, and buffer_pos only before anything streams.
LEMMA MainOwn ==
    ASSUME TypeInv, OwnInv, Main
    PROVE  OwnInv'
<1> USE DEF OwnInv, ArmedIsCurrent, ReadHasRoom, Goto, Boot
<1>1. CASE WaitConfigured \/ RingInit
  BY <1>1 DEF WaitConfigured, RingInit, Branch, usb, bufs
<1>2. CASE InitWriteBf
  BY <1>2 DEF InitWriteBf, usb
<1>3. CASE InitReadBf
  BY <1>3 DEF InitReadBf, usb, TypeInv, TypeOK, DblBuffers
<1>4. CASE TestOpen \/ TestRead \/ TestWrite \/ TestFb
  BY <1>4 DEF TestOpen, TestRead, TestWrite, TestFb, AfterMic, Branch, usb, bufs
<1>5. CASE RxPos \/ RxLen \/ RxCopy \/ TxPos \/ TxNeed
  BY <1>5 DEF RxPos, RxLen, RxCopy, TxPos, TxNeed, usb, bufs
<1>6. CASE TxRead \/ TxPad
  BY <1>6 DEF TxRead, TxPad, TxShort, TxArg, TxFill, TxCount, usb, bufs,
              TypeInv, TypeOK, DblBuffers
<1>7. CASE Claim
  BY <1>7 DEF Claim, Load, Store, AfterMic, usb, bufs
<1>8. QED
  BY <1>1, <1>2, <1>3, <1>4, <1>5, <1>6, <1>7 DEF Main

\* Every callback that changes buffer_pos starts the transfer of the new half.
LEMMA CallbackOwn ==
    ASSUME ~EarlyOpen, TypeInv, OwnInv, Callback
    PROVE  OwnInv'
<1> USE DEF OwnInv, ArmedIsCurrent, ReadHasRoom
<1>1. CASE Configure
  BY <1>1 DEF Configure, bufs, main
<1>2. CASE OpenSpeaker
  <2>1. /\ read_bf'.buffer_pos = 0
        /\ read_bf'.halfsize = read_bf.halfsize
    BY <1>2, ResetTyped, PacketsFitHalves DEF OpenSpeaker, TypeInv, TypeOK
  <2>2. pc \notin Boot
    BY <1>2 DEF OpenSpeaker, MayOpen
  <2>3. QED
    BY <1>2, <2>1, <2>2 DEF OpenSpeaker, main
<1>3. CASE OpenMic
  <2>1. pc \notin Boot /\ txArmed = None
    BY <1>3 DEF OpenMic, MayOpen
  <2>2. QED
    BY <1>3, <2>1 DEF OpenMic, main
<1>4. ASSUME NEW intf \in Interfaces, Close(intf) PROVE OwnInv'
  BY <1>4 DEF Close, bufs, main
<1>5. ASSUME NEW n \in OutLens, OutDone(n) PROVE OwnInv'
  <2>1. read_bf'.halfsize = read_bf.halfsize
    BY <1>5, FlipTyped, PacketsFitHalves DEF OutDone, TypeInv, TypeOK, DblBuffers
  <2>2. pc \notin Boot
    BY <1>5 DEF OutDone
  <2>3. QED
    BY <1>5, <2>1, <2>2 DEF OutDone, main
<1>6. CASE InDone
  BY <1>6 DEF InDone, main
<1>7. CASE FbDone
  BY <1>7 DEF FbDone, usb, bufs, main
<1>8. CASE \/ \E freq \in OutFreqs : SetOutFreq(freq)
           \/ \E freq \in InpFreqs : SetInpFreq(freq)
  BY <1>8 DEF SetOutFreq, SetInpFreq, usb, bufs, main
<1>9. CASE BusReset
  BY <1>9 DEF BusReset, bufs, main
<1>10. QED
  BY <1>1, <1>2, <1>3, <1>4, <1>5, <1>6, <1>7, <1>8, <1>9 DEF Callback

LEMMA StepOwnInv ==
    ~EarlyOpen => (TypeInv /\ OwnInv /\ [Next]_vars => OwnInv')
<1> SUFFICES ASSUME ~EarlyOpen, TypeInv, OwnInv, [Next]_vars PROVE OwnInv'
  OBVIOUS
<1>1. CASE UNCHANGED vars
  BY <1>1 DEF OwnInv, ArmedIsCurrent, ReadHasRoom, vars, usb, bufs, main
<1>2. QED
  BY <1>1, MainOwn, CallbackOwn DEF Next

LEMMA OwnCorrect == ~EarlyOpen => (Spec => [](TypeInv /\ OwnInv))
<1> SUFFICES ASSUME ~EarlyOpen PROVE Spec => [](TypeInv /\ OwnInv)
  OBVIOUS
<1>1. Init => TypeInv /\ OwnInv
  BY InitTypeInv, InitOwnInv
<1>2. TypeInv /\ OwnInv /\ [Next]_vars => (TypeInv /\ OwnInv)'
  BY StepTypeInv, StepOwnInv
<1>3. QED
  BY <1>1, <1>2, PTL DEF Spec

\* When the host opens interfaces only after the buffers are initialised, a
\* started transfer always uses the half buffer_pos names, however opens, closes,
\* packets and the loop interleave.
THEOREM ArmedCorrect == ~EarlyOpen => (Spec => []ArmedIsCurrent)
<1>1. TypeInv /\ OwnInv => ArmedIsCurrent
  BY DEF OwnInv
<1>2. QED
  BY <1>1, OwnCorrect, PTL

\* Under the same condition no length in flight exceeds the half it is used on,
\* whatever frequencies the host selects and when.
THEOREM TransfersCorrect == ~EarlyOpen => (Spec => []TransfersFit)
<1>1. TypeInv /\ OwnInv => TransfersFit
  BY PacketsFitHalves DEF TypeInv, TypeOK, LocalsFit, OwnInv, TransfersFit, DblBuffers
<1>2. QED
  BY <1>1, OwnCorrect, PTL
=============================================================================
