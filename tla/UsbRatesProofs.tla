---------------------------- MODULE UsbRatesProofs --------------------------
(***************************************************************************)
(* Packet sizes for every set of sampling frequencies and frame size.      *)
(***************************************************************************)
EXTENDS UsbRates, TLAPS

LEMMA PerMsPositive == PacketsPerMs \in Nat \ {0}
BY RatesAssumption DEF PacketsPerMs, EP_INTERVAL

LEMMA HighestIsMaximum ==
    ASSUME NEW S, \E f \in S : \A g \in S : g <= f
    PROVE  Highest(S) \in S /\ \A g \in S : g <= Highest(S)
BY DEF Highest

LEMMA LowestIsMinimum ==
    ASSUME NEW S, \E f \in S : \A g \in S : f <= g
    PROVE  Lowest(S) \in S
BY DEF Lowest

\* A higher frequency never has the smaller packet, in spite of the two
\* truncating divisions.
LEMMA PacketMonotone ==
    ASSUME NEW f \in Nat, NEW g \in Nat, f <= g, NEW frame \in Nat \ {0}
    PROVE  PacketBytes(f, frame) \in Nat /\ PacketBytes(f, frame) <= PacketBytes(g, frame)
<1> DEFINE a == f * frame
           b == g * frame
           c == a \div 1000
           d == b \div 1000
<1>1. a \in Nat /\ b \in Nat /\ a <= b
  OBVIOUS
<1>2. c \in Nat /\ d \in Nat /\ c <= d
  <2> HIDE DEF a, b
  <2> QED
    BY <1>1
<1>3. c \div PacketsPerMs \in Nat /\ c \div PacketsPerMs <= d \div PacketsPerMs
  <2> HIDE DEF c, d
  <2> QED
    BY <1>2, PerMsPositive
<1>4. QED
  BY <1>3 DEF PacketBytes

\* The halves of read_buffer and write_buffer, sized in usb_descr.h for the
\* highest frequency, hold the packet of every frequency the host may select.
THEOREM PacketsFitHalves ==
    /\ AUDIO_OUT_PACKET_SZ \in Nat
    /\ AUDIO_INP_PACKET_SZ \in Nat
    /\ \A f \in OutFreqs : PacketBytes(f, OutFrame) \in 0..AUDIO_OUT_PACKET_SZ
    /\ \A f \in InpFreqs : PacketBytes(f, InpFrame) \in 0..AUDIO_INP_PACKET_SZ
<1>1. /\ Highest(OutFreqs) \in OutFreqs /\ \A g \in OutFreqs : g <= Highest(OutFreqs)
      /\ Highest(InpFreqs) \in InpFreqs /\ \A g \in InpFreqs : g <= Highest(InpFreqs)
  BY RatesAssumption, HighestIsMaximum
<1>2. /\ OutFreqs \subseteq Nat /\ InpFreqs \subseteq Nat
      /\ OutFrame \in Nat \ {0} /\ InpFrame \in Nat \ {0}
  BY RatesAssumption
<1>3. AUDIO_OUT_PACKET_SZ \in Nat /\ AUDIO_INP_PACKET_SZ \in Nat
  BY <1>1, <1>2, PacketMonotone DEF AUDIO_OUT_PACKET_SZ, AUDIO_INP_PACKET_SZ
<1>4. ASSUME NEW f \in OutFreqs PROVE PacketBytes(f, OutFrame) \in 0..AUDIO_OUT_PACKET_SZ
  <2>1. /\ f \in Nat /\ Highest(OutFreqs) \in Nat /\ f <= Highest(OutFreqs)
    BY <1>1, <1>2
  <2>2. /\ PacketBytes(f, OutFrame) \in Nat
        /\ PacketBytes(f, OutFrame) <= AUDIO_OUT_PACKET_SZ
    BY <2>1, <1>2, PacketMonotone DEF AUDIO_OUT_PACKET_SZ
  <2>3. QED
    BY <2>2, <1>3
<1>5. ASSUME NEW f \in InpFreqs PROVE PacketBytes(f, InpFrame) \in 0..AUDIO_INP_PACKET_SZ
  <2>1. /\ f \in Nat /\ Highest(InpFreqs) \in Nat /\ f <= Highest(InpFreqs)
    BY <1>1, <1>2
  <2>2. /\ PacketBytes(f, InpFrame) \in Nat
        /\ PacketBytes(f, InpFrame) <= AUDIO_INP_PACKET_SZ
    BY <2>1, <1>2, PacketMonotone DEF AUDIO_INP_PACKET_SZ
  <2>3. QED
    BY <2>2, <1>3
<1>6. QED
  BY <1>3, <1>4, <1>5
=============================================================================
