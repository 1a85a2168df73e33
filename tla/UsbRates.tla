------------------------------ MODULE UsbRates ------------------------------
(***************************************************************************)
(* The rate arithmetic of usb_descr.h and audio_task.c: packet sizes and   *)
(* the feedback value, for the full-speed (UAC1) and the high-speed (UAC2) *)
(* build.                                                                  *)
(***************************************************************************)
EXTENDS Integers, Sequences

CONSTANTS
    FullSpeed,      \* CONFIG_USB_FS is defined
    OutFreqs,       \* sampling frequencies the speaker descriptor offers
    InpFreqs,       \* sampling frequencies the microphone descriptor offers
    OutFrame,       \* AUDIO_OUT_FRAME_SIZE_BYTE * AUDIO_OUT_CHANNEL_NUM
    InpFrame        \* AUDIO_INP_FRAME_SIZE_BYTE * AUDIO_INP_CHANNEL_NUM

ASSUME RatesAssumption ==
    /\ FullSpeed \in BOOLEAN
    /\ OutFreqs \subseteq Nat /\ InpFreqs \subseteq Nat
    /\ \E f \in OutFreqs : \A g \in OutFreqs : g <= f
    /\ \E f \in InpFreqs : \A g \in InpFreqs : g <= f
    /\ \E f \in OutFreqs : \A g \in OutFreqs : f <= g
    /\ \E f \in InpFreqs : \A g \in InpFreqs : f <= g
    /\ OutFrame \in Nat \ {0} /\ InpFrame \in Nat \ {0}

Highest(S) == CHOOSE f \in S : \A g \in S : g <= f
Lowest(S)  == CHOOSE f \in S : \A g \in S : f <= g

EP_INTERVAL == IF FullSpeed THEN 1 ELSE 2

\* Service intervals in a millisecond: one frame, or 8 / (1 << (EP_INTERVAL - 1))
\* high-speed intervals.
PacketsPerMs == IF FullSpeed THEN 1 ELSE 8 \div 2^(EP_INTERVAL - 1)

\* Bytes of one packet at freq: each division truncates as the C expression does.
PacketBytes(freq, frame) == ((freq * frame) \div 1000) \div PacketsPerMs

\* Fault: the buffer is sized for the lowest frequency.
LowestPacketSz == PacketBytes(Lowest(InpFreqs), InpFrame)

AUDIO_OUT_PACKET_SZ == PacketBytes(Highest(OutFreqs), OutFrame)
AUDIO_INP_PACKET_SZ == PacketBytes(Highest(InpFreqs), InpFrame)

\* Fault: the four bits a finer value could use are shifted in once more.
FeedbackShiftedTwice(freq) == (freq \div 1000) * 2^18

\* set_feedback_value: the same expression in both builds; 192 kHz, the highest
\* frequency of either, is far below what the uint32_t holds.
FeedbackRate(freq) == (freq \div 1000) * 2^14

\* The little-endian bytes of a feedback value that go on the wire: 3 in the
\* full-speed build, 4 in the high-speed one.
FeedbackBytes(rate) ==
    [i \in 1..(IF FullSpeed THEN 3 ELSE 4) |-> (rate \div 256^(i - 1)) % 256]
=============================================================================
