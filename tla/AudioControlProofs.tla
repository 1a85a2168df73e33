-------------------------- MODULE AudioControlProofs -------------------------
(***************************************************************************)
(* Theorems about the descriptors and control requests of both builds, for *)
(* every list and range of frequencies, number of channels and sample      *)
(* size.                                                                   *)
(***************************************************************************)
EXTENDS AudioControl, TLAPS

USE DEF AUDIO_OUT_EP, AUDIO_INP_EP, AUDIO_OFB_EP,
        AC_CLOCK_OUT_SOURCE_ID, AC_INP_TERMINAL_OUT_ID, AC_FEATURE_OUT_UNIT_ID,
        AC_OUT_TERMINAL_OUT_ID, AC_CLOCK_INP_SOURCE_ID, AC_INP_TERMINAL_INP_ID,
        AC_FEATURE_INP_UNIT_ID, AC_OUT_TERMINAL_INP_ID

\* What a piece of the descriptor says, whatever its length.
Says(p) ==
    /\ p.kind = "stream" => /\ p.intf \in 1..2
                            /\ p.link = IF p.intf = 1 THEN 2 ELSE 8
                            /\ p.eps[1] = IF p.intf = 1 THEN 2 ELSE 129
                            /\ fullSpeed => p.freqs = Freqs[p.intf]
                            /\ \A k \in DOMAIN p.eps : p.eps[k] \in Endpoints
                            /\ p.max = IF fullSpeed \/ p.intf = 1 THEN PacketSz(p.intf)
                                       ELSE PacketSz(2) + Frame(2)
    /\ p.kind = "terminal" => /\ p.id \in {2, 4, 6, 8}
                              /\ ~fullSpeed => p.clock = IF p.id \in {2, 4} THEN 1 ELSE 5
                              /\ p.id = 2 => p.source = 0
                              /\ p.id = 8 => p.source = 7
    /\ p.kind = "feature" => p.id \in {3, 7} /\ p.source = p.id - 1

LEMMA SaysV1 ==
    ASSUME fullSpeed = TRUE, NEW k \in 1..10
    PROVE  Says(ConfigurationV1[k])
<1>1. CASE k = 1
  BY <1>1 DEF ConfigurationV1, Says, Control, Endpoints
<1>2. CASE k = 2
  BY <1>2 DEF ConfigurationV1, Says, Control, Endpoints
<1>3. CASE k = 3
  BY <1>3 DEF ConfigurationV1, Says, Input, Endpoints
<1>4. CASE k = 4
  BY <1>4 DEF ConfigurationV1, Says, Feature, Endpoints
<1>5. CASE k = 5
  BY <1>5 DEF ConfigurationV1, Says, Output, Endpoints
<1>6. CASE k = 6
  BY <1>6 DEF ConfigurationV1, Says, Input, Endpoints
<1>7. CASE k = 7
  BY <1>7 DEF ConfigurationV1, Says, Feature, Endpoints
<1>8. CASE k = 8
  BY <1>8 DEF ConfigurationV1, Says, Output, Endpoints
<1>9. CASE k = 9
  BY <1>9 DEF ConfigurationV1, Says, Stream, Endpoints
<1>10. CASE k = 10
  BY <1>10 DEF ConfigurationV1, Says, Stream, Endpoints
<1>11. QED
  BY <1>1, <1>2, <1>3, <1>4, <1>5, <1>6, <1>7, <1>8, <1>9, <1>10

LEMMA SaysV2 ==
    ASSUME fullSpeed = FALSE, NEW k \in 1..12
    PROVE  Says(ConfigurationV2[k])
<1>1. CASE k = 1
  BY <1>1 DEF ConfigurationV2, Says, Control, Endpoints
<1>2. CASE k = 2
  BY <1>2 DEF ConfigurationV2, Says, Control, Endpoints
<1>3. CASE k = 3
  BY <1>3 DEF ConfigurationV2, Says, Clock, Endpoints
<1>4. CASE k = 4
  BY <1>4 DEF ConfigurationV2, Says, Input, Endpoints
<1>5. CASE k = 5
  BY <1>5 DEF ConfigurationV2, Says, Feature, Endpoints
<1>6. CASE k = 6
  BY <1>6 DEF ConfigurationV2, Says, Output, Endpoints
<1>7. CASE k = 7
  BY <1>7 DEF ConfigurationV2, Says, Clock, Endpoints
<1>8. CASE k = 8
  BY <1>8 DEF ConfigurationV2, Says, Input, Endpoints
<1>9. CASE k = 9
  BY <1>9 DEF ConfigurationV2, Says, Feature, Endpoints
<1>10. CASE k = 10
  BY <1>10 DEF ConfigurationV2, Says, Output, Endpoints
<1>11. CASE k = 11
  BY <1>11 DEF ConfigurationV2, Says, Stream, Endpoints
<1>12. CASE k = 12
  BY <1>12 DEF ConfigurationV2, Says, Stream, Endpoints
<1>13. QED
  BY <1>1, <1>2, <1>3, <1>4, <1>5, <1>6, <1>7, <1>8, <1>9, <1>10, <1>11, <1>12

LEMMA ConfigurationLen == Len(Configuration) = IF fullSpeed THEN 10 ELSE 12
BY DEF Configuration, ConfigurationV1, ConfigurationV2

LEMMA KnownSays ==
    ASSUME fullSpeed \in BOOLEAN, NEW p \in Known
    PROVE  Says(p)
<1>1. PICK k \in DOMAIN audio_descriptor : p = audio_descriptor[k]
  BY DEF Known
<1>2. CASE k \in 1..Len(Configuration)
  <2>1. p = Configuration[k]
    BY <1>1, <1>2 DEF audio_descriptor
  <2>2. QED
    BY <1>2, <2>1, ConfigurationLen, SaysV1, SaysV2 DEF Configuration
<1>3. CASE k \notin 1..Len(Configuration)
  <2>1. PICK j \in DOMAIN Strings : p = Strings[j]
    BY <1>1, <1>3 DEF audio_descriptor
  <2>2. p.kind \in {"string", "qualifier"}
    BY <2>1 DEF Strings, Control
  <2>3. QED
    BY <2>2 DEF Says
<1>4. QED
  BY <1>2, <1>3
-----------------------------------------------------------------------------
(***************************************************************************)
(* Requests reach the right variable.                                      *)
(***************************************************************************)

LEMMA AboutSays ==
    ASSUME fullSpeed \in BOOLEAN, NEW i \in 1..2, NEW s \in About(i)
    PROVE  /\ s \in Known /\ s.intf = i /\ s.link = IF i = 1 THEN 2 ELSE 8
           /\ s.eps[1] = IF i = 1 THEN 2 ELSE 129
           /\ fullSpeed => s.freqs = Freqs[i]
           /\ \A k \in DOMAIN s.eps : s.eps[k] \in Endpoints
           /\ s.max = IF fullSpeed \/ i = 1 THEN PacketSz(i) ELSE PacketSz(2) + Frame(2)
BY KnownSays DEF About, Says

LEMMA TerminalSays ==
    ASSUME fullSpeed \in BOOLEAN, NEW i \in 1..2, NEW t \in Terminal(i)
    PROVE  /\ t \in Known /\ t.id = IF i = 1 THEN 2 ELSE 8
           /\ ~fullSpeed => t.clock = IF i = 1 THEN 1 ELSE 5
<1>1. t \in Known /\ t.kind = "terminal" /\ t.id = IF i = 1 THEN 2 ELSE 8
  BY AboutSays DEF Terminal
<1>2. QED
  BY <1>1, KnownSays DEF Says

\* Setting the frequency of interface i takes the case of interface i.
LEMMA CaseOf ==
    ASSUME fullSpeed \in BOOLEAN, NEW i \in 1..2, SetFreq(i)
    PROVE  \E freq \in offered[i] :
              /\ chosen' = [chosen EXCEPT ![i] = freq]
              /\ i = 1 => SetOut(freq)
              /\ i = 2 => SetInp(freq)
              /\ ~stalled => ~stalled'
<1>1. PICK freq \in offered[i] :
         /\ \/ fullSpeed /\ \E s \in About(i) : Arrives(0, s.eps[1], freq)
            \/ ~fullSpeed /\ \E t \in Terminal(i) : Arrives(t.clock, 0, freq)
         /\ chosen' = [chosen EXCEPT ![i] = freq]
  BY DEF SetFreq
<1>2. \E e, c : Arrives(e, c, freq) /\ Case(e, c) = i /\ (fullSpeed \/ e \in Entities)
  <2>1. CASE fullSpeed
    <3>1. PICK s \in About(i) : Arrives(0, s.eps[1], freq)
      BY <1>1, <2>1
    <3>2. Case(0, s.eps[1]) = i
      BY <2>1, AboutSays DEF Case
    <3>3. QED
      BY <2>1, <3>1, <3>2
  <2>2. CASE ~fullSpeed
    <3>1. PICK t \in Terminal(i) : Arrives(t.clock, 0, freq)
      BY <1>1, <2>2
    <3>2. Case(t.clock, 0) = i /\ t.clock \in Entities
      BY <2>2, TerminalSays DEF Case, Entities
    <3>3. QED
      BY <3>1, <3>2
  <2>3. QED
    BY <2>1, <2>2
<1>3. /\ i = 1 => SetOut(freq)
      /\ i = 2 => SetInp(freq)
  BY <1>2 DEF Arrives
<1>4. ~stalled => ~stalled'
  BY <1>2, Zenon DEF Arrives
<1>5. QED
  BY <1>1, <1>3, <1>4

\* Frequencies of whole kHz, 0 included.
InKHz == {f \in Nat : f % 1000 = 0 /\ f <= MaxFreq}

\* What the host has and what the device has.
ChosenInv ==
    /\ fullSpeed \in BOOLEAN
    /\ chosen \in [1..2 -> InKHz] /\ offered \in [1..2 -> SUBSET InKHz]
    /\ RatesAgree

LEMMA FreqInKHz == \A f : IsFreq(f) => f \in InKHz
<1> SUFFICES ASSUME NEW f, IsFreq(f) PROVE f \in InKHz
  OBVIOUS
<1>1. MaxFreq \in Nat
  BY SMT DEF MaxFreq
<1>2. f \in Nat /\ f <= MaxFreq
  BY <1>1 DEF IsFreq
<1>3. f % 1000 = 0
  BY DEF IsFreq
<1>4. QED
  BY <1>2, <1>3 DEF InKHz

LEMMA OfferedAreFreqs ==
    ASSUME NEW i \in 1..2
    PROVE  Listed(i) \subseteq InKHz /\ InRange(i) \subseteq InKHz
<1>1. Listed(i) \subseteq InKHz
  <2>1. IsFreq(Freqs[i][1]) /\ IsFreq(Freqs[i][2])
    BY ControlAssumption, Zenon
  <2>2. QED
    BY <2>1, FreqInKHz, Zenon DEF Listed
<1>2. ASSUME NEW f \in InRange(i) PROVE f \in InKHz
  <2>1. /\ Ranges[i].max <= MaxFreq
        /\ Ranges[i].min \in Nat /\ Ranges[i].max \in Nat /\ Ranges[i].step \in Nat \ {0}
        /\ Ranges[i].min <= Ranges[i].max
        /\ Ranges[i].min % 1000 = 0 /\ Ranges[i].step % 1000 = 0
    <3>1. /\ Ranges \in [1..2 -> [min : Nat, max : Nat, step : Nat \ {0}]]
          /\ Ranges[i].min <= Ranges[i].max /\ Ranges[i].max <= MaxFreq
          /\ IsFreq(Ranges[i].min) /\ Ranges[i].step % 1000 = 0
      BY ControlAssumption
    <3>2. Ranges[i].min \in InKHz
      BY <3>1, FreqInKHz
    <3>3. QED
      BY <3>1, <3>2 DEF InKHz
  <2>2. PICK k \in 0..(Ranges[i].max - Ranges[i].min) \div Ranges[i].step :
           f = Ranges[i].min + k * Ranges[i].step
    BY <1>2 DEF InRange
  <2>3. PICK a \in Nat, b \in Nat : Ranges[i].min = 1000 * a /\ Ranges[i].step = 1000 * b
    <3>1. \A n \in Nat : n % 1000 = 0 => n = 1000 * (n \div 1000) /\ n \div 1000 \in Nat
      OBVIOUS
    <3>2. QED
      BY <2>1, <3>1
  <2>4. k \in Nat
    BY <2>1, <2>2
  <2>5. k * b \in Nat /\ k * (1000 * b) = 1000 * (k * b)
    BY <2>3, <2>4
  <2>6. f = 1000 * (a + k * b)
    BY <2>2, <2>3, <2>5
  <2>7. \A m \in Nat : (1000 * m) % 1000 = 0 /\ 1000 * m \in Nat
    OBVIOUS
  <2>8. f <= Ranges[i].max
    <3> DEFINE d == Ranges[i].step
               n == Ranges[i].max - Ranges[i].min
    <3>1. n \in Nat /\ d \in Nat \ {0} /\ k \in Nat /\ k <= n \div d
      BY <2>1, <2>2
    <3>2. k * d <= n
      <4> HIDE DEF n, d
      <4>1. (n \div d) * d <= n /\ n \div d \in Nat
        BY <3>1
      <4>2. k * d <= (n \div d) * d
        BY <3>1, <4>1
      <4>3. QED
        BY <3>1, <4>1, <4>2
    <3>3. QED
      BY <2>1, <2>2, <3>2 DEF MaxFreq
  <2>9. QED
    BY <2>1, <2>3, <2>5, <2>6, <2>7, <2>8 DEF MaxFreq, InKHz
<1>3. QED
  BY <1>1, <1>2

LEMMA ZeroInKHz == 0 \in InKHz
BY DEF InKHz, MaxFreq

LEMMA InitChosen == ControlInit => ChosenInv
BY ZeroInKHz DEF ControlInit, ChosenInv, RatesAgree

LEMMA StepChosen == ChosenInv /\ [ControlNext]_ctlVars => ChosenInv'
<1> SUFFICES ASSUME ChosenInv, [ControlNext]_ctlVars PROVE ChosenInv'
  OBVIOUS
<1> USE DEF ChosenInv, RatesAgree
<1>1. CASE UNCHANGED ctlVars
  BY <1>1 DEF ctlVars, device, wishes
<1>2. CASE ReadPiece
  BY <1>2 DEF ReadPiece, device, wishes
<1>3. ASSUME NEW i \in 1..2, LearnFreqs(i) PROVE ChosenInv'
  <2>1. offered' = offered \/ \E j \in 1..2 :
           offered' = [offered EXCEPT ![i] = Listed(j)] \/ offered' = [offered EXCEPT ![i] = InRange(j)]
    <3>1. CASE fullSpeed
      <4>1. PICK s \in About(i) : offered' = [offered EXCEPT ![i] = {s.freqs[1], s.freqs[2]}]
        BY <1>3, <3>1 DEF LearnFreqs
      <4>2. {s.freqs[1], s.freqs[2]} = Listed(i)
        <5>1. s.freqs = Freqs[i]
          BY <3>1, AboutSays
        <5>2. QED
          BY <5>1, Zenon DEF Listed
      <4>3. QED
        BY <4>1, <4>2
    <3>2. CASE ~fullSpeed
      <4>1. PICK t \in Terminal(i) :
               offered' = IF t.clock \in Entities /\ TableOf(t.clock) # 0
                          THEN [offered EXCEPT ![i] = InRange(TableOf(t.clock))] ELSE offered
        BY <1>3, <3>2 DEF LearnFreqs
      <4>2. TableOf(t.clock) \in 0..2
        BY DEF TableOf
      <4>3. CASE t.clock \in Entities /\ TableOf(t.clock) # 0
        <5>1. TableOf(t.clock) \in 1..2
          BY <4>2, <4>3
        <5>2. QED
          BY <4>1, <4>3, <5>1, Zenon
      <4>4. QED
        BY <4>1, <4>3, Zenon
    <3>3. QED
      BY <3>1, <3>2
  <2>2. offered' \in [1..2 -> SUBSET InKHz]
    BY <2>1, OfferedAreFreqs
  <2>3. UNCHANGED <<fullSpeed, chosen, cur_out_freq, cur_inp_freq>>
    BY <1>3 DEF LearnFreqs, device
  <2>4. QED
    BY <2>2, <2>3
<1>4. ASSUME NEW i \in 1..2, SetFreq(i) PROVE ChosenInv'
  <2>1. PICK freq \in offered[i] : /\ chosen' = [chosen EXCEPT ![i] = freq]
                                   /\ i = 1 => SetOut(freq)
                                   /\ i = 2 => SetInp(freq)
    BY <1>4, CaseOf
  <2>2. freq \in InKHz /\ offered' = offered /\ fullSpeed' = fullSpeed
    BY <1>4 DEF SetFreq
  <2>3. CASE i = 1
    BY <2>1, <2>2, <2>3 DEF SetOut
  <2>4. CASE i = 2
    BY <2>1, <2>2, <2>4 DEF SetInp
  <2>5. QED
    BY <2>3, <2>4
<1>5. ASSUME NEW i \in 1..2, Open(i) \/ Stop(i) PROVE ChosenInv'
  BY <1>5 DEF Open, Stop, device
<1>6. CASE FbDone
  BY <1>6 DEF FbDone, wishes
<1>7. CASE ResetBus
  BY <1>7, ZeroInKHz DEF ResetBus, device
<1>8. QED
  BY <1>1, <1>2, <1>3, <1>4, <1>5, <1>6, <1>7 DEF ControlNext

LEMMA ChosenCorrect == ControlSpec => []ChosenInv
BY InitChosen, StepChosen, PTL DEF ControlSpec

\* By whatever ids the descriptors show it, the frequency the host sets for an
\* interface is the one the device uses for it, in both builds.
THEOREM RatesCorrect == ControlSpec => []RatesAgree
<1>1. ChosenInv => RatesAgree
  BY DEF ChosenInv
<1>2. QED
  BY <1>1, ChosenCorrect, PTL
-----------------------------------------------------------------------------
(***************************************************************************)
(* Feedback packets carry that frequency.                                  *)
(***************************************************************************)

Rate(freq) == FS!FeedbackRate(freq)

\* Where the frequency the host has set has got to: the value, the packet that is
\* armed, the packet it has received.
FeedbackInv ==
    /\ since \in 0..2
    /\ chosen[1] # 0 =>
          /\ cur_feedback_rate = Rate(chosen[1])
          /\ since >= 1 => feedback_buffer = FS!FeedbackBytes(Rate(chosen[1]))
          /\ since = 2 => heardRate = FS!FeedbackBytes(Rate(chosen[1]))

LEMMA InitFeedback == ControlInit => FeedbackInv
BY DEF ControlInit, FeedbackInv

LEMMA StepFeedback == ChosenInv /\ FeedbackInv /\ [ControlNext]_ctlVars => FeedbackInv'
<1> SUFFICES ASSUME ChosenInv, FeedbackInv, [ControlNext]_ctlVars PROVE FeedbackInv'
  OBVIOUS
<1> USE DEF ChosenInv, FeedbackInv
<1>1. CASE UNCHANGED ctlVars
  BY <1>1 DEF ctlVars, device, wishes, feedback
<1>2. CASE ReadPiece
  BY <1>2 DEF ReadPiece, device, wishes, feedback
<1>3. ASSUME NEW i \in 1..2, LearnFreqs(i) PROVE FeedbackInv'
  BY <1>3 DEF LearnFreqs, device, feedback
<1>4. ASSUME NEW i \in 1..2, SetFreq(i) PROVE FeedbackInv'
  <2>1. PICK freq \in offered[i] : /\ chosen' = [chosen EXCEPT ![i] = freq]
                                   /\ i = 1 => SetOut(freq)
                                   /\ i = 2 => SetInp(freq)
    BY <1>4, CaseOf
  <2>2. /\ UNCHANGED <<feedback_buffer, heardRate>>
        /\ since' = IF i = 1 THEN 0 ELSE since
    BY <1>4 DEF SetFreq
  <2>3. CASE i = 1
    BY <2>1, <2>2, <2>3 DEF SetOut, Rate
  <2>4. CASE i = 2
    BY <2>1, <2>2, <2>4 DEF SetInp
  <2>5. QED
    BY <2>3, <2>4
<1>5. ASSUME NEW i \in 1..2, Open(i) \/ Stop(i) PROVE FeedbackInv'
  <2>1. UNCHANGED <<device, chosen, feedback>>
    BY <1>5 DEF Open, Stop
  <2>2. QED
    BY <2>1 DEF device, feedback
<1>6. CASE FbDone
  BY <1>6 DEF FbDone, wishes
<1>7. CASE ResetBus
  BY <1>7 DEF ResetBus, device, feedback
<1>8. QED
  BY <1>1, <1>2, <1>3, <1>4, <1>5, <1>6, <1>7 DEF ControlNext

\* The three bytes of a packet hold every value below 2^24.
LEMMA BytesHoldRate ==
    ASSUME NEW rate \in Nat, rate < 16777216
    PROVE  RateOf(FS!FeedbackBytes(rate)) = rate
<1> DEFINE b == FS!FeedbackBytes(rate)
<1>1. /\ b[1] = (rate \div 256^0) % 256
      /\ b[2] = (rate \div 256^1) % 256
      /\ b[3] = (rate \div 256^2) % 256
  BY DEF FS!FeedbackBytes
<1>2. 256^0 = 1 /\ 256^1 = 256 /\ 256^2 = 65536
  OBVIOUS
<1>3. ((rate \div 1) % 256) + 256 * ((rate \div 256) % 256) + 65536 * ((rate \div 65536) % 256) = rate
  OBVIOUS
<1>4. QED
  BY <1>1, <1>2, <1>3 DEF RateOf

\* From the second feedback packet on, the host of a full-speed device is asked for
\* the frequency it has set, whatever feedback said before it set one.
THEOREM FeedbackCorrect == ControlSpec => []FeedbackFollows
<1>1. ControlSpec => []FeedbackInv
  BY ChosenCorrect, InitFeedback, StepFeedback, PTL DEF ControlSpec
<1>2. ChosenInv /\ FeedbackInv => FeedbackFollows
  <2> SUFFICES ASSUME ChosenInv, FeedbackInv, chosen[1] # 0, since = 2
               PROVE  RateOf(heardRate) * 1000 = chosen[1] * 2^14
    BY DEF FeedbackFollows
  <2>1. chosen[1] \in Nat /\ chosen[1] % 1000 = 0 /\ chosen[1] <= MaxFreq
    BY DEF ChosenInv, InKHz
  <2>2. 2^14 = 16384
    OBVIOUS
  <2>3. Rate(chosen[1]) = (chosen[1] \div 1000) * 16384
    BY <2>2 DEF Rate, FS!FeedbackRate
  <2>4. Rate(chosen[1]) \in Nat /\ Rate(chosen[1]) < 16777216
    BY <2>1, <2>3 DEF MaxFreq
  <2>5. RateOf(heardRate) = Rate(chosen[1])
    BY <2>4, BytesHoldRate DEF FeedbackInv
  <2>6. QED
    BY <2>1, <2>2, <2>3, <2>5
<1>3. QED
  BY <1>1, <1>2, ChosenCorrect, PTL
-----------------------------------------------------------------------------
(***************************************************************************)
(* The claimed lengths are those of what is described, and everything the  *)
(* host is led to is registered.                                           *)
(***************************************************************************)

\* Bytes of the configuration behind each piece, from the end: a sum the host forms
\* by subtraction.
LeftV1(k) == <<217, 208, 181, 169, 159, 150, 138, 128, 119, 55, 0>>[k]
LeftV2(k) ==
    LET f == FeatureSz(Channels[1] + 1)
        g == FeatureSz(Channels[2] + 1) IN
    <<219 + f + g, 210 + f + g, 184 + f + g, 176 + f + g, 159 + f + g, 159 + g,
      147 + g, 139 + g, 122 + g, 122, 110, 55, 0>>[k]

\* How many bytes the host still expects, and of how many pieces.
Pieces  == IF fullSpeed THEN 10 ELSE 12
Left(k) == IF fullSpeed THEN LeftV1(k) ELSE LeftV2(k)

ReadInv ==
    /\ fullSpeed \in BOOLEAN
    /\ at \in 1..(IF fullSpeed THEN 11 ELSE 13)
    /\ configLeft = Left(at)
    /\ at > 2 => controlLeft = IF fullSpeed THEN IF at < 9 THEN configLeft - 119 ELSE 0
                               ELSE IF at < 11 THEN configLeft - 110 ELSE 0

LEMMA FeatureIsNat ==
    ASSUME NEW i \in 1..2
    PROVE  /\ FeatureSz(Channels[i] + 1) \in Nat /\ FeatureSz(Channels[i] + 1) > 0
           /\ FeatureSz(CTRL(Channels[i])) = FeatureSz(Channels[i] + 1)
<1>1. Channels[i] \in 1..8
  BY ControlAssumption
<1>2. \A c \in 1..8 : CTRL(c) = c + 1
  BY DEF CTRL
<1>3. QED
  BY <1>1, <1>2 DEF FeatureSz

LEMMA Claimed ==
    ASSUME fullSpeed \in BOOLEAN
    PROVE  /\ fullSpeed => AUDIO_AC_SIZ = 72 /\ USB_AUDIO_CONFIG_DESC_SIZ = 217
           /\ ~fullSpeed => /\ AUDIO_AC_SIZ = 83 + FeatureSz(Channels[1] + 1)
                                                + FeatureSz(Channels[2] + 1)
                            /\ USB_AUDIO_CONFIG_DESC_SIZ = LeftV2(1)
<1>1. CASE fullSpeed
  BY <1>1 DEF AUDIO_AC_SIZ, USB_AUDIO_CONFIG_DESC_SIZ, Before, Header, InputSz, OutputSz,
              FeatureSz, StreamSz
<1>2. CASE ~fullSpeed
  <2>1. /\ FeatureSz(Channels[1] + 1) \in Nat /\ FeatureSz(Channels[2] + 1) \in Nat
    BY FeatureIsNat
  <2>2. QED
    BY <1>2, <2>1 DEF AUDIO_AC_SIZ, USB_AUDIO_CONFIG_DESC_SIZ, Before, Header, ClockSz, InputSz,
                      OutputSz, StreamSz, LeftV2
<1>3. QED
  BY <1>1, <1>2

LEMMA InitRead == ControlInit => ReadInv
BY Claimed DEF ControlInit, ReadInv, Left, LeftV1

\* What the host subtracts for each piece.
Sizes(k) ==
    IF fullSpeed THEN <<9, 27, 12, 10, 9, 12, 10, 9, 64, 55>>[k]
    ELSE <<9, 26, 8, 17, FeatureSz(Channels[1] + 1), 12, 8, 17, FeatureSz(Channels[2] + 1), 12,
           55, 55>>[k]
Kinds(k) ==
    IF fullSpeed
    THEN <<"config", "control", "terminal", "feature", "terminal", "terminal", "feature",
           "terminal", "stream", "stream">>[k]
    ELSE <<"config", "control", "clock", "terminal", "feature", "terminal", "clock", "terminal",
           "feature", "terminal", "stream", "stream">>[k]

LEMMA PieceSize ==
    ASSUME fullSpeed \in BOOLEAN, NEW k \in 1..Len(Configuration)
    PROVE  /\ audio_descriptor[k] = Configuration[k]
           /\ Configuration[k].size = Sizes(k) /\ Configuration[k].kind = Kinds(k)
<1>1. audio_descriptor[k] = Configuration[k]
  BY DEF audio_descriptor
<1>2. CASE fullSpeed
  <2> SUFFICES Configuration[k].size = Sizes(k) /\ Configuration[k].kind = Kinds(k)
    BY <1>1
  <2>1. CASE k = 1
    BY <1>2, <2>1 DEF Configuration, ConfigurationV1, Control, Before, Header, Sizes, Kinds
  <2>2. CASE k = 2
    BY <1>2, <2>2 DEF Configuration, ConfigurationV1, Control, Before, Header, Sizes, Kinds
  <2>3. CASE k = 3
    BY <1>2, <2>3 DEF Configuration, ConfigurationV1, Input, InputSz, Sizes, Kinds
  <2>4. CASE k = 4
    BY <1>2, <2>4 DEF Configuration, ConfigurationV1, Feature, FeatureSz, Sizes, Kinds
  <2>5. CASE k = 5
    BY <1>2, <2>5 DEF Configuration, ConfigurationV1, Output, OutputSz, Sizes, Kinds
  <2>6. CASE k = 6
    BY <1>2, <2>6 DEF Configuration, ConfigurationV1, Input, InputSz, Sizes, Kinds
  <2>7. CASE k = 7
    BY <1>2, <2>7 DEF Configuration, ConfigurationV1, Feature, FeatureSz, Sizes, Kinds
  <2>8. CASE k = 8
    BY <1>2, <2>8 DEF Configuration, ConfigurationV1, Output, OutputSz, Sizes, Kinds
  <2>0. ASSUME NEW i \in 1..2, NEW max
        PROVE  /\ Stream(1, 2, <<2, 131>>, max, Freqs[i]).size = 64
               /\ Stream(2, 8, <<129>>, max, Freqs[i]).size = 55
    <3>1. Freqs[i] \in Nat \X Nat
      BY ControlAssumption
    <3>2. PICK x, y \in Nat : Freqs[i] = <<x, y>>
      BY <3>1
    <3>3. Len(Freqs[i]) = 2 /\ Len(<<2, 131>>) = 2 /\ Len(<<129>>) = 1
      BY <3>2
    <3>4. QED
      BY <1>2, <3>3 DEF Stream, StreamSz
  <2>9. CASE k = 9
    <3>1. Configuration[k] = Stream(1, 2, <<2, 131>>, PacketSz(1), Freqs[1])
      BY <1>2, <2>9 DEF Configuration, ConfigurationV1
    <3>2. Configuration[k].kind = "stream"
      BY <3>1 DEF Stream
    <3>3. QED
      BY <1>2, <2>0, <2>9, <3>1, <3>2 DEF Sizes, Kinds
  <2>10. CASE k = 10
    <3>1. Configuration[k] = Stream(2, 8, <<129>>, PacketSz(2), Freqs[2])
      BY <1>2, <2>10 DEF Configuration, ConfigurationV1
    <3>2. Configuration[k].kind = "stream"
      BY <3>1 DEF Stream
    <3>3. QED
      BY <1>2, <2>0, <2>10, <3>1, <3>2 DEF Sizes, Kinds
  <2>11. QED
    BY <1>2, ConfigurationLen, <2>1, <2>2, <2>3, <2>4, <2>5, <2>6, <2>7, <2>8, <2>9, <2>10
<1>3. CASE ~fullSpeed
  <2> SUFFICES Configuration[k].size = Sizes(k) /\ Configuration[k].kind = Kinds(k)
    BY <1>1
  <2>1. CASE k = 1
    BY <1>3, <2>1 DEF Configuration, ConfigurationV2, Control, Before, Header, Sizes, Kinds
  <2>2. CASE k = 2
    BY <1>3, <2>2 DEF Configuration, ConfigurationV2, Control, Before, Header, Sizes, Kinds
  <2>3. CASE k = 3
    BY <1>3, <2>3 DEF Configuration, ConfigurationV2, Clock, ClockSz, Sizes, Kinds
  <2>4. CASE k = 4
    BY <1>3, <2>4 DEF Configuration, ConfigurationV2, Input, InputSz, Sizes, Kinds
  <2>5. CASE k = 5
    BY <1>3, <2>5, FeatureIsNat DEF Configuration, ConfigurationV2, Feature, Sizes, Kinds
  <2>6. CASE k = 6
    BY <1>3, <2>6 DEF Configuration, ConfigurationV2, Output, OutputSz, Sizes, Kinds
  <2>7. CASE k = 7
    BY <1>3, <2>7 DEF Configuration, ConfigurationV2, Clock, ClockSz, Sizes, Kinds
  <2>8. CASE k = 8
    BY <1>3, <2>8 DEF Configuration, ConfigurationV2, Input, InputSz, Sizes, Kinds
  <2>9. CASE k = 9
    BY <1>3, <2>9, FeatureIsNat DEF Configuration, ConfigurationV2, Feature, Sizes, Kinds
  <2>10. CASE k = 10
    BY <1>3, <2>10 DEF Configuration, ConfigurationV2, Output, OutputSz, Sizes, Kinds
  <2>11. CASE k = 11
    BY <1>3, <2>11 DEF Configuration, ConfigurationV2, Stream, StreamSz, Sizes, Kinds
  <2>12. CASE k = 12
    BY <1>3, <2>12 DEF Configuration, ConfigurationV2, Stream, StreamSz, Sizes, Kinds
  <2>13. QED
    BY <1>3, ConfigurationLen, <2>1, <2>2, <2>3, <2>4, <2>5, <2>6, <2>7, <2>8, <2>9, <2>10, <2>11, <2>12
<1>4. QED
  BY <1>2, <1>3

LEMMA OnePiece ==
    ASSUME fullSpeed \in BOOLEAN, NEW k \in 1..Pieces
    PROVE  /\ Left(k) \in Nat /\ Left(k + 1) \in Nat /\ Left(k) > 0
           /\ Sizes(k) \in Nat /\ Left(k + 1) = Left(k) - Sizes(k)
<1>1. CASE fullSpeed
  <2>1. CASE k = 1
    BY <1>1, <2>1 DEF Left, LeftV1, Sizes
  <2>2. CASE k = 2
    BY <1>1, <2>2 DEF Left, LeftV1, Sizes
  <2>3. CASE k = 3
    BY <1>1, <2>3 DEF Left, LeftV1, Sizes
  <2>4. CASE k = 4
    BY <1>1, <2>4 DEF Left, LeftV1, Sizes
  <2>5. CASE k = 5
    BY <1>1, <2>5 DEF Left, LeftV1, Sizes
  <2>6. CASE k = 6
    BY <1>1, <2>6 DEF Left, LeftV1, Sizes
  <2>7. CASE k = 7
    BY <1>1, <2>7 DEF Left, LeftV1, Sizes
  <2>8. CASE k = 8
    BY <1>1, <2>8 DEF Left, LeftV1, Sizes
  <2>9. CASE k = 9
    BY <1>1, <2>9 DEF Left, LeftV1, Sizes
  <2>10. CASE k = 10
    BY <1>1, <2>10 DEF Left, LeftV1, Sizes
  <2>11. QED
    BY <1>1, <2>1, <2>2, <2>3, <2>4, <2>5, <2>6, <2>7, <2>8, <2>9, <2>10 DEF Pieces
<1>2. CASE ~fullSpeed
  <2> DEFINE f == FeatureSz(Channels[1] + 1)
             g == FeatureSz(Channels[2] + 1)
  <2>0. f \in Nat /\ g \in Nat /\ f > 0 /\ g > 0
    BY FeatureIsNat
  <2> HIDE DEF f, g
  <2>1. CASE k = 1
    BY <1>2, <2>0, <2>1 DEF Left, LeftV2, Sizes, f, g
  <2>2. CASE k = 2
    BY <1>2, <2>0, <2>2 DEF Left, LeftV2, Sizes, f, g
  <2>3. CASE k = 3
    BY <1>2, <2>0, <2>3 DEF Left, LeftV2, Sizes, f, g
  <2>4. CASE k = 4
    BY <1>2, <2>0, <2>4 DEF Left, LeftV2, Sizes, f, g
  <2>5. CASE k = 5
    BY <1>2, <2>0, <2>5 DEF Left, LeftV2, Sizes, f, g
  <2>6. CASE k = 6
    BY <1>2, <2>0, <2>6 DEF Left, LeftV2, Sizes, f, g
  <2>7. CASE k = 7
    BY <1>2, <2>0, <2>7 DEF Left, LeftV2, Sizes, f, g
  <2>8. CASE k = 8
    BY <1>2, <2>0, <2>8 DEF Left, LeftV2, Sizes, f, g
  <2>9. CASE k = 9
    BY <1>2, <2>0, <2>9 DEF Left, LeftV2, Sizes, f, g
  <2>10. CASE k = 10
    BY <1>2, <2>0, <2>10 DEF Left, LeftV2, Sizes, f, g
  <2>11. CASE k = 11
    BY <1>2, <2>0, <2>11 DEF Left, LeftV2, Sizes, f, g
  <2>12. CASE k = 12
    BY <1>2, <2>0, <2>12 DEF Left, LeftV2, Sizes, f, g
  <2>13. QED
    BY <1>2, <2>1, <2>2, <2>3, <2>4, <2>5, <2>6, <2>7, <2>8, <2>9, <2>10, <2>11, <2>12 DEF Pieces
<1>3. QED
  BY <1>1, <1>2

LEMMA LeftKept ==
    ASSUME fullSpeed' = fullSpeed, NEW k, at' = k
    PROVE  (Left(at))' = Left(k)
<1>1. /\ (FeatureSz(Channels[1] + 1))' = FeatureSz(Channels[1] + 1)
      /\ (FeatureSz(Channels[2] + 1))' = FeatureSz(Channels[2] + 1)
  BY Zenon DEF FeatureSz
<1>2. (LeftV1(at))' = LeftV1(k)
  BY Zenon DEF LeftV1
<1>3. (LeftV2(at))' = LeftV2(k)
  BY <1>1, Zenon DEF LeftV2
<1>4. QED
  BY <1>2, <1>3, Zenon DEF Left

LEMMA AllRead == fullSpeed \in BOOLEAN => Left(Pieces + 1) = 0
BY DEF Left, LeftV1, LeftV2, Pieces

LEMMA StepRead ==
    ASSUME ReadInv, [ControlNext]_ctlVars
    PROVE  ReadInv'
<1> USE DEF ReadInv
<1>1. CASE ReadPiece
  <2>1. configLeft = Left(at) /\ at \in 1..Pieces + 1 /\ configLeft > 0
    BY <1>1 DEF ReadPiece, Left, Pieces
  <2>2. at \in 1..Pieces
    BY <2>1, AllRead DEF Pieces
  <2>3. audio_descriptor[at].size = Sizes(at) /\ audio_descriptor[at].kind = Kinds(at)
    BY <2>2, PieceSize, ConfigurationLen DEF Pieces
  <2>4. /\ at' = at + 1 /\ configLeft' = configLeft - Sizes(at) /\ fullSpeed' = fullSpeed
        /\ controlLeft' = IF Kinds(at) = "control" THEN AUDIO_AC_SIZ - Header
                          ELSE IF Kinds(at) \in {"clock", "terminal", "feature"}
                          THEN controlLeft - Sizes(at) ELSE controlLeft
    BY <1>1, <2>3 DEF ReadPiece
  <2>5. configLeft' = Left(at + 1)
    BY <2>1, <2>2, <2>4, OnePiece
  <2>a. (Left(at))' = Left(at + 1)
    BY <2>4, LeftKept, Zenon
  <2>6. /\ Left(at) \in Nat /\ Left(at + 1) \in Nat /\ Sizes(at) \in Nat
        /\ Left(at + 1) = Left(at) - Sizes(at)
    BY <2>2, OnePiece
  <2>7. CASE fullSpeed
    <3>0. /\ at' \in 1..11 /\ configLeft' = (Left(at))' /\ fullSpeed' = fullSpeed
      BY <2>2, <2>4, <2>5, <2>7, <2>a DEF Pieces
    <3>1. CASE at = 1
      BY <2>4, <2>7, <3>0, <3>1
    <3>2. CASE at = 2
      <4>1. controlLeft' = AUDIO_AC_SIZ - Header
        BY <2>4, <2>7, <3>2 DEF Kinds
      <4>2. AUDIO_AC_SIZ - Header = Left(3) - 119
        BY <2>7, Claimed, FeatureIsNat DEF Header, Left, LeftV1, LeftV2
      <4>3. QED
        BY <2>4, <2>5, <2>7, <3>0, <3>2, <4>1, <4>2
    <3>3. CASE at \in 3..8
      <4>1. controlLeft' = controlLeft - Sizes(at)
        BY <2>4, <2>7, <3>3 DEF Kinds
      <4>2. controlLeft = Left(at) - 119
        BY <2>1, <2>7, <3>3
      <4>3. controlLeft' = Left(at + 1) - 119
        BY <2>6, <4>1, <4>2
      <4>4. Left(9) = 119
        BY <2>7 DEF Left, LeftV1, LeftV2
      <4>5. QED
        BY <2>4, <2>5, <2>7, <3>0, <3>3, <4>3, <4>4
    <3>4. CASE at \in 9..10
      <4>1. controlLeft' = controlLeft
        BY <2>4, <2>7, <3>4 DEF Kinds
      <4>2. QED
        BY <2>4, <2>7, <3>0, <3>4, <4>1
    <3>5. QED
      BY <2>2, <2>7, <3>1, <3>2, <3>3, <3>4 DEF Pieces
  <2>8. CASE ~fullSpeed
    <3>0. /\ at' \in 1..13 /\ configLeft' = (Left(at))' /\ fullSpeed' = fullSpeed
      BY <2>2, <2>4, <2>5, <2>8, <2>a DEF Pieces
    <3>1. CASE at = 1
      BY <2>4, <2>8, <3>0, <3>1
    <3>2. CASE at = 2
      <4>1. controlLeft' = AUDIO_AC_SIZ - Header
        BY <2>4, <2>8, <3>2 DEF Kinds
      <4>2. AUDIO_AC_SIZ - Header = Left(3) - 110
        BY <2>8, Claimed, FeatureIsNat DEF Header, Left, LeftV1, LeftV2
      <4>3. QED
        BY <2>4, <2>5, <2>8, <3>0, <3>2, <4>1, <4>2
    <3>3. CASE at \in 3..10
      <4>1. controlLeft' = controlLeft - Sizes(at)
        BY <2>4, <2>8, <3>3 DEF Kinds
      <4>2. controlLeft = Left(at) - 110
        BY <2>1, <2>8, <3>3
      <4>3. controlLeft' = Left(at + 1) - 110
        BY <2>6, <4>1, <4>2
      <4>4. Left(11) = 110
        BY <2>8 DEF Left, LeftV1, LeftV2
      <4>5. QED
        BY <2>4, <2>5, <2>8, <3>0, <3>3, <4>3, <4>4
    <3>4. CASE at \in 11..12
      <4>1. controlLeft' = controlLeft
        BY <2>4, <2>8, <3>4 DEF Kinds
      <4>2. QED
        BY <2>4, <2>8, <3>0, <3>4, <4>1
    <3>5. QED
      BY <2>2, <2>8, <3>1, <3>2, <3>3, <3>4 DEF Pieces
  <2>9. QED
    BY <2>7, <2>8
<1>2. CASE ResetBus
  <2>1. fullSpeed' = fullSpeed /\ at' = 1 /\ configLeft' = USB_AUDIO_CONFIG_DESC_SIZ
    BY <1>2 DEF ResetBus
  <2>2. configLeft' = Left(1)
    BY <2>1, Claimed DEF Left, LeftV1
  <2>3. (Left(at))' = Left(1)
    BY <2>1, LeftKept, Zenon
  <2>4. QED
    BY <2>1, <2>2, <2>3
<1>3. CASE UNCHANGED <<fullSpeed, reading>>
  <2>1. fullSpeed' = fullSpeed /\ at' = at /\ configLeft' = configLeft /\ controlLeft' = controlLeft
    BY <1>3, Zenon DEF reading
  <2>2. (Left(at))' = Left(at)
    BY <2>1, LeftKept, Zenon
  <2>3. QED
    BY <2>1, <2>2
<1>4. ReadPiece \/ ResetBus \/ UNCHANGED <<fullSpeed, reading>>
  BY Zenon DEF ControlNext, LearnFreqs, SetFreq, Open, Stop, FbDone, ctlVars
<1>5. QED
  BY <1>1, <1>2, <1>3, <1>4

LEMMA DescriptorLen ==
    ASSUME fullSpeed \in BOOLEAN
    PROVE  /\ 1..Pieces + 1 \subseteq DOMAIN audio_descriptor
           /\ audio_descriptor[Pieces + 1].kind = "string"
<1>1. Len(Configuration) = Pieces
  BY ConfigurationLen DEF Pieces
<1>2. Len(Strings) >= 1 /\ Strings[1].kind = "string"
  <2>1. CASE fullSpeed
    BY <2>1 DEF Strings, Control
  <2>2. CASE ~fullSpeed
    BY <2>2 DEF Strings, Control
  <2>3. QED
    BY <2>1, <2>2
<1>3. Pieces \in Nat
  BY DEF Pieces
<1>4. QED
  BY <1>1, <1>2, <1>3 DEF audio_descriptor

\* Whatever the device is built for, a host that follows the claimed lengths reads
\* the whole configuration and nothing else.
THEOREM EnumerationCorrect == ControlSpec => []EnumerationExact
<1>1. ControlSpec => []ReadInv
  BY InitRead, StepRead, PTL DEF ControlSpec
<1>2. ReadInv => EnumerationExact
  <2> SUFFICES ASSUME ReadInv PROVE EnumerationExact
    OBVIOUS
  <2>1. fullSpeed \in BOOLEAN /\ at \in 1..Pieces + 1 /\ configLeft = Left(at)
    BY DEF ReadInv, Pieces
  <2>2. configLeft >= 0
    BY <2>1, AllRead, OnePiece DEF Pieces
  <2>3. configLeft = 0 => audio_descriptor[at].kind = "string"
    <3> SUFFICES ASSUME configLeft = 0 PROVE audio_descriptor[at].kind = "string"
      OBVIOUS
    <3>1. at = Pieces + 1
      BY <2>1, OnePiece DEF Pieces
    <3>2. QED
      BY <2>1, <3>1, DescriptorLen
  <2>4. ASSUME NEW p \in Known
        PROVE  p.kind # "string" /\ (p.kind = "stream" => controlLeft = 0)
    <3>1. PICK j \in DOMAIN audio_descriptor : j < at /\ p = audio_descriptor[j]
      BY DEF Known
    <3>2. j \in 1..Pieces
      BY <2>1, <3>1 DEF audio_descriptor, Pieces
    <3>3. p.kind = Kinds(j)
      BY <2>1, <3>1, <3>2, PieceSize, ConfigurationLen DEF Pieces
    <3>4. Kinds(j) # "string"
      BY <2>1, <3>2 DEF Kinds, Pieces
    <3>5. Kinds(j) = "stream" => j >= IF fullSpeed THEN 9 ELSE 11
      BY <2>1, <3>2 DEF Kinds, Pieces
    <3>6. QED
      BY <2>1, <3>1, <3>2, <3>3, <3>4, <3>5 DEF ReadInv, Pieces
  <2>5. QED
    BY <2>2, <2>3, <2>4 DEF EnumerationExact
<1>3. QED
  BY <1>1, <1>2, PTL

\* A host that has read the configuration finds a feature unit on each way.
LEMMA VolumeFound ==
    ASSUME ReadInv, configLeft <= 0, NEW i \in 1..2
    PROVE  Volume(i) # {}
<1>1. fullSpeed \in BOOLEAN /\ at = Pieces + 1
  BY AllRead, OnePiece DEF ReadInv, Pieces
<1>2. \A k \in 1..Pieces : audio_descriptor[k] = Configuration[k] /\ audio_descriptor[k] \in Known
  <2> SUFFICES ASSUME NEW k \in 1..Pieces
               PROVE  audio_descriptor[k] = Configuration[k] /\ audio_descriptor[k] \in Known
    OBVIOUS
  <2>1. audio_descriptor[k] = Configuration[k]
    BY <1>1, ConfigurationLen, PieceSize DEF Pieces
  <2>2. k \in DOMAIN audio_descriptor /\ k < at
    BY <1>1, DescriptorLen DEF Pieces
  <2>3. QED
    BY <2>1, <2>2 DEF Known
<1>3. QED
  <2>1. CASE fullSpeed /\ i = 1
    <3>1. /\ audio_descriptor[9] = ConfigurationV1[9] /\ audio_descriptor[6] = ConfigurationV1[6]
          /\ audio_descriptor[7] = ConfigurationV1[7]
          /\ audio_descriptor[9] \in Known /\ audio_descriptor[6] \in Known
          /\ audio_descriptor[7] \in Known
      BY <1>2, <2>1 DEF Configuration, Pieces
    <3>2. ConfigurationV1[9].kind = "stream" /\ ConfigurationV1[9].intf = 1 /\ ConfigurationV1[9].link = 2
      BY DEF ConfigurationV1, Stream
    <3>3. ConfigurationV1[6].kind = "terminal" /\ ConfigurationV1[6].id = 2 /\ ConfigurationV1[6].source = 0
      BY DEF ConfigurationV1, Input
    <3>4. ConfigurationV1[7].kind = "feature" /\ ConfigurationV1[7].id = 3 /\ ConfigurationV1[7].source = 2
      BY DEF ConfigurationV1, Feature
    <3>5. audio_descriptor[9] \in About(i)
      BY <2>1, <3>1, <3>2 DEF About
    <3>6. audio_descriptor[6] \in Terminal(i)
      BY <3>1, <3>2, <3>3, <3>5 DEF Terminal
    <3>7. audio_descriptor[7] \in Volume(i)
      BY <3>1, <3>3, <3>4, <3>6 DEF Volume
    <3>8. QED
      BY <3>7
  <2>2. CASE fullSpeed /\ i = 2
    <3>1. /\ audio_descriptor[10] = ConfigurationV1[10] /\ audio_descriptor[5] = ConfigurationV1[5]
          /\ audio_descriptor[4] = ConfigurationV1[4]
          /\ audio_descriptor[10] \in Known /\ audio_descriptor[5] \in Known
          /\ audio_descriptor[4] \in Known
      BY <1>2, <2>2 DEF Configuration, Pieces
    <3>2. ConfigurationV1[10].kind = "stream" /\ ConfigurationV1[10].intf = 2 /\ ConfigurationV1[10].link = 8
      BY DEF ConfigurationV1, Stream
    <3>3. ConfigurationV1[5].kind = "terminal" /\ ConfigurationV1[5].id = 8 /\ ConfigurationV1[5].source = 7
      BY DEF ConfigurationV1, Output
    <3>4. ConfigurationV1[4].kind = "feature" /\ ConfigurationV1[4].id = 7 /\ ConfigurationV1[4].source = 6
      BY DEF ConfigurationV1, Feature
    <3>5. audio_descriptor[10] \in About(i)
      BY <2>2, <3>1, <3>2 DEF About
    <3>6. audio_descriptor[5] \in Terminal(i)
      BY <3>1, <3>2, <3>3, <3>5 DEF Terminal
    <3>7. audio_descriptor[4] \in Volume(i)
      BY <3>1, <3>3, <3>4, <3>6 DEF Volume
    <3>8. QED
      BY <3>7
  <2>3. CASE ~fullSpeed /\ i = 1
    <3>1. /\ audio_descriptor[11] = ConfigurationV2[11] /\ audio_descriptor[4] = ConfigurationV2[4]
          /\ audio_descriptor[5] = ConfigurationV2[5]
          /\ audio_descriptor[11] \in Known /\ audio_descriptor[4] \in Known
          /\ audio_descriptor[5] \in Known
      BY <1>2, <2>3 DEF Configuration, Pieces
    <3>2. ConfigurationV2[11].kind = "stream" /\ ConfigurationV2[11].intf = 1 /\ ConfigurationV2[11].link = 2
      BY DEF ConfigurationV2, Stream
    <3>3. ConfigurationV2[4].kind = "terminal" /\ ConfigurationV2[4].id = 2 /\ ConfigurationV2[4].source = 0
      BY DEF ConfigurationV2, Input
    <3>4. ConfigurationV2[5].kind = "feature" /\ ConfigurationV2[5].id = 3 /\ ConfigurationV2[5].source = 2
      BY DEF ConfigurationV2, Feature
    <3>5. audio_descriptor[11] \in About(i)
      BY <2>3, <3>1, <3>2 DEF About
    <3>6. audio_descriptor[4] \in Terminal(i)
      BY <3>1, <3>2, <3>3, <3>5 DEF Terminal
    <3>7. audio_descriptor[5] \in Volume(i)
      BY <3>1, <3>3, <3>4, <3>6 DEF Volume
    <3>8. QED
      BY <3>7
  <2>4. CASE ~fullSpeed /\ i = 2
    <3>1. /\ audio_descriptor[12] = ConfigurationV2[12] /\ audio_descriptor[10] = ConfigurationV2[10]
          /\ audio_descriptor[9] = ConfigurationV2[9]
          /\ audio_descriptor[12] \in Known /\ audio_descriptor[10] \in Known
          /\ audio_descriptor[9] \in Known
      BY <1>2, <2>4 DEF Configuration, Pieces
    <3>2. ConfigurationV2[12].kind = "stream" /\ ConfigurationV2[12].intf = 2 /\ ConfigurationV2[12].link = 8
      BY DEF ConfigurationV2, Stream
    <3>3. ConfigurationV2[10].kind = "terminal" /\ ConfigurationV2[10].id = 8 /\ ConfigurationV2[10].source = 7
      BY DEF ConfigurationV2, Output
    <3>4. ConfigurationV2[9].kind = "feature" /\ ConfigurationV2[9].id = 7 /\ ConfigurationV2[9].source = 6
      BY DEF ConfigurationV2, Feature
    <3>5. audio_descriptor[12] \in About(i)
      BY <2>4, <3>1, <3>2 DEF About
    <3>6. audio_descriptor[10] \in Terminal(i)
      BY <3>1, <3>2, <3>3, <3>5 DEF Terminal
    <3>7. audio_descriptor[9] \in Volume(i)
      BY <3>1, <3>3, <3>4, <3>6 DEF Volume
    <3>8. QED
      BY <3>7
  <2>5. QED
    BY <1>1, <2>1, <2>2, <2>3, <2>4

\* No request of a host that follows the descriptors is refused.
THEOREM ServedCorrect == ControlSpec => []RequestsServed
<1>1. ControlInit => RequestsServed
  BY DEF ControlInit, RequestsServed
<1>2. ASSUME ReadInv, RequestsServed, [ControlNext]_ctlVars
      PROVE  RequestsServed'
  <2> USE DEF RequestsServed
  <2>1. fullSpeed \in BOOLEAN
    BY <1>2 DEF ReadInv
  <2>2. CASE stalled' = stalled
    BY <1>2, <2>2
  <2>3. ASSUME NEW i \in 1..2, LearnFreqs(i)
        PROVE  ~stalled'
    <3>1. CASE fullSpeed
      BY <1>2, <2>3, <3>1 DEF LearnFreqs
    <3>2. CASE ~fullSpeed
      <4>1. PICK t \in Terminal(i) :
               stalled' = (stalled \/ ~(t.clock \in Entities /\ TableOf(t.clock) # 0))
        BY <2>3, <3>2, Zenon DEF LearnFreqs
      <4>2. t.clock \in Entities /\ TableOf(t.clock) # 0
        BY <2>1, <3>2, TerminalSays DEF Entities, TableOf
      <4>3. QED
        BY <1>2, <4>1, <4>2, Zenon
    <3>3. QED
      BY <3>1, <3>2
  <2>4. ASSUME NEW i \in 1..2, SetFreq(i)
        PROVE  ~stalled'
    BY <1>2, <2>1, <2>4, CaseOf, Zenon
  <2>5. ASSUME NEW i \in 1..2, Open(i)
        PROVE  ~stalled'
    <3>1. \A s \in About(i) : \A k \in DOMAIN s.eps : s.eps[k] \in Endpoints
      BY <2>1, AboutSays
    <3>2. configLeft <= 0
      BY <2>5 DEF Open
    <3>3. Volume(i) # {}
      BY <1>2, <3>2, VolumeFound
    <3>4. \A u \in Volume(i) : u.id \in Entities
      BY <2>1, KnownSays DEF Volume, Says, Entities
    <3>5. QED
      BY <1>2, <2>5, <3>1, <3>3, <3>4, Zenon DEF Open
  <2>6. \/ stalled' = stalled
        \/ \E i \in 1..2 : LearnFreqs(i) \/ SetFreq(i) \/ Open(i)
    BY <1>2, Zenon DEF ControlNext, ReadPiece, Stop, FbDone, ResetBus, ctlVars
  <2>7. QED
    BY <2>2, <2>3, <2>4, <2>5, <2>6, Zenon
<1>3. QED
  <2>1. ControlSpec => []ReadInv
    BY InitRead, StepRead, PTL DEF ControlSpec
  <2>2. QED
    BY <1>1, <1>2, <2>1, PTL DEF ControlSpec

-----------------------------------------------------------------------------
(***************************************************************************)
(* The device runs at frequencies its build offers, and their packets are  *)
(* exact.                                                                  *)
(***************************************************************************)

OfferInv ==
    /\ \A i \in 1..2 : offered[i] \subseteq Given(i) /\ chosen[i] \in Given(i) \cup {0}
    /\ cur_out_freq \in Given(1) /\ cur_inp_freq \in Given(2)
    /\ cur_feedback_rate \in 0..2^24 - 1
    /\ feedback_buffer \in [1..3 -> 0..255] /\ heardRate \in [1..3 -> 0..255]
    /\ stalled \in BOOLEAN /\ opened \subseteq 1..2

LEMMA GivenKept ==
    ASSUME fullSpeed' = fullSpeed, NEW i \in 1..2
    PROVE  (Given(i))' = Given(i)
BY DEF Given, Listed, InRange

LEMMA BytesTyped ==
    ASSUME NEW rate \in Nat
    PROVE  FS!FeedbackBytes(rate) \in [1..3 -> 0..255]
<1> DEFINE b == FS!FeedbackBytes(rate)
<1>1. /\ b = [i \in 1..3 |-> (rate \div 256^(i - 1)) % 256]
      /\ b[1] = (rate \div 256^0) % 256
      /\ b[2] = (rate \div 256^1) % 256
      /\ b[3] = (rate \div 256^2) % 256
  BY DEF FS!FeedbackBytes
<1>2. 256^0 = 1 /\ 256^1 = 256 /\ 256^2 = 65536
  OBVIOUS
<1>3. /\ (rate \div 1) % 256 \in 0..255 /\ (rate \div 256) % 256 \in 0..255
      /\ (rate \div 65536) % 256 \in 0..255
  OBVIOUS
<1>4. b[1] \in 0..255 /\ b[2] \in 0..255 /\ b[3] \in 0..255
  BY <1>1, <1>2, <1>3
<1>5. b = [i \in 1..3 |-> b[i]]
  BY <1>1
<1> HIDE DEF b
<1>6. \A i \in 1..3 : b[i] \in 0..255
  BY <1>4
<1>7. b \in [1..3 -> 0..255]
  BY <1>5, <1>6
<1>8. QED
  BY <1>7 DEF b

\* The feedback value of every frequency of whole kHz fits its 24 bits.
LEMMA RateTyped ==
    ASSUME NEW f \in InKHz
    PROVE  FS!FeedbackRate(f) \in 0..2^24 - 1
<1>1. 2^14 = 16384 /\ 2^24 = 16777216
  OBVIOUS
<1>2. f \in Nat /\ f <= 1023000
  BY DEF InKHz, MaxFreq
<1>3. f \div 1000 \in 0..1023
  BY <1>2
<1>4. FS!FeedbackRate(f) = (f \div 1000) * 16384
  BY <1>1 DEF FS!FeedbackRate
<1>5. QED
  BY <1>1, <1>3, <1>4

LEMMA InitOffer == ControlInit => OfferInv
<1> SUFFICES ASSUME ControlInit PROVE OfferInv
  OBVIOUS
<1>1. Freqs[1][2] \in Listed(1) /\ Freqs[2][2] \in Listed(2)
  BY DEF Listed
<1>2. ASSUME NEW i \in 1..2 PROVE Ranges[i].min \in InRange(i)
  <2>1. /\ Ranges[i].min \in Nat /\ Ranges[i].max \in Nat /\ Ranges[i].step \in Nat \ {0}
        /\ Ranges[i].min <= Ranges[i].max
    BY ControlAssumption
  <2>2. 0 \in 0..(Ranges[i].max - Ranges[i].min) \div Ranges[i].step
    BY <2>1
  <2>3. Ranges[i].min = Ranges[i].min + 0 * Ranges[i].step
    BY <2>1
  <2>4. QED
    BY <2>2, <2>3 DEF InRange
<1>3. cur_out_freq \in Given(1) /\ cur_inp_freq \in Given(2)
  BY <1>1, <1>2 DEF ControlInit, Given
<1>4. cur_feedback_rate \in 0..2^24 - 1
  <2>1. 2^14 = 16384 /\ 2^24 = 16777216
    OBVIOUS
  <2>2. QED
    BY <2>1 DEF ControlInit
<1>5. FS!FeedbackBytes(0) \in [1..3 -> 0..255]
  BY BytesTyped
<1>6. QED
  BY <1>3, <1>4, <1>5 DEF ControlInit, OfferInv

LEMMA StepOffer == ChosenInv /\ OfferInv /\ [ControlNext]_ctlVars => OfferInv'
<1> SUFFICES ASSUME ChosenInv, OfferInv, [ControlNext]_ctlVars PROVE OfferInv'
  OBVIOUS
<1> USE DEF OfferInv
<1>0. fullSpeed \in BOOLEAN /\ fullSpeed' = fullSpeed
  BY DEF ChosenInv, ControlNext, ctlVars, ReadPiece, LearnFreqs, SetFreq, Open, Stop, FbDone,
         ResetBus
<1>1. \A j \in 1..2 : (Given(j))' = Given(j)
  BY <1>0, GivenKept
<1>2. CASE ReadPiece \/ UNCHANGED ctlVars
  <2>1. UNCHANGED <<device, wishes, feedback, stalled>>
    BY <1>2 DEF ReadPiece, ctlVars
  <2>2. QED
    BY <1>1, <2>1 DEF device, wishes, feedback
<1>3. ASSUME NEW i \in 1..2, LearnFreqs(i) PROVE OfferInv'
  <2>1. offered' = offered \/ offered' = [offered EXCEPT ![i] = Given(i)]
    <3>1. CASE fullSpeed
      <4>1. PICK s \in About(i) : offered' = [offered EXCEPT ![i] = {s.freqs[1], s.freqs[2]}]
        BY <1>3, <3>1 DEF LearnFreqs
      <4>2. s.freqs = Freqs[i]
        BY <1>0, <3>1, AboutSays
      <4>3. QED
        BY <3>1, <4>1, <4>2, Zenon DEF Given, Listed
    <3>2. CASE ~fullSpeed
      <4>1. PICK t \in Terminal(i) :
               offered' = IF t.clock \in Entities /\ TableOf(t.clock) # 0
                          THEN [offered EXCEPT ![i] = InRange(TableOf(t.clock))] ELSE offered
        BY <1>3, <3>2 DEF LearnFreqs
      <4>2. TableOf(t.clock) = i
        BY <1>0, <3>2, TerminalSays DEF TableOf
      <4>3. QED
        BY <3>2, <4>1, <4>2, Zenon DEF Given
    <3>3. QED
      BY <3>1, <3>2
  <2>2. \A j \in 1..2 : offered'[j] \subseteq Given(j)
    BY <2>1 DEF ChosenInv
  <2>3. stalled' \in BOOLEAN
    BY <1>3, Zenon DEF LearnFreqs
  <2>4. UNCHANGED <<device, chosen, opened, feedback>>
    BY <1>3 DEF LearnFreqs
  <2>5. QED
    BY <1>1, <2>2, <2>3, <2>4 DEF device, feedback
<1>4. ASSUME NEW i \in 1..2, SetFreq(i) PROVE OfferInv'
  <2>1. PICK freq \in offered[i] : /\ i = 1 => SetOut(freq)
                                   /\ i = 2 => SetInp(freq)
    BY <1>0, <1>4, CaseOf
  <2>2. freq \in Given(i) /\ freq \in InKHz
    BY DEF ChosenInv
  <2>3. FS!FeedbackRate(freq) \in 0..2^24 - 1
    BY <2>2, RateTyped
  <2>4. cur_out_freq' \in Given(1) /\ cur_inp_freq' \in Given(2) /\ cur_feedback_rate' \in 0..2^24 - 1
    <3>1. CASE i = 1
      BY <2>1, <2>2, <2>3, <3>1 DEF SetOut
    <3>2. CASE i = 2
      BY <2>1, <2>2, <3>2 DEF SetInp
    <3>3. QED
      BY <3>1, <3>2
  <2>5. /\ UNCHANGED <<feedback_buffer, heardRate, offered, opened>>
        /\ \E f \in offered[i] : chosen' = [chosen EXCEPT ![i] = f]
    BY <1>4 DEF SetFreq
  <2>6. stalled' \in BOOLEAN
    BY <1>4, Zenon DEF SetFreq, Arrives
  <2>7. \A j \in 1..2 : chosen'[j] \in Given(j) \cup {0}
    BY <2>5 DEF ChosenInv
  <2>8. QED
    BY <1>1, <2>4, <2>5, <2>6, <2>7
<1>5. ASSUME NEW i \in 1..2, Open(i) \/ Stop(i) PROVE OfferInv'
  <2>1. UNCHANGED <<device, offered, chosen, feedback>>
    BY <1>5 DEF Open, Stop
  <2>2. stalled' \in BOOLEAN
    BY <1>5, Zenon DEF Open, Stop
  <2>3. opened' \subseteq 1..2
    BY <1>5 DEF Open, Stop
  <2>4. QED
    BY <1>1, <2>1, <2>2, <2>3 DEF device, feedback
<1>6. CASE FbDone
  <2>1. cur_feedback_rate \in Nat
    <3>1. 2^24 = 16777216
      OBVIOUS
    <3>2. QED
      BY <3>1
  <2>2. FS!FeedbackBytes(cur_feedback_rate) \in [1..3 -> 0..255]
    BY <2>1, BytesTyped
  <2>3. QED
    BY <1>1, <1>6, <2>2 DEF FbDone, wishes
<1>7. CASE ResetBus
  BY <1>1, <1>7 DEF ResetBus, device, feedback
<1>8. QED
  BY <1>2, <1>3, <1>4, <1>5, <1>6, <1>7 DEF ControlNext

LEMMA OfferCorrect == ControlSpec => []OfferInv
BY ChosenCorrect, InitOffer, StepOffer, PTL DEF ControlSpec

\* The variables keep their types.  Whatever a host sets, the device runs at a frequency
\* its own build offers, and its feedback value fits the 24 bits of the packet; a host
\* that follows the claimed lengths has never read past the configuration.
THEOREM ControlTypeCorrect == ControlSpec => []ControlTypeOK
<1>1. ControlSpec => []ReadInv
  BY InitRead, StepRead, PTL DEF ControlSpec
<1>2. ControlSpec => []FeedbackInv
  BY ChosenCorrect, InitFeedback, StepFeedback, PTL DEF ControlSpec
<1>3. ChosenInv /\ FeedbackInv /\ ReadInv /\ OfferInv => ControlTypeOK
  <2> SUFFICES ASSUME ChosenInv, FeedbackInv, ReadInv, OfferInv PROVE ControlTypeOK
    OBVIOUS
  <2>1. at \in 1..Len(Configuration) + 1
    BY ConfigurationLen DEF ReadInv
  <2>2. QED
    BY <2>1 DEF ControlTypeOK, ChosenInv, FeedbackInv, OfferInv
<1>4. QED
  BY <1>1, <1>2, <1>3, ChosenCorrect, OfferCorrect, PTL

LEMMA FrameIsNat == \A i \in 1..2 : Frame(i) \in Nat \ {0}
<1> SUFFICES ASSUME NEW i \in 1..2 PROVE Frame(i) \in Nat \ {0}
  OBVIOUS
<1>1. SampleBytes[i] \in Nat \ {0} /\ Channels[i] \in Nat \ {0}
  BY ControlAssumption
<1>2. QED
  BY <1>1 DEF Frame

\* Bytes of a packet, p of which go in a millisecond.
Bytes(f, frame, p) == ((f * frame) \div 1000) \div p

LEMMA PacketIs ==
    ASSUME fullSpeed \in BOOLEAN, NEW i \in 1..2, NEW f
    PROVE  /\ PacketsPerMs = IF fullSpeed THEN 1 ELSE 4
           /\ PacketBytes(i, f) = Bytes(f, Frame(i), PacketsPerMs)
<1>1. FS!PacketsPerMs = 1
  BY DEF FS!PacketsPerMs
<1>2. HS!PacketsPerMs = 4
  <2>1. 2^(2 - 1) = 2 /\ 8 \div 2 = 4
    OBVIOUS
  <2>2. QED
    BY <2>1 DEF HS!PacketsPerMs, HS!EP_INTERVAL
<1>3. PacketsPerMs = IF fullSpeed THEN 1 ELSE 4
  BY <1>1, <1>2 DEF PacketsPerMs
<1>4. CASE fullSpeed
  <2>1. PacketBytes(i, f) = FS!PacketBytes(f, Frame(i)) /\ PacketsPerMs = 1
    BY <1>3, <1>4 DEF PacketBytes
  <2>2. QED
    BY <1>1, <1>3, <2>1 DEF FS!PacketBytes, Bytes
<1>5. CASE ~fullSpeed
  <2>1. PacketBytes(i, f) = HS!PacketBytes(f, Frame(i)) /\ PacketsPerMs = 4
    BY <1>3, <1>5 DEF PacketBytes
  <2>2. QED
    BY <1>2, <1>3, <2>1 DEF HS!PacketBytes, Bytes
<1>6. QED
  BY <1>4, <1>5

\* A higher frequency never has the smaller packet.
LEMMA BytesGrow ==
    ASSUME NEW f \in Nat, NEW g \in Nat, f <= g, NEW frame \in Nat \ {0}, NEW p \in Nat \ {0}
    PROVE  Bytes(f, frame, p) \in Nat /\ Bytes(f, frame, p) <= Bytes(g, frame, p)
<1> DEFINE a == f * frame
           b == g * frame
           c == a \div 1000
           d == b \div 1000
<1>1. a \in Nat /\ b \in Nat /\ a <= b
  OBVIOUS
<1>2. c \in Nat /\ d \in Nat /\ c <= d
  <2> HIDE DEF a, b
  <2> QED
    BY <1>1
<1>3. c \div p \in Nat /\ c \div p <= d \div p
  <2> HIDE DEF c, d
  <2> QED
    BY <1>2
<1>4. QED
  BY <1>3 DEF Bytes

\* Each list and each range has a highest frequency.
LEMMA HighestGiven ==
    ASSUME NEW i \in 1..2
    PROVE  /\ \E f \in Listed(i) : \A g \in Listed(i) : g <= f
           /\ \E f \in InRange(i) : \A g \in InRange(i) : g <= f
<1>1. \E f \in Listed(i) : \A g \in Listed(i) : g <= f
  <2>1. /\ Freqs[i][1] <= Freqs[i][2] /\ Freqs[i][2] \in Nat
    <3>1. Freqs[i] \in Nat \X Nat /\ Freqs[i][1] <= Freqs[i][2]
      BY ControlAssumption
    <3>2. QED
      BY <3>1
  <2>2. Freqs[i][2] \in Listed(i) /\ \A g \in Listed(i) : g <= Freqs[i][2]
    BY <2>1 DEF Listed
  <2>3. QED
    BY <2>2
<1>2. \E f \in InRange(i) : \A g \in InRange(i) : g <= f
  <2> DEFINE lo == Ranges[i].min
             d == Ranges[i].step
             n == (Ranges[i].max - lo) \div d
  <2>1. lo \in Nat /\ d \in Nat \ {0} /\ n \in Nat
    <3>1. /\ lo \in Nat /\ Ranges[i].max \in Nat /\ d \in Nat \ {0} /\ lo <= Ranges[i].max
      BY ControlAssumption
    <3>2. QED
      BY <3>1
  <2>2. InRange(i) = {lo + k * d : k \in 0..n}
    BY DEF InRange
  <2> HIDE DEF lo, d, n
  <2>3. lo + n * d \in InRange(i)
    BY <2>1, <2>2
  <2>4. ASSUME NEW g \in InRange(i) PROVE g <= lo + n * d
    <3>1. PICK k \in 0..n : g = lo + k * d
      BY <2>2
    <3>2. k * d <= n * d
      BY <2>1
    <3>3. QED
      BY <2>1, <3>1, <3>2
  <2>5. QED
    BY <2>3, <2>4
<1>3. QED
  BY <1>1, <1>2

\* The packet of every frequency on offer fits the half buffer sized for the highest.
LEMMA PacketFits ==
    ASSUME fullSpeed \in BOOLEAN, NEW i \in 1..2, NEW f \in Given(i)
    PROVE  /\ PacketBytes(i, f) \in Nat /\ PacketSz(i) \in Nat
           /\ PacketBytes(i, f) <= PacketSz(i)
<1> DEFINE high == IF fullSpeed THEN FS!Highest(Listed(i)) ELSE HS!Highest(InRange(i))
<1>1. high \in Given(i) /\ \A g \in Given(i) : g <= high
  <2>1. FS!Highest(Listed(i)) \in Listed(i) /\ \A g \in Listed(i) : g <= FS!Highest(Listed(i))
    BY HighestGiven DEF FS!Highest
  <2>2. HS!Highest(InRange(i)) \in InRange(i) /\ \A g \in InRange(i) : g <= HS!Highest(InRange(i))
    BY HighestGiven DEF HS!Highest
  <2>3. QED
    BY <2>1, <2>2 DEF Given
<1>2. PacketSz(i) = PacketBytes(i, high)
  <2>1. CASE fullSpeed /\ i = 1
    BY <2>1 DEF PacketSz, PacketBytes, FS!AUDIO_OUT_PACKET_SZ
  <2>2. CASE fullSpeed /\ i = 2
    BY <2>2 DEF PacketSz, PacketBytes, FS!AUDIO_INP_PACKET_SZ
  <2>3. CASE ~fullSpeed /\ i = 1
    BY <2>3 DEF PacketSz, PacketBytes, HS!AUDIO_OUT_PACKET_SZ
  <2>4. CASE ~fullSpeed /\ i = 2
    BY <2>4 DEF PacketSz, PacketBytes, HS!AUDIO_INP_PACKET_SZ
  <2>5. QED
    BY <2>1, <2>2, <2>3, <2>4
<1> HIDE DEF high
<1>3. f \in Nat /\ high \in Nat /\ f <= high /\ high <= high
  BY <1>1, OfferedAreFreqs DEF Given, InKHz
<1>4. PacketsPerMs \in Nat \ {0}
  BY PacketIs
<1>5. Frame(i) \in Nat \ {0}
  BY FrameIsNat
<1>6. /\ PacketBytes(i, f) = Bytes(f, Frame(i), PacketsPerMs)
      /\ PacketBytes(i, high) = Bytes(high, Frame(i), PacketsPerMs)
  BY PacketIs
<1>7. Bytes(f, Frame(i), PacketsPerMs) \in Nat /\ Bytes(high, Frame(i), PacketsPerMs) \in Nat
  BY <1>3, <1>4, <1>5, BytesGrow
<1>8. Bytes(f, Frame(i), PacketsPerMs) <= Bytes(high, Frame(i), PacketsPerMs)
  BY <1>3, <1>4, <1>5, BytesGrow
<1>9. QED
  BY <1>2, <1>6, <1>7, <1>8

\* The frequencies of the high-speed build are multiples of 4 kHz, as the multiples of
\* 48 kHz in usb_descr.h are: its 4 packets in a millisecond share the samples evenly.
RangesEven == \A i \in 1..2 : Ranges[i].min % 4000 = 0 /\ Ranges[i].step % 4000 = 0

LEMMA RangesInFours ==
    ASSUME RangesEven, NEW i \in 1..2, NEW f \in InRange(i)
    PROVE  f % 4000 = 0
<1> DEFINE lo == Ranges[i].min
           d == Ranges[i].step
<1>1. lo \in Nat /\ d \in Nat /\ lo % 4000 = 0 /\ d % 4000 = 0
  BY ControlAssumption DEF RangesEven
<1>2. PICK k \in Nat : f = lo + k * d
  <2>1. /\ Ranges[i].max \in Nat /\ d \in Nat \ {0} /\ lo <= Ranges[i].max /\ lo \in Nat
    BY ControlAssumption
  <2>2. (Ranges[i].max - lo) \div d \in Nat
    BY <2>1
  <2>3. QED
    BY <2>2 DEF InRange
<1> HIDE DEF lo, d
<1>3. PICK a \in Nat, b \in Nat : lo = 4000 * a /\ d = 4000 * b
  <2>1. \A n \in Nat : n % 4000 = 0 => n = 4000 * (n \div 4000) /\ n \div 4000 \in Nat
    OBVIOUS
  <2>2. QED
    BY <1>1, <2>1
<1>4. k * b \in Nat /\ k * (4000 * b) = 4000 * (k * b)
  BY <1>2, <1>3
<1>5. f = 4000 * (a + k * b) /\ a + k * b \in Nat
  BY <1>2, <1>3, <1>4
<1>6. \A m \in Nat : (4000 * m) % 4000 = 0
  OBVIOUS
<1>7. QED
  BY <1>5, <1>6

\* A frequency that is a multiple of 1000 p has whole packets.
LEMMA BytesExact ==
    ASSUME NEW n \in Nat, NEW frame \in Nat, NEW p \in {1, 4}
    PROVE  Bytes(1000 * (p * n), frame, p) * p * 1000 = 1000 * (p * n) * frame
<1> DEFINE m == n * frame
<1>1. m \in Nat
  OBVIOUS
<1>2. (1000 * (p * n)) * frame = 1000 * (p * m)
  OBVIOUS
<1> HIDE DEF m
<1>3. (1000 * (p * m)) \div 1000 = p * m
  BY <1>1
<1>4. (p * m) \div p = m
  BY <1>1
<1>5. Bytes(1000 * (p * n), frame, p) = m
  BY <1>2, <1>3, <1>4 DEF Bytes
<1>6. QED
  BY <1>1, <1>2, <1>5

LEMMA PacketExact ==
    ASSUME RangesEven, fullSpeed \in BOOLEAN, NEW i \in 1..2, NEW f \in Given(i)
    PROVE  PacketBytes(i, f) * PacketsPerMs * 1000 = f * Frame(i)
<1> DEFINE p == PacketsPerMs
<1>1. p \in {1, 4} /\ p = IF fullSpeed THEN 1 ELSE 4
  BY PacketIs
<1>2. PICK n \in Nat : f = 1000 * (p * n)
  <2>1. f \in Nat /\ f % 1000 = 0
    BY OfferedAreFreqs DEF Given, InKHz
  <2>2. ~fullSpeed => f % 4000 = 0
    BY RangesInFours DEF Given
  <2>3. \A g \in Nat : g % 1000 = 0 => g = 1000 * (g \div 1000) /\ g \div 1000 \in Nat
    OBVIOUS
  <2>4. \A g \in Nat : g % 4000 = 0 => g = 4000 * (g \div 4000) /\ g \div 4000 \in Nat
    OBVIOUS
  <2> HIDE DEF p
  <2>5. CASE fullSpeed
    <3>1. p = 1
      BY <1>1, <2>5
    <3>2. f = 1000 * (p * (f \div 1000)) /\ f \div 1000 \in Nat
      BY <2>1, <2>3, <3>1
    <3>3. QED
      BY <3>2
  <2>6. CASE ~fullSpeed
    <3>1. p = 4
      BY <1>1, <2>6
    <3>2. f = 1000 * (p * (f \div 4000)) /\ f \div 4000 \in Nat
      BY <2>1, <2>2, <2>4, <2>6, <3>1
    <3>3. QED
      BY <3>2
  <2>7. QED
    BY <2>5, <2>6
<1>3. PacketBytes(i, f) = Bytes(f, Frame(i), p)
  BY PacketIs
<1>4. Frame(i) \in Nat
  BY FrameIsNat
<1> HIDE DEF p
<1>5. Bytes(f, Frame(i), p) * p * 1000 = f * Frame(i)
  BY <1>1, <1>2, <1>4, BytesExact
<1>6. QED
  BY <1>3, <1>5 DEF p

\* In both builds, whatever the channels and sample sizes: the packet of each frequency
\* the host is offered fits the endpoint and the half buffer, no packet the descriptor
\* of the speaker allows exceeds the half buffer, and a second of packets is a second
\* of samples, in spite of the truncating divisions.
THEOREM PacketsCorrect == RangesEven => (ControlSpec => []PacketsExact)
<1> SUFFICES ASSUME RangesEven PROVE ControlSpec => []PacketsExact
  OBVIOUS
<1>1. ChosenInv /\ OfferInv => PacketsExact
  <2> SUFFICES ASSUME ChosenInv, OfferInv, NEW i \in 1..2, NEW s \in About(i), NEW f \in offered[i]
               PROVE  /\ PacketBytes(i, f) <= s.max /\ PacketBytes(i, f) <= PacketSz(i)
                      /\ i = 1 => s.max <= PacketSz(i)
                      /\ PacketBytes(i, f) * PacketsPerMs * 1000 = f * Frame(i)
    BY DEF PacketsExact
  <2>1. fullSpeed \in BOOLEAN /\ f \in Given(i)
    BY DEF ChosenInv, OfferInv
  <2>2. s.max = IF fullSpeed \/ i = 1 THEN PacketSz(i) ELSE PacketSz(2) + Frame(2)
    BY <2>1, AboutSays
  <2>3. /\ PacketBytes(i, f) \in Nat /\ PacketSz(i) \in Nat /\ PacketBytes(i, f) <= PacketSz(i)
    BY <2>1, PacketFits
  <2>4. Frame(2) \in Nat
    BY FrameIsNat
  <2>5. PacketBytes(i, f) <= s.max /\ (i = 1 => s.max <= PacketSz(i))
    BY <2>2, <2>3, <2>4
  <2>6. QED
    BY <2>1, <2>3, <2>5, PacketExact
<1>2. QED
  BY <1>1, ChosenCorrect, OfferCorrect, PTL
=============================================================================
