---------------------------- MODULE AudioControl -----------------------------
(***************************************************************************)
(* audio_v1.c and audio_v2.c: what the host learns from the descriptors,   *)
(* and whether the requests it addresses by what it has learnt reach the   *)
(* right variable.  The descriptor, the sizes it claims, the entities and  *)
(* endpoints audio_init registers and the switch statements of the         *)
(* handlers are written down separately in the code and have to agree.     *)
(*                                                                         *)
(* Interface 1 is the speaker and 2 the microphone; what there is of both  *)
(* is a pair.                                                              *)
(***************************************************************************)
EXTENDS Integers, Sequences

CONSTANTS
    Freqs,          \* UAC1: AUDIO_x_FREQ0 and FREQ1 of both
    Ranges,         \* UAC2: AUDIO_x_FREQ_MIN, MAX and STEP of both
    Channels,       \* AUDIO_x_CHANNEL_NUM of both
    SampleBytes     \* AUDIO_x_FRAME_SIZE_BYTE of both

\* The feedback value has 10 bits before its point and no fraction of a kHz.
MaxFreq   == 1023 * 1000
IsFreq(f) == f \in 1..MaxFreq /\ f % 1000 = 0

ASSUME ControlAssumption ==
    /\ Freqs \in [1..2 -> Nat \X Nat]
    /\ \A i \in 1..2 : IsFreq(Freqs[i][1]) /\ IsFreq(Freqs[i][2]) /\ Freqs[i][1] <= Freqs[i][2]
    /\ Ranges \in [1..2 -> [min : Nat, max : Nat, step : Nat \ {0}]]
    /\ \A i \in 1..2 : /\ Ranges[i].min <= Ranges[i].max /\ Ranges[i].max <= MaxFreq
                       /\ IsFreq(Ranges[i].min) /\ Ranges[i].step % 1000 = 0
    /\ Channels \in [1..2 -> 1..8] /\ SampleBytes \in [1..2 -> Nat \ {0}]

VARIABLES
    fullSpeed,      \* the build: CONFIG_USB_FS or CONFIG_USB_HS
    cur_out_freq, cur_inp_freq, cur_feedback_rate, feedback_buffer,
    at,             \* next piece of the descriptor the host reads
    configLeft,     \* bytes it still expects of the configuration
    controlLeft,    \* and of the description of the control interface
    offered,        \* frequencies it has been told of, for both interfaces
    chosen,         \* frequency it has set, 0 none, for both
    opened,         \* interfaces it has switched to their streaming setting
    heardRate,      \* feedback packet it got last
    since,          \* feedback packets since it set the speaker's frequency, up to 2
    stalled         \* it has made a request nothing is registered for

device   == <<cur_out_freq, cur_inp_freq, cur_feedback_rate, feedback_buffer>>
reading  == <<at, configLeft, controlLeft>>
wishes   == <<offered, chosen, opened>>
feedback == <<heardRate, since>>
ctlVars  == <<fullSpeed, device, reading, wishes, feedback, stalled>>

Frame(i) == SampleBytes[i] * Channels[i]

\* Frequencies of interface i: the list in the descriptor, or the range in the table.
Listed(i)  == {Freqs[i][1], Freqs[i][2]}
InRange(i) == {Ranges[i].min + k * Ranges[i].step :
                  k \in 0..(Ranges[i].max - Ranges[i].min) \div Ranges[i].step}

\* Frequencies the build offers for interface i.
Given(i) == IF fullSpeed THEN Listed(i) ELSE InRange(i)

FS == INSTANCE UsbRates WITH FullSpeed <- TRUE, OutFreqs <- Listed(1), InpFreqs <- Listed(2),
                             OutFrame <- Frame(1), InpFrame <- Frame(2)
HS == INSTANCE UsbRates WITH FullSpeed <- FALSE, OutFreqs <- InRange(1), InpFreqs <- InRange(2),
                             OutFrame <- Frame(1), InpFrame <- Frame(2)

PacketBytes(i, f) == IF fullSpeed THEN FS!PacketBytes(f, Frame(i)) ELSE HS!PacketBytes(f, Frame(i))
PacketsPerMs      == IF fullSpeed THEN FS!PacketsPerMs ELSE HS!PacketsPerMs

\* AUDIO_OUT_PACKET_SZ and AUDIO_INP_PACKET_SZ
PacketSz(i) ==
    IF fullSpeed THEN IF i = 1 THEN FS!AUDIO_OUT_PACKET_SZ ELSE FS!AUDIO_INP_PACKET_SZ
                 ELSE IF i = 1 THEN HS!AUDIO_OUT_PACKET_SZ ELSE HS!AUDIO_INP_PACKET_SZ
-----------------------------------------------------------------------------
AUDIO_OUT_EP == 2
AUDIO_INP_EP == 129
AUDIO_OFB_EP == 131

AC_CLOCK_OUT_SOURCE_ID == 1
AC_INP_TERMINAL_OUT_ID == 2
AC_FEATURE_OUT_UNIT_ID == 3
AC_OUT_TERMINAL_OUT_ID == 4
AC_CLOCK_INP_SOURCE_ID == 5
AC_INP_TERMINAL_INP_ID == 6
AC_FEATURE_INP_UNIT_ID == 7
AC_OUT_TERMINAL_INP_ID == 8

\* Bytes the descriptor macros of the USB stack emit, by what they describe.
Before   == 17      \* association and interface descriptor before the control header
Header   == IF fullSpeed THEN 10 ELSE 9
ClockSz  == 8
InputSz  == IF fullSpeed THEN 12 ELSE 17
OutputSz == IF fullSpeed THEN 9 ELSE 12
FeatureSz(controls) == IF fullSpeed THEN 7 + controls ELSE 6 + 4 * controls
StreamSz(freqs, fb) == IF fullSpeed THEN 49 + 3 * freqs + (IF fb THEN 9 ELSE 0) ELSE 55

\* AUDIO_AC_SIZ, as each build writes it.
AUDIO_AC_SIZ ==
    IF fullSpeed
    THEN Header + InputSz + FeatureSz(2 + 1) + OutputSz + InputSz + FeatureSz(2 + 1) + OutputSz
    ELSE Header + ClockSz + InputSz + FeatureSz(Channels[1] + 1) + OutputSz
                + ClockSz + InputSz + FeatureSz(Channels[2] + 1) + OutputSz

\* Fault: the length of the speaker's interface without its feedback endpoint.
SizeWithoutFeedback == 9 + Before + AUDIO_AC_SIZ + StreamSz(2, FALSE) + StreamSz(2, FALSE)

\* USB_AUDIO_CONFIG_DESC_SIZ; AUDIO_OFB_EP is defined in the full-speed build.
USB_AUDIO_CONFIG_DESC_SIZ == 9 + Before + AUDIO_AC_SIZ + StreamSz(2, TRUE) + StreamSz(2, FALSE)

\* Controls that INPUT_CTRL and OUTPUT_CTRL list for each number of channels.
CTRL(channels) == <<2, 3, 4, 5, 6, 7, 8, 9>>[channels]

Control(kind, size)        == [kind |-> kind, size |-> size]
Clock(id)                  == [kind |-> "clock", size |-> ClockSz, id |-> id]
Input(id, clock)           == [kind |-> "terminal", size |-> InputSz, id |-> id, source |-> 0,
                               clock |-> clock]
Output(id, source, clock)  == [kind |-> "terminal", size |-> OutputSz, id |-> id,
                               source |-> source, clock |-> clock]
Feature(id, source, controls) == [kind |-> "feature", size |-> FeatureSz(controls), id |-> id,
                                  source |-> source]
Stream(i, link, eps, max, freqs) ==
    [kind |-> "stream", size |-> StreamSz(Len(freqs), Len(eps) = 2), intf |-> i, link |-> link,
     eps |-> eps, max |-> max, freqs |-> freqs]

\* The configuration of each build.
ConfigurationV1 ==
    <<Control("config", 9), Control("control", Before + Header),
      Input(AC_INP_TERMINAL_INP_ID, 0),
      Feature(AC_FEATURE_INP_UNIT_ID, AC_INP_TERMINAL_INP_ID, 3),
      Output(AC_OUT_TERMINAL_INP_ID, AC_FEATURE_INP_UNIT_ID, 0),
      Input(AC_INP_TERMINAL_OUT_ID, 0),
      Feature(AC_FEATURE_OUT_UNIT_ID, AC_INP_TERMINAL_OUT_ID, 3),
      Output(AC_OUT_TERMINAL_OUT_ID, AC_FEATURE_OUT_UNIT_ID, 0),
      Stream(1, AC_INP_TERMINAL_OUT_ID, <<AUDIO_OUT_EP, AUDIO_OFB_EP>>, PacketSz(1), Freqs[1]),
      Stream(2, AC_OUT_TERMINAL_INP_ID, <<AUDIO_INP_EP>>, PacketSz(2), Freqs[2])>>

ConfigurationV2 ==
    <<Control("config", 9), Control("control", Before + Header),
      Clock(AC_CLOCK_OUT_SOURCE_ID),
      Input(AC_INP_TERMINAL_OUT_ID, AC_CLOCK_OUT_SOURCE_ID),
      Feature(AC_FEATURE_OUT_UNIT_ID, AC_INP_TERMINAL_OUT_ID, CTRL(Channels[1])),
      Output(AC_OUT_TERMINAL_OUT_ID, AC_FEATURE_OUT_UNIT_ID, AC_CLOCK_OUT_SOURCE_ID),
      Clock(AC_CLOCK_INP_SOURCE_ID),
      Input(AC_INP_TERMINAL_INP_ID, AC_CLOCK_INP_SOURCE_ID),
      Feature(AC_FEATURE_INP_UNIT_ID, AC_INP_TERMINAL_INP_ID, CTRL(Channels[2])),
      Output(AC_OUT_TERMINAL_INP_ID, AC_FEATURE_INP_UNIT_ID, AC_CLOCK_INP_SOURCE_ID),
      Stream(1, AC_INP_TERMINAL_OUT_ID, <<AUDIO_OUT_EP>>, PacketSz(1), <<>>),
      Stream(2, AC_OUT_TERMINAL_INP_ID, <<AUDIO_INP_EP>>, PacketSz(2) + Frame(2), <<>>)>>

Configuration == IF fullSpeed THEN ConfigurationV1 ELSE ConfigurationV2

\* What follows it in the array: the strings, and the device qualifier of UAC2.
Strings == <<Control("string", 4), Control("string", 20), Control("string", 40),
             Control("string", 22)>>
               \o IF fullSpeed THEN <<>> ELSE <<Control("qualifier", 10)>>

audio_descriptor == Configuration \o Strings

\* Fault: the microphone's clock is not registered.
OneClock == {AC_FEATURE_OUT_UNIT_ID, AC_FEATURE_INP_UNIT_ID, AC_CLOCK_OUT_SOURCE_ID}

\* The entities audio_init registers, and the endpoints it gives a callback.
Entities ==
    {AC_FEATURE_OUT_UNIT_ID, AC_FEATURE_INP_UNIT_ID}
        \cup (IF fullSpeed THEN {} ELSE {AC_CLOCK_OUT_SOURCE_ID, AC_CLOCK_INP_SOURCE_ID})
Endpoints == {AUDIO_INP_EP, AUDIO_OUT_EP} \cup (IF fullSpeed THEN {AUDIO_OFB_EP} ELSE {})
-----------------------------------------------------------------------------
ControlInit ==
    /\ fullSpeed \in BOOLEAN
    /\ cur_out_freq = IF fullSpeed THEN Freqs[1][2] ELSE Ranges[1].min
    /\ cur_inp_freq = IF fullSpeed THEN Freqs[2][2] ELSE Ranges[2].min
    /\ cur_feedback_rate = 48 * 2^14
    /\ feedback_buffer = FS!FeedbackBytes(0) /\ heardRate = FS!FeedbackBytes(0)
    /\ at = 1 /\ configLeft = USB_AUDIO_CONFIG_DESC_SIZ /\ controlLeft = 0
    /\ offered = [i \in 1..2 |-> {}] /\ chosen = [i \in 1..2 |-> 0] /\ opened = {}
    /\ since = 0 /\ stalled = FALSE

\* The host reads the configuration piece by piece, as far as it claims to go.
ReadPiece ==
    LET piece == audio_descriptor[at] IN
    /\ configLeft > 0
    /\ at' = at + 1
    /\ configLeft' = configLeft - piece.size
    /\ controlLeft' = IF piece.kind = "control" THEN AUDIO_AC_SIZ - Header
                      ELSE IF piece.kind \in {"clock", "terminal", "feature"}
                      THEN controlLeft - piece.size ELSE controlLeft
    /\ UNCHANGED <<fullSpeed, device, wishes, feedback, stalled>>

\* What the host makes of what it has read: the description of an interface, the
\* terminal it is linked to, the feature unit next to that.
Known       == {audio_descriptor[k] : k \in {j \in DOMAIN audio_descriptor : j < at}}
About(i)    == {s \in Known : s.kind = "stream" /\ s.intf = i}
Terminal(i) == {t \in Known : t.kind = "terminal" /\ \E s \in About(i) : t.id = s.link}
Volume(i)   == {u \in Known : u.kind = "feature" /\ \E t \in Terminal(i) :
                                  u.source = t.id \/ t.source = u.id}

\* Fault: the tables are taken for each other.
TablesSwapped(entity) ==
    IF entity = AC_CLOCK_OUT_SOURCE_ID THEN 2
    ELSE IF entity = AC_CLOCK_INP_SOURCE_ID THEN 1 ELSE 0

\* usbd_audio_get_sampling_freq_table: the interface whose table it returns, 0 none.
TableOf(entity) ==
    IF entity = AC_CLOCK_OUT_SOURCE_ID THEN 1
    ELSE IF entity = AC_CLOCK_INP_SOURCE_ID THEN 2 ELSE 0

\* UAC2: the host asks the clock of the interface for its frequencies.  UAC1: it has
\* them from the description of the interface.
LearnFreqs(i) ==
    /\ configLeft <= 0
    /\ IF fullSpeed
       THEN /\ \E s \in About(i) : offered' = [offered EXCEPT ![i] = {s.freqs[1], s.freqs[2]}]
            /\ UNCHANGED stalled
       ELSE \E t \in Terminal(i) :
               LET table == TableOf(t.clock)
                   found == t.clock \in Entities /\ table # 0 IN
               /\ offered' = IF found THEN [offered EXCEPT ![i] = InRange(table)] ELSE offered
               /\ stalled' = (stalled \/ ~found)
    /\ UNCHANGED <<fullSpeed, device, reading, chosen, opened, feedback>>

\* Fault: the clock sources are taken for each other.
ClocksSwapped(entity_id, ep_ch) ==
    IF fullSpeed THEN IF ep_ch = AUDIO_OUT_EP THEN 1 ELSE IF ep_ch = AUDIO_INP_EP THEN 2 ELSE 0
    ELSE IF entity_id = AC_CLOCK_OUT_SOURCE_ID THEN 2
    ELSE IF entity_id = AC_CLOCK_INP_SOURCE_ID THEN 1 ELSE 0

\* The case usbd_audio_set_sampling_freq takes, by the interface it is about.
Case(entity_id, ep_ch) ==
    IF fullSpeed THEN IF ep_ch = AUDIO_OUT_EP THEN 1 ELSE IF ep_ch = AUDIO_INP_EP THEN 2 ELSE 0
    ELSE IF entity_id = AC_CLOCK_OUT_SOURCE_ID THEN 1
    ELSE IF entity_id = AC_CLOCK_INP_SOURCE_ID THEN 2 ELSE 0

\* Fault: set_feedback_value is not called.
SetOutNoFeedback(freq) ==
    /\ cur_out_freq' = freq /\ UNCHANGED <<cur_feedback_rate, cur_inp_freq>>

\* usbd_audio_set_sampling_freq, the case of the speaker, and that of the microphone
SetOut(freq) ==
    /\ cur_out_freq' = freq /\ cur_feedback_rate' = FS!FeedbackRate(freq)
    /\ UNCHANGED cur_inp_freq
SetInp(freq) == cur_inp_freq' = freq /\ UNCHANGED <<cur_out_freq, cur_feedback_rate>>

\* A control request that arrives at an entity (UAC2) or an endpoint (UAC1).
Arrives(entity_id, ep_ch, freq) ==
    /\ \/ Case(entity_id, ep_ch) = 1 /\ SetOut(freq)
       \/ Case(entity_id, ep_ch) = 2 /\ SetInp(freq)
       \/ Case(entity_id, ep_ch) = 0 /\ UNCHANGED <<cur_out_freq, cur_inp_freq, cur_feedback_rate>>
    /\ stalled' = (stalled \/ (~fullSpeed /\ entity_id \notin Entities))

\* The host sets the frequency of an interface to one it was offered.
SetFreq(i) ==
    \E freq \in offered[i] :
        /\ \/ fullSpeed /\ \E s \in About(i) : Arrives(0, s.eps[1], freq)
           \/ ~fullSpeed /\ \E t \in Terminal(i) : Arrives(t.clock, 0, freq)
        /\ chosen' = [chosen EXCEPT ![i] = freq]
        /\ since' = IF i = 1 THEN 0 ELSE since
        /\ UNCHANGED <<fullSpeed, feedback_buffer, reading, offered, opened, heardRate>>

\* The host starts a stream, before or after it sets its frequency, and sets its
\* volume.
Open(i) ==
    /\ configLeft <= 0 /\ i \notin opened
    /\ opened' = opened \cup {i}
    /\ stalled' = \/ stalled
                  \/ \E s \in About(i) : \E k \in DOMAIN s.eps : s.eps[k] \notin Endpoints
                  \/ Volume(i) = {}
                  \/ \E u \in Volume(i) : u.id \notin Entities
    /\ UNCHANGED <<fullSpeed, device, reading, offered, chosen, feedback>>

Stop(i) ==
    /\ i \in opened
    /\ opened' = opened \ {i}
    /\ UNCHANGED <<fullSpeed, device, reading, offered, chosen, feedback, stalled>>

\* usbd_audio_in_fb_callback: a packet has gone to the host, the next one is armed.
FbDone ==
    /\ fullSpeed /\ 1 \in opened
    /\ heardRate' = feedback_buffer
    /\ feedback_buffer' = FS!FeedbackBytes(cur_feedback_rate)
    /\ since' = IF since < 2 THEN since + 1 ELSE 2
    /\ UNCHANGED <<fullSpeed, cur_out_freq, cur_inp_freq, cur_feedback_rate, reading, wishes,
                   stalled>>

\* The host resets the bus and starts anew; the device keeps its variables.
ResetBus ==
    /\ at' = 1 /\ configLeft' = USB_AUDIO_CONFIG_DESC_SIZ /\ controlLeft' = 0
    /\ offered' = [i \in 1..2 |-> {}] /\ chosen' = [i \in 1..2 |-> 0] /\ opened' = {}
    /\ UNCHANGED <<fullSpeed, device, feedback, stalled>>

ControlNext ==
    \/ ReadPiece
    \/ \E i \in 1..2 : LearnFreqs(i) \/ SetFreq(i) \/ Open(i) \/ Stop(i)
    \/ FbDone \/ ResetBus

ControlSpec == ControlInit /\ [][ControlNext]_ctlVars
-----------------------------------------------------------------------------
\* The types of the variables: in particular, the device runs at frequencies of its own
\* build and no others, the feedback value fits its 24 bits, and the next piece to read is
\* never beyond the one that follows the configuration.
ControlTypeOK ==
    /\ fullSpeed \in BOOLEAN /\ stalled \in BOOLEAN
    /\ cur_out_freq \in Given(1) /\ cur_inp_freq \in Given(2)
    /\ cur_feedback_rate \in 0..2^24 - 1
    /\ feedback_buffer \in [1..3 -> 0..255] /\ heardRate \in [1..3 -> 0..255]
    /\ at \in 1..Len(Configuration) + 1
    /\ \A i \in 1..2 : offered[i] \subseteq Given(i) /\ chosen[i] \in Given(i) \cup {0}
    /\ opened \subseteq 1..2 /\ since \in 0..2

\* The claimed lengths end where the described things do: a host that follows them
\* reads every piece of the configuration and nothing behind it, and is through with
\* the control interface when the first streaming interface comes.
EnumerationExact ==
    /\ configLeft >= 0
    /\ configLeft = 0 => audio_descriptor[at].kind = "string"
    /\ \A p \in Known : p.kind # "string" /\ (p.kind = "stream" => controlLeft = 0)

\* Every clock, feature unit and endpoint the descriptors lead a host to is
\* registered, and every clock has a table: no request of a host that follows them
\* is refused.
RequestsServed == ~stalled

\* The frequency a host sets by the way the descriptors show it reaches the variable
\* of that interface and no other one, also when it starts anew after a reset.
RatesAgree ==
    /\ chosen[1] # 0 => cur_out_freq = chosen[1]
    /\ chosen[2] # 0 => cur_inp_freq = chosen[2]

\* The value of a feedback packet, in samples per millisecond, times 2^14.
RateOf(bytes) == bytes[1] + 256 * bytes[2] + 65536 * bytes[3]

\* From the second feedback packet after the host has set the frequency of the
\* speaker, feedback asks for that frequency.
FeedbackFollows == chosen[1] # 0 /\ since = 2 => RateOf(heardRate) * 1000 = chosen[1] * 2^14

\* At every frequency the host is offered, the packets fit their endpoint and half
\* buffer, and so many of them in a second are the bytes of a second.
PacketsExact ==
    \A i \in 1..2 : \A s \in About(i) : \A f \in offered[i] :
        /\ PacketBytes(i, f) <= s.max /\ PacketBytes(i, f) <= PacketSz(i)
        /\ i = 1 => s.max <= PacketSz(i)
        /\ PacketBytes(i, f) * PacketsPerMs * 1000 = f * Frame(i)
=============================================================================
