----------------------------- MODULE AudioTask ------------------------------
(***************************************************************************)
(* audio_task.c: the main program's polling loop and the USB callbacks     *)
(* that interrupt it.  Every access of the loop to a volatile object is a  *)
(* step of its own and a callback runs between any two of them; a callback *)
(* itself is one step, because nothing preempts the USB interrupt.         *)
(*                                                                         *)
(* A byte is the position at which the host sent it, 1 for the first byte  *)
(* of the speaker stream; 0 is silence.                                    *)
(***************************************************************************)
EXTENDS QueueOps, UsbRates

CONSTANTS
    Interfaces,     \* interfaces whose alternate setting the host changes
    EarlyOpen,      \* TRUE: the host may open one before audio_test has run
    MaxPos,         \* bound: bytes the host sends
    MaxCloses       \* bound: settings of an interface that stop one, and bus resets

ASSUME TaskAssumption ==
    /\ Interfaces \subseteq 0..2
    /\ EarlyOpen \in BOOLEAN
    /\ MaxPos \in Nat /\ MaxCloses \in Nat

VARIABLES
    configured,     \* usb_device_is_configured()
    streams,        \* interfaces the host has switched to a streaming setting
    rxArmed,        \* transfer started on AUDIO_OUT_EP: half of read_bf and length
    txArmed,        \* transfer started on AUDIO_INP_EP: half of write_bf and length
    open_flag, ep_busy_flag,
    cur_out_freq, cur_inp_freq, cur_feedback_rate, feedback_buffer,
    read_bf, write_bf,      \* dbl_buffer; halfsize 0 while its pointer is NULL
    rxMem, txMem,           \* the two halves of read_buffer and write_buffer
    out_rb,                 \* bytes queued in the ring buffer
    pc,                     \* where the main program is
    half, len,              \* its locals data and len (read) or need_len (write)
    arg,                    \* write_bf.count as the first argument of memset has it
    reg,                    \* register with ep_busy_flag between load and store
    sent,                   \* bytes the host has sent
    closes                  \* times the host has stopped a stream or reset the bus

usb   == <<configured, streams, rxArmed, txArmed>>
rates == <<cur_out_freq, cur_inp_freq, cur_feedback_rate, feedback_buffer>>
bufs  == <<read_bf, write_bf>>
mem   == <<rxMem, txMem, out_rb>>
main  == <<pc, half, len, arg, reg>>
host  == <<sent, closes>>
vars  == <<usb, open_flag, ep_busy_flag, rates, bufs, mem, main, host>>

None == [half |-> 2, len |-> 0]     \* no transfer is started

\* Flags of the speaker interface: the feedback endpoint is full speed only.
Speaker == IF FullSpeed THEN {"RX", "FB"} ELSE {"RX"}
Mic     == {"TX"}
Flags   == Speaker \cup Mic

Halves(size) == [0..1 -> [1..size -> 0..MaxPos]]

\* Fault: the half in use is taken for the other one.
OtherIsSame(bf) == bf.buffer_pos

\* The half selected by "buffer_pos ? 0 : halfsize": the one not in use.
Other(bf) == 1 - bf.buffer_pos

\* Fault: "buffer_pos++" for "buffer_pos ^= 1".
FlipIncrements(bf) == [bf EXCEPT !.buffer_pos = @ + 1]

\* "buffer_pos ^= 1": select the next half.
Flip(bf) == [bf EXCEPT !.buffer_pos = 1 - @]

\* Fault: the half in use is not reset.
ResetKeepsPos(bf) == [bf EXCEPT !.count = 0]

dbl_buffer_reset(bf) == [halfsize |-> bf.halfsize, buffer_pos |-> 0, count |-> 0]

Boot == {"wait", "ringInit", "wrPtr", "wrSize", "wrPos", "wrCount",
         "rdPtr", "rdSize", "rdPos", "rdCount"}

Init ==
    /\ configured = FALSE /\ streams = {}
    /\ rxArmed = None /\ txArmed = None
    /\ open_flag = {} /\ ep_busy_flag = {}
    /\ cur_out_freq = IF FullSpeed THEN Highest(OutFreqs) ELSE Lowest(OutFreqs)
    /\ cur_inp_freq = IF FullSpeed THEN Highest(InpFreqs) ELSE Lowest(InpFreqs)
    /\ cur_feedback_rate = FeedbackRate(Lowest(OutFreqs))
    /\ feedback_buffer = FeedbackBytes(0)
    /\ read_bf = [halfsize |-> 0, buffer_pos |-> 0, count |-> 0]
    /\ write_bf = [halfsize |-> 0, buffer_pos |-> 0, count |-> 0]
    /\ rxMem = [h \in 0..1 |-> [i \in 1..AUDIO_OUT_PACKET_SZ |-> 0]]
    /\ txMem = [h \in 0..1 |-> [i \in 1..AUDIO_INP_PACKET_SZ |-> 0]]
    /\ out_rb = <<>>
    /\ pc = "wait" /\ half = 0 /\ len = 0 /\ arg = 0 /\ reg = {}
    /\ sent = 0 /\ closes = 0
-----------------------------------------------------------------------------
(***************************************************************************)
(* Callbacks of the USB interrupt.                                         *)
(***************************************************************************)

\* usbd_configure_done_callback: the stack is configured, the callback only logs.
Configure ==
    /\ ~configured
    /\ configured' = TRUE
    /\ UNCHANGED <<streams, rxArmed, txArmed, open_flag, ep_busy_flag, rates,
                   bufs, mem, main, host>>

\* A host selects the streaming setting of an interface that has it not.
MayOpen(intf) ==
    /\ configured /\ (EarlyOpen \/ pc \notin Boot)
    /\ intf \in Interfaces \ streams

\* usbd_audio_open(1)
OpenSpeaker ==
    /\ MayOpen(1)
    /\ streams' = streams \cup {1}
    /\ open_flag' = open_flag \cup Speaker
    /\ ep_busy_flag' = ep_busy_flag \cup Speaker
    /\ read_bf' = dbl_buffer_reset(read_bf)
    /\ rxArmed' = [half |-> 0, len |-> read_bf.halfsize]
    /\ UNCHANGED <<configured, txArmed, rates, write_bf, mem, main, host>>

\* usbd_audio_open(2)
OpenMic ==
    /\ MayOpen(2)
    /\ streams' = streams \cup {2}
    /\ open_flag' = open_flag \cup Mic
    /\ write_bf' = dbl_buffer_reset(write_bf)
    /\ UNCHANGED <<configured, rxArmed, txArmed, ep_busy_flag, rates, read_bf, mem, main, host>>

\* usbd_audio_close(intf): any interface but 1 is taken for the microphone, so a
\* setting of the control interface 0 stops it too.  The stack closes the endpoints
\* of the interface, so its transfer is gone.
Close(intf) ==
    LET flags == IF intf = 1 THEN Speaker ELSE Mic IN
    /\ configured
    /\ intf \in streams \cup {0} => closes < MaxCloses
    /\ closes' = IF intf \in streams \cup {0} THEN closes + 1 ELSE closes
    /\ streams' = streams \ {intf}
    /\ open_flag' = open_flag \ flags
    /\ ep_busy_flag' = ep_busy_flag \ flags
    /\ rxArmed' = IF intf = 1 THEN None ELSE rxArmed
    /\ txArmed' = IF intf = 2 THEN None ELSE txArmed
    /\ UNCHANGED <<configured, rates, bufs, mem, main, sent>>

\* The host resets the bus.  The stack forgets the configuration and the transfers;
\* it calls none of the callbacks, and the loop goes on with the flags it has.
BusReset ==
    /\ configured /\ closes < MaxCloses
    /\ closes' = closes + 1
    /\ configured' = FALSE /\ streams' = {}
    /\ rxArmed' = None /\ txArmed' = None
    /\ UNCHANGED <<open_flag, ep_busy_flag, rates, bufs, mem, main, sent>>

\* usbd_audio_out_callback: the host's packet of n bytes is in the armed half.
OutDone(n) ==
    /\ 1 \in streams /\ rxArmed # None
    /\ n <= rxArmed.len /\ sent + n <= MaxPos
    /\ rxMem' = [rxMem EXCEPT ![rxArmed.half] =
                    [i \in DOMAIN @ |-> IF i <= n THEN sent + i ELSE @[i]]]
    /\ sent' = sent + n
    /\ read_bf' = [Flip(read_bf) EXCEPT !.count = n]
    /\ ep_busy_flag' = ep_busy_flag \ {"RX"}
    /\ rxArmed' = [half |-> read_bf'.buffer_pos, len |-> read_bf.halfsize]
    /\ UNCHANGED <<configured, streams, txArmed, open_flag, rates, write_bf, txMem, out_rb,
                   main, closes>>

\* usbd_audio_in_callback: the host has got the armed packet, if there was one.
InDone ==
    /\ 2 \in streams
    /\ write_bf' = Flip(write_bf)
    /\ ep_busy_flag' = ep_busy_flag \ {"TX"}
    /\ txArmed' = [half |-> write_bf'.buffer_pos, len |-> write_bf.count]
    /\ UNCHANGED <<configured, streams, rxArmed, open_flag, rates, read_bf, mem, main, host>>

\* usbd_audio_in_fb_callback
FbDone ==
    /\ FullSpeed /\ 1 \in streams
    /\ feedback_buffer' = FeedbackBytes(cur_feedback_rate)
    /\ ep_busy_flag' = ep_busy_flag \ {"FB"}
    /\ UNCHANGED <<usb, open_flag, cur_out_freq, cur_inp_freq, cur_feedback_rate,
                   bufs, mem, main, host>>

\* usbd_audio_set_sampling_freq for the speaker, with set_feedback_value
SetOutFreq(freq) ==
    /\ configured
    /\ cur_out_freq' = freq
    /\ cur_feedback_rate' = FeedbackRate(freq)
    /\ UNCHANGED <<usb, open_flag, ep_busy_flag, cur_inp_freq, feedback_buffer,
                   bufs, mem, main, host>>

\* usbd_audio_set_sampling_freq for the microphone
SetInpFreq(freq) ==
    /\ configured
    /\ cur_inp_freq' = freq
    /\ UNCHANGED <<usb, open_flag, ep_busy_flag, cur_out_freq, cur_feedback_rate,
                   feedback_buffer, bufs, mem, main, host>>
-----------------------------------------------------------------------------
(***************************************************************************)
(* The main program: main after usbd_initialize, then audio_test.          *)
(***************************************************************************)

Goto(from, to) == pc = from /\ pc' = to

\* A step that reads one volatile object and branches on it.
Branch(from, condition, yes, no) ==
    /\ Goto(from, IF condition THEN yes ELSE no)
    /\ UNCHANGED <<usb, open_flag, ep_busy_flag, rates, bufs, mem, half, len, arg, reg, host>>

\* "while (!usb_device_is_configured()) {}", then the start of audio_test
WaitConfigured == Branch("wait", configured, "ringInit", "wait")

RingInit ==
    /\ Goto("ringInit", "wrPtr")
    /\ out_rb' = <<>>
    /\ UNCHANGED <<usb, open_flag, ep_busy_flag, rates, bufs, rxMem, txMem,
                   half, len, arg, reg, host>>

\* dbl_buffer_init(&write_bf, ...): the pointer, which is NULL before this step and never
\* again, the size, then the two stores of the reset.
InitWriteBf ==
    /\ \/ Goto("wrPtr", "wrSize") /\ UNCHANGED write_bf
       \/ Goto("wrSize", "wrPos")
          /\ write_bf' = [write_bf EXCEPT !.halfsize = AUDIO_INP_PACKET_SZ]
       \/ Goto("wrPos", "wrCount") /\ write_bf' = [write_bf EXCEPT !.buffer_pos = 0]
       \/ Goto("wrCount", "rdPtr") /\ write_bf' = [write_bf EXCEPT !.count = 0]
    /\ UNCHANGED <<usb, open_flag, ep_busy_flag, rates, read_bf, mem, half, len, arg, reg, host>>

InitReadBf ==
    /\ \/ Goto("rdPtr", "rdSize") /\ UNCHANGED read_bf
       \/ Goto("rdSize", "rdPos")
          /\ read_bf' = [read_bf EXCEPT !.halfsize = AUDIO_OUT_PACKET_SZ]
       \/ Goto("rdPos", "rdCount") /\ read_bf' = [read_bf EXCEPT !.buffer_pos = 0]
       \/ Goto("rdCount", "top") /\ read_bf' = [read_bf EXCEPT !.count = 0]
    /\ UNCHANGED <<usb, open_flag, ep_busy_flag, rates, write_bf, mem, half, len, arg, reg, host>>

\* The tests of the endless loop and of the three functions it calls.
AfterMic == IF FullSpeed THEN "fbOpen" ELSE "top"

\* Fault: the loop looks at the interfaces only while the microphone is open.
TestOpenMicOnly == Branch("top", "TX" \in open_flag, "rxOpen", "top")

\* Faults: the tests of the busy flag are inverted.
TestReadInverted  == \/ Branch("rxOpen", "RX" \in open_flag, "rxBusy", "txOpen")
                     \/ Branch("rxBusy", "RX" \in ep_busy_flag, "rxPos", "txOpen")
TestWriteInverted == \/ Branch("txOpen", "TX" \in open_flag, "txBusy", AfterMic)
                     \/ Branch("txBusy", "TX" \in ep_busy_flag, "txPos", AfterMic)

TestOpen  == Branch("top", open_flag # {}, "rxOpen", "top")
TestRead  == \/ Branch("rxOpen", "RX" \in open_flag, "rxBusy", "txOpen")
             \/ Branch("rxBusy", "RX" \notin ep_busy_flag, "rxPos", "txOpen")
TestWrite == \/ Branch("txOpen", "TX" \in open_flag, "txBusy", AfterMic)
             \/ Branch("txBusy", "TX" \notin ep_busy_flag, "txPos", AfterMic)
TestFb    == \/ Branch("fbOpen", "FB" \in open_flag, "fbBusy", "top")
             \/ Branch("fbBusy", "FB" \notin ep_busy_flag, "fbLoad", "top")

\* read_samples: data from buffer_pos, then len from count
RxPos ==
    /\ Goto("rxPos", "rxLen")
    /\ half' = Other(read_bf)
    /\ UNCHANGED <<usb, open_flag, ep_busy_flag, rates, bufs, mem, len, arg, reg, host>>

RxLen ==
    /\ Goto("rxLen", "rxCopy")
    /\ len' = read_bf.count
    /\ UNCHANGED <<usb, open_flag, ep_busy_flag, rates, bufs, mem, half, arg, reg, host>>

RxData == [i \in 1..len |-> rxMem[half][i]]

\* read_samples: ring_buf_write(&out_rb, data, len), its result ignored
RxCopy ==
    /\ Goto("rxCopy", "rxLoad")
    /\ out_rb' = AfterWrite(out_rb, RxData)
    /\ half' = 0 /\ len' = 0
    /\ UNCHANGED <<usb, open_flag, ep_busy_flag, rates, bufs, rxMem, txMem, arg, reg, host>>

\* "ep_busy_flag |= flag" is a load and a store: what callbacks clear in between
\* is set again, what they set is cleared.
Load(from, to) ==
    /\ Goto(from, to)
    /\ reg' = ep_busy_flag
    /\ UNCHANGED <<usb, open_flag, ep_busy_flag, rates, bufs, mem, half, len, arg, host>>

\* Fault: the flag is not set.
StoreNothing(from, flag, to) ==
    /\ Goto(from, to)
    /\ ep_busy_flag' = reg /\ reg' = {}
    /\ UNCHANGED <<usb, open_flag, rates, bufs, mem, half, len, arg, host>>

Store(from, flag, to) ==
    /\ Goto(from, to)
    /\ ep_busy_flag' = reg \cup {flag}
    /\ reg' = {}
    /\ UNCHANGED <<usb, open_flag, rates, bufs, mem, half, len, arg, host>>

\* write_samples: data from buffer_pos, then need_len = get_inp_packet_size()
TxPos ==
    /\ Goto("txPos", "txNeed")
    /\ half' = Other(write_bf)
    /\ UNCHANGED <<usb, open_flag, ep_busy_flag, rates, bufs, mem, len, arg, reg, host>>

\* Fault: the packet size of the speaker's frequency.
TxNeedOut ==
    /\ Goto("txNeed", "txRead")
    /\ len' = PacketBytes(cur_out_freq, InpFrame)
    /\ UNCHANGED <<usb, open_flag, ep_busy_flag, rates, bufs, mem, half, arg, reg, host>>

TxNeed ==
    /\ Goto("txNeed", "txRead")
    /\ len' = PacketBytes(cur_inp_freq, InpFrame)
    /\ UNCHANGED <<usb, open_flag, ep_busy_flag, rates, bufs, mem, half, arg, reg, host>>

\* write_samples: write_bf.count = ring_buf_read(&out_rb, data, need_len)
TxRead ==
    LET data == BytesRead(out_rb, len) IN
    /\ Goto("txRead", "txPad")
    /\ out_rb' = AfterRead(out_rb, len)
    /\ txMem' = [txMem EXCEPT ![half] =
                    [i \in DOMAIN @ |-> IF i <= Len(data) THEN data[i] ELSE @[i]]]
    /\ write_bf' = [write_bf EXCEPT !.count = Len(data)]
    /\ UNCHANGED <<usb, open_flag, ep_busy_flag, rates, read_bf, rxMem, half, len, arg, reg,
                   host>>

\* write_samples: "write_bf.count < need_len", what the ring buffer did not have
TxShort ==
    /\ \/ Goto("txPad", "txArg") /\ write_bf.count < len /\ UNCHANGED <<half, len>>
       \/ Goto("txPad", "txLoad") /\ write_bf.count >= len /\ half' = 0 /\ len' = 0
    /\ UNCHANGED <<usb, open_flag, ep_busy_flag, rates, bufs, mem, arg, reg, host>>

\* write_samples: the arguments of memset read write_bf.count twice, this is the first.
TxArg ==
    /\ Goto("txArg", "txFill")
    /\ arg' = write_bf.count
    /\ UNCHANGED <<usb, open_flag, ep_busy_flag, rates, bufs, mem, half, len, reg, host>>

\* memset(data + at, 0, n) on half h of memory with halves of size bytes.  From the first
\* half it may run into the second; what lies behind that is not modelled.
Silenced(m, h, at, n, size) ==
    LET place(g, i) == IF g = h THEN i ELSE size + i IN
    [g \in 0..1 |-> [i \in 1..size |->
        IF g >= h /\ place(g, i) \in at + 1 .. at + n THEN 0 ELSE m[g][i]]]

\* The second read and the call of memset; C leaves open which argument was first.
TxFill ==
    /\ Goto("txFill", "txCount")
    /\ \/ txMem' = Silenced(txMem, half, arg, len - write_bf.count, AUDIO_INP_PACKET_SZ)
       \/ txMem' = Silenced(txMem, half, write_bf.count, len - arg, AUDIO_INP_PACKET_SZ)
    /\ half' = 0 /\ arg' = 0
    /\ UNCHANGED <<usb, open_flag, ep_busy_flag, rates, bufs, rxMem, out_rb, len, reg, host>>

\* Fault: the silence is not counted.
TxCountNot ==
    /\ Goto("txCount", "txLoad")
    /\ len' = 0
    /\ UNCHANGED <<usb, open_flag, ep_busy_flag, rates, bufs, mem, half, arg, reg, host>>

\* "write_bf.count = need_len"
TxCount ==
    /\ Goto("txCount", "txLoad")
    /\ write_bf' = [write_bf EXCEPT !.count = len]
    /\ len' = 0
    /\ UNCHANGED <<usb, open_flag, ep_busy_flag, rates, read_bf, mem, half, arg, reg, host>>

TxPad == TxShort \/ TxArg \/ TxFill \/ TxCount

\* The three places where the loop marks an endpoint busy again.
Claim ==
    \/ Load("rxLoad", "rxStore") \/ Store("rxStore", "RX", "txOpen")
    \/ Load("txLoad", "txStore") \/ Store("txStore", "TX", AfterMic)
    \/ Load("fbLoad", "fbStore") \/ Store("fbStore", "FB", "top")
-----------------------------------------------------------------------------
Main ==
    \/ WaitConfigured \/ RingInit \/ InitWriteBf \/ InitReadBf
    \/ TestOpen \/ TestRead \/ TestWrite \/ TestFb
    \/ RxPos \/ RxLen \/ RxCopy
    \/ TxPos \/ TxNeed \/ TxRead \/ TxPad
    \/ Claim

\* Lengths of a packet the host sends: whole frames, at most the nominal packet.
OutLens == {n \in 0..PacketBytes(cur_out_freq, OutFrame) : n % OutFrame = 0}

Callback ==
    \/ Configure \/ BusReset
    \/ OpenSpeaker \/ OpenMic
    \/ \E intf \in Interfaces : Close(intf)
    \/ \E n \in OutLens : OutDone(n)
    \/ InDone \/ FbDone
    \/ \E freq \in OutFreqs : SetOutFreq(freq)
    \/ \E freq \in InpFreqs : SetInpFreq(freq)

Next == Main \/ Callback

Spec == Init /\ [][Next]_vars

\* The CPU runs the main program whenever no callback runs, and the host keeps
\* polling the endpoint of a streaming microphone.
FairSpec == Spec /\ WF_vars(Main) /\ WF_vars(InDone)
-----------------------------------------------------------------------------
Transfers(size)  == [half : 0..1, len : 0..size] \cup {None}
DblBuffers(size) == [halfsize : {0, size}, buffer_pos : 0..1, count : 0..size]

TypeOK ==
    /\ configured \in BOOLEAN /\ streams \subseteq Interfaces
    /\ rxArmed \in Transfers(AUDIO_OUT_PACKET_SZ)
    /\ txArmed \in Transfers(AUDIO_INP_PACKET_SZ)
    /\ open_flag \subseteq Flags /\ ep_busy_flag \subseteq Flags /\ reg \subseteq Flags
    /\ cur_out_freq \in OutFreqs /\ cur_inp_freq \in InpFreqs
    /\ read_bf \in DblBuffers(AUDIO_OUT_PACKET_SZ)
    /\ write_bf \in DblBuffers(AUDIO_INP_PACKET_SZ)
    /\ rxMem \in Halves(AUDIO_OUT_PACKET_SZ)
    /\ txMem \in Halves(AUDIO_INP_PACKET_SZ)
    /\ out_rb \in Seq(0..MaxPos) /\ Len(out_rb) <= Capacity
    /\ half \in 0..1 /\ len \in Nat /\ arg \in 0..AUDIO_INP_PACKET_SZ
    /\ sent \in 0..MaxPos /\ closes \in 0..MaxCloses

\* While a transfer is started the USB controller owns the half buffer_pos names,
\* so the main program, which takes the other half, works on memory of its own.
ArmedIsCurrent ==
    /\ rxArmed # None => rxArmed.half = read_bf.buffer_pos
    /\ txArmed # None => txArmed.half = write_bf.buffer_pos

\* A started read has a whole half of the double buffer to fill.
ReadHasRoom == rxArmed # None => rxArmed.len = AUDIO_OUT_PACKET_SZ

\* No length in flight exceeds the half buffer it is used on: what the controller
\* is told to fill, what read_samples copies, what write_samples fetches and pads.
TransfersFit ==
    /\ ReadHasRoom
    /\ pc = "rxCopy" => len <= AUDIO_OUT_PACKET_SZ
    /\ pc \in {"txRead", "txPad", "txArg", "txFill", "txCount"} => len <= AUDIO_INP_PACKET_SZ
    /\ write_bf.count <= AUDIO_INP_PACKET_SZ

\* A store of ep_busy_flag is about to undo the clearing of a flag.
Undoes(flag) ==
    /\ pc \in {"rxStore", "txStore", "fbStore"}
    /\ flag \in reg \ ep_busy_flag

\* A packet the callback of the speaker has announced is taken: read_samples comes to its
\* copy, unless a store of ep_busy_flag undoes the announcement, that of read_samples
\* itself included when the packet came during its copy, or the host stops the speaker.
PacketTaken ==
    1 \in streams /\ "RX" \notin ep_busy_flag
        ~> pc \in {"rxCopy", "rxStore"} \/ Undoes("RX") \/ 1 \notin streams

\* The host polls the microphone, and has not set the control interface, which
\* usbd_audio_close would have taken for the microphone.
MicStreams == 2 \in streams /\ (0 \in Interfaces => "TX" \in open_flag)

\* A streaming microphone is served again and again: write_samples prepares another packet,
\* and the host gets one, unless a callback keeps landing between the load and the store
\* of ep_busy_flag for ever.
MicServed ==
    <>[]~Undoes("TX") =>
        /\ MicStreams ~> pc = "txRead" \/ ~MicStreams
        /\ MicStreams ~> txArmed.len > 0 \/ ~MicStreams
=============================================================================
