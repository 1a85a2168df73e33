----------------------------- MODULE AudioTimed -----------------------------
(***************************************************************************)
(* AudioTask at the pace of the real device, with what became of the       *)
(* stream as history.  A service interval lasts a millisecond and a pass   *)
(* of the main loop, two copies of 576 bytes at 144 MHz included, less     *)
(* than a tenth of that, so between two events of one interface the loop   *)
(* makes at least one complete pass.  Callbacks still interrupt the pass   *)
(* anywhere.                                                               *)
(***************************************************************************)
EXTENDS AudioTask

VARIABLES
    rxGap, txGap,   \* passes since the last event of the speaker, the microphone:
                    \* 0 none begun, 1 one begun, 2 one complete
    copied,         \* last stream position copied to the ring buffer
    unread,         \* a packet is complete and not yet copied
    stale,          \* number of copies of bytes that were copied before
    dropped,        \* ring_buf_write has refused bytes
    clobbered,      \* flags of the stream whose clearing by a callback a store has undone
    filled,         \* bytes of the stream write_samples put into each half
    heard,          \* last stream position the host has got back
    since           \* in callbacks since the host changed cur_inp_freq, up to 2

gaps      == <<rxGap, txGap>>
hist      == <<copied, unread, stale, dropped, clobbered, filled, heard, since>>
timedVars == <<vars, gaps, hist>>

TimedInit ==
    /\ Init
    /\ rxGap = 2 /\ txGap = 2
    /\ copied = 0 /\ unread = FALSE /\ stale = 0 /\ dropped = FALSE
    /\ clobbered = {} /\ filled = [h \in 0..1 |-> 0] /\ heard = 0 /\ since = 2

Passed(gap) == IF gap < 2 THEN gap + 1 ELSE 2

\* read_samples copies len bytes: are they new, and do they all fit?
RecordCopy ==
    LET again == len > 0 /\ RxData[1] <= copied
        last  == IF len > 0 /\ ~again THEN RxData[len] ELSE copied
    IN
    /\ copied' = last
    /\ unread' = (unread /\ last # sent)
    /\ stale' = IF again THEN stale + 1 ELSE stale
    /\ dropped' = (dropped \/ Accepted(out_rb, RxData) < len)
    /\ UNCHANGED <<clobbered, filled, heard, since>>

\* A store of ep_busy_flag undoes what callbacks cleared since the load.  No byte of the
\* stream depends on EP_FB_FLAG.
RecordStore ==
    /\ clobbered' = IF pc \in {"rxStore", "txStore", "fbStore"}
                    THEN clobbered \cup ({"RX", "TX"} \cap (reg \ ep_busy_flag)) ELSE clobbered
    /\ UNCHANGED <<copied, unread, stale, dropped, filled, heard, since>>

\* write_samples fills its half as far as the ring buffer has bytes.
RecordFill ==
    /\ filled' = [filled EXCEPT ![half] = Taken(out_rb, len)]
    /\ UNCHANGED <<copied, unread, stale, dropped, clobbered, heard, since>>

TimedMain ==
    /\ \/ RxCopy /\ RecordCopy
       \/ TxRead /\ RecordFill
       \/ Claim /\ RecordStore
       \/ /\ \/ WaitConfigured \/ RingInit \/ InitWriteBf \/ InitReadBf
             \/ TestOpen \/ TestRead \/ TestWrite \/ TestFb
             \/ RxPos \/ RxLen \/ TxPos \/ TxNeed \/ TxPad
          /\ UNCHANGED hist
    /\ rxGap' = IF pc = "top" THEN Passed(rxGap) ELSE rxGap
    /\ txGap' = IF pc = "top" THEN Passed(txGap) ELSE txGap

\* Events of the speaker interface.
TimedOpenSpeaker ==
    /\ rxGap = 2 /\ OpenSpeaker
    /\ rxGap' = 0 /\ unread' = FALSE
    /\ UNCHANGED <<txGap, copied, stale, dropped, clobbered, filled, heard, since>>

TimedOutDone(n) ==
    /\ rxGap = 2 /\ OutDone(n)
    /\ rxGap' = 0 /\ unread' = (n > 0)
    /\ UNCHANGED <<txGap, copied, stale, dropped, clobbered, filled, heard, since>>

\* Events of the microphone interface.
TimedOpenMic ==
    /\ txGap = 2 /\ OpenMic
    /\ txGap' = 0
    /\ UNCHANGED <<rxGap, hist>>

\* The packet the armed write transfer carries, and the bytes of the stream that n
\* bytes of a half begin with: silence follows them.
MicPacket == [i \in 1..txArmed.len |-> txMem[txArmed.half][i]]
Data(h, n) == [i \in 1..(IF filled[h] <= n THEN filled[h] ELSE n) |-> txMem[h][i]]
ArmedData == IF txArmed = None THEN <<>> ELSE Data(txArmed.half, txArmed.len)

TimedInDone ==
    /\ txGap = 2 /\ InDone
    /\ txGap' = 0
    /\ heard' = IF ArmedData = <<>> THEN heard ELSE ArmedData[Len(ArmedData)]
    /\ since' = IF since < 2 THEN since + 1 ELSE 2
    /\ UNCHANGED <<rxGap, copied, unread, stale, dropped, clobbered, filled>>

\* A control request may close an interface at any time.
TimedClose(intf) ==
    /\ Close(intf)
    /\ rxGap' = IF intf = 1 THEN 0 ELSE rxGap
    /\ txGap' = IF intf = 1 THEN txGap ELSE 0
    /\ unread' = (unread /\ intf # 1)
    /\ UNCHANGED <<copied, stale, dropped, clobbered, filled, heard, since>>

\* A reset may come at any time, and enumeration after it takes many passes.
TimedReset ==
    /\ BusReset
    /\ rxGap' = 0 /\ txGap' = 0
    /\ UNCHANGED hist

\* Events the pace of the streams does not depend on.
TimedSetInpFreq(freq) ==
    /\ SetInpFreq(freq)
    /\ since' = IF freq = cur_inp_freq THEN since ELSE 0
    /\ UNCHANGED <<gaps, copied, unread, stale, dropped, clobbered, filled, heard>>

Untimed ==
    /\ \/ Configure \/ FbDone
       \/ \E freq \in OutFreqs : SetOutFreq(freq)
    /\ UNCHANGED <<gaps, hist>>

TimedNext ==
    \/ TimedMain
    \/ TimedOpenSpeaker \/ TimedOpenMic
    \/ \E intf \in Interfaces : TimedClose(intf)
    \/ \E n \in OutLens : TimedOutDone(n)
    \/ TimedInDone
    \/ TimedReset
    \/ \E freq \in InpFreqs : TimedSetInpFreq(freq)
    \/ Untimed

TimedSpec == TimedInit /\ [][TimedNext]_timedVars
-----------------------------------------------------------------------------
TimedTypeOK ==
    /\ TypeOK
    /\ rxGap \in 0..2 /\ txGap \in 0..2
    /\ copied \in 0..sent /\ unread \in BOOLEAN
    /\ stale \in Nat /\ dropped \in BOOLEAN /\ clobbered \subseteq Flags
    /\ filled \in [0..1 -> 0..AUDIO_INP_PACKET_SZ] /\ heard \in 0..MaxPos
    /\ since \in 0..2

Increasing(s) == \A i, j \in 1..Len(s) : i < j => s[i] < s[j]

\* Every frame of s is silence or a frame the host sent, with its bytes in place.
WholeFrames(s) ==
    /\ Len(s) % OutFrame = 0
    /\ \A i \in 1..Len(s) : s[i] # 0 => (s[i] - i) % OutFrame = 0
    /\ \A i \in 1..Len(s) - 1 :
          i % OutFrame # 0 => s[i + 1] = IF s[i] = 0 THEN 0 ELSE s[i] + 1

\* While read_samples copies a half of read_buffer, the controller fills the other.
NoRxOverlap == pc = "rxCopy" => rxArmed.half # half

\* While write_samples fills a half of write_buffer, the controller sends the other.
NoTxOverlap == pc \in {"txRead", "txPad", "txArg", "txFill"} => txArmed.half # half

\* memset stays within the half although its arguments read write_bf.count one after the
\* other and usbd_audio_open resets it: whichever is read first, at + n is need_len.
PadFits == pc = "txFill" => arg = write_bf.count /\ arg < len /\ len <= AUDIO_INP_PACKET_SZ

\* A write transfer is empty (nothing was prepared yet) or one whole packet: it
\* never takes the count write_samples stores before it pads.
WholePacketsArmed ==
    txArmed.len \in {0} \cup {PacketBytes(f, InpFrame) : f \in InpFreqs}

\* When a packet completes, the one before it has been copied, unless a store of
\* ep_busy_flag has undone the clearing of EP_RX_FLAG that announced it.
LossNeedsClobber ==
    [][(\E n \in OutLens : OutDone(n)) /\ unread => "RX" \in clobbered]_timedVars

\* Once the host has got two packets after it changed the frequency of the microphone, the
\* one armed and the one prepared before, every further packet has the size of the new
\* frequency, as long as the host stops nothing and no clearing of EP_TX_FLAG is undone.
MicFollows ==
    since = 2 /\ closes = 0 /\ "TX" \notin clobbered /\ txArmed # None
        => txArmed.len = PacketBytes(cur_inp_freq, InpFrame)

\* read_samples copies a packet again only when the host stops a stream or resets the
\* bus under it, at most once each time.
StaleNeedsClose == stale <= closes

\* The host gets the bytes of the stream in the order it sent them, none twice, and
\* silence only behind them, as long as it stops no stream and no clearing of
\* EP_TX_FLAG is undone.
MicInOrder ==
    [][InDone /\ closes = 0 /\ "TX" \notin clobbered
          => /\ Increasing(ArmedData)
             /\ \A i \in 1..Len(ArmedData) : heard < ArmedData[i]
             /\ \A i \in Len(ArmedData)+1..txArmed.len : MicPacket[i] = 0]_timedVars

\* The host gets whole frames back, whatever packets are lost or repeated, as long as the
\* ring buffer did not overflow; it may overflow if its size is a multiple of the frame.
FramesWhole == ~dropped \/ Capacity % OutFrame = 0 => WholeFrames(MicPacket)
-----------------------------------------------------------------------------
(***************************************************************************)
(* The refinement of Loopback: where the bytes inside the device are.      *)
(***************************************************************************)

Bytes(s) == {s[i] : i \in 1..Len(s)}

Preparing == {"txPad", "txArg", "txFill", "txCount", "txLoad", "txStore"}

\* write_samples has prepared a packet the in callback has not yet armed.
Prepared == "TX" \in ep_busy_flag \/ pc \in Preparing
PreparedData == IF Prepared THEN Data(Other(write_bf), write_bf.count) ELSE <<>>

\* A packet of the speaker that read_samples has not copied yet.
UnreadData ==
    IF unread THEN [i \in 1..read_bf.count |-> rxMem[Other(read_bf)][i]] ELSE <<>>

InDevice == Bytes(ArmedData) \cup Bytes(PreparedData) \cup Bytes(out_rb) \cup Bytes(UnreadData)

L == INSTANCE Loopback WITH path <- InDevice

\* Until the host stops a stream or a store undoes the clearing of a flag, what the
\* device does with the bytes is what Loopback promises: they leave the device only
\* to the host, the oldest first, or when the ring buffer overflows, the newest.
ImplementsLoopback ==
    /\ L!LoopInit
    /\ [][closes' = 0 /\ clobbered' = {} => L!LoopNext]_(L!loopVars)

\* Until then, and as long as ring_buf_write has refused nothing, every byte the host
\* has sent and not got back is in one of the four buffers, and no other byte is.
NothingForgotten ==
    closes = 0 /\ clobbered = {} /\ ~dropped => InDevice = heard + 1 .. sent
-----------------------------------------------------------------------------
\* All data from the speaker is copied: when a packet completes, the one before
\* it has been taken.
EveryPacketCopied == [][(\E n \in OutLens : OutDone(n)) => ~unread]_timedVars

\* When read_samples runs there is a full buffer: bytes not copied before.
FullMeansUnread == pc = "rxCopy" /\ len > 0 => RxData[1] > copied
=============================================================================
