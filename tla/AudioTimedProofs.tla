-------------------------- MODULE AudioTimedProofs --------------------------
(***************************************************************************)
(* Theorems about audio_task.c at the pace of the device, for every set of *)
(* frequencies, frame size, ring buffer size, length of the stream and     *)
(* number of closes: who uses which half, what is sent, and when a packet  *)
(* is lost or repeated.                                                    *)
(***************************************************************************)
EXTENDS AudioTimed, AudioTaskProofs

\* The loop has nothing to do on the interface of this flag.
Quiet(flag) == flag \in ep_busy_flag \/ flag \notin open_flag

\* Where the loop works for an interface, and where it has done so in this pass.
RxWork == {"rxPos", "rxLen", "rxCopy", "rxLoad", "rxStore"}
TxWork == {"txPos", "txNeed", "txRead", "txPad", "txArg", "txFill", "txCount", "txLoad", "txStore"}
FbWork == {"fbOpen", "fbBusy", "fbLoad", "fbStore"}
RxDone == {"txOpen", "txBusy", "top"} \cup TxWork \cup FbWork
TxDone == {"top"} \cup FbWork

\* A complete pass after an event of the speaker has left nothing to do there: the
\* loop has marked the endpoint busy, and until the next event no store of the
\* loop can clear that mark.
RxInv ==
    /\ pc \in {"rxLen", "rxCopy"} /\ rxArmed # None => half # rxArmed.half
    /\ rxGap = 2 => Quiet("RX") /\ pc \notin RxWork
    /\ rxGap = 1 /\ pc \in RxDone => Quiet("RX")
    /\ rxGap # 0 /\ pc = "rxBusy" => "RX" \in open_flag
    /\ rxGap # 0 /\ pc \in {"txStore", "fbStore"} => "RX" \in reg \/ "RX" \notin open_flag

\* The same of the microphone.  Its work follows the speaker's in a pass, so the
\* speaker's store counts only once the pass after the event is complete.
TxInv ==
    /\ pc \in {"txNeed", "txRead", "txPad", "txArg", "txFill"} /\ txArmed # None => half # txArmed.half
    /\ txGap = 2 => Quiet("TX") /\ pc \notin TxWork
    /\ txGap = 1 /\ pc \in TxDone => Quiet("TX")
    /\ txGap # 0 /\ pc = "txBusy" => "TX" \in open_flag
    /\ txGap # 0 /\ pc = "fbStore" => "TX" \in reg \/ "TX" \notin open_flag
    /\ txGap = 2 /\ pc = "rxStore" => "TX" \in reg \/ "TX" \notin open_flag

Gaps == rxGap \in 0..2 /\ txGap \in 0..2

\* Nothing is opened before the loop runs.
BootInv == pc \in Boot => open_flag = {}

PaceInv == Gaps /\ RxInv /\ TxInv /\ BootInv

LEMMA InitPaceInv == TimedInit => PaceInv
BY DEF TimedInit, Init, PaceInv, BootInv, Gaps, RxInv, TxInv, Quiet, RxWork, TxWork,
       FbWork, RxDone, TxDone

\* A step of AudioTimed is a step of AudioTask.
LEMMA TimedIsUntimed == [TimedNext]_timedVars => [Next]_vars
<1>1. UNCHANGED timedVars => UNCHANGED vars
  BY DEF timedVars
<1>2. TimedMain => Main
  BY DEF TimedMain, Main
<1>3. ASSUME TimedNext, ~TimedMain PROVE Callback
  BY <1>3 DEF TimedNext, Callback, TimedOpenSpeaker, TimedOpenMic, TimedClose,
              TimedOutDone, TimedInDone, TimedReset, Untimed, TimedSetInpFreq
<1>4. QED
  BY <1>1, <1>2, <1>3 DEF Next

\* What a step of the main loop does to the passes counted.
LEMMA PassCounted ==
    ASSUME Gaps, TimedMain
    PROVE  /\ Gaps'
           /\ pc # "top" => rxGap' = rxGap /\ txGap' = txGap
           /\ pc = "top" => /\ rxGap' = IF rxGap = 0 THEN 1 ELSE 2
                            /\ txGap' = IF txGap = 0 THEN 1 ELSE 2
BY DEF Gaps, TimedMain, Passed

LEMMA MainPace ==
    ASSUME TypeInv, OwnInv, PaceInv, TimedMain
    PROVE  PaceInv'
<1> USE DEF PaceInv, BootInv, Boot, RxInv, TxInv, Quiet, RxWork, TxWork, FbWork,
            RxDone, TxDone, Goto
<1>0. /\ Gaps /\ Gaps'
      /\ pc # "top" => rxGap' = rxGap /\ txGap' = txGap
      /\ pc = "top" => /\ rxGap' = IF rxGap = 0 THEN 1 ELSE 2
                       /\ txGap' = IF txGap = 0 THEN 1 ELSE 2
  BY PassCounted
<1>1. CASE WaitConfigured \/ RingInit \/ InitWriteBf \/ InitReadBf
  BY <1>0, <1>1 DEF WaitConfigured, RingInit, InitWriteBf, InitReadBf, Branch, usb, Gaps
<1>2. CASE TestOpen
  BY <1>0, <1>2 DEF TestOpen, Branch, usb, Gaps
<1>3. CASE TestRead
  BY <1>0, <1>3 DEF TestRead, Branch, usb, Gaps
<1>4. CASE TestWrite
  <2>1. CASE Branch("txOpen", "TX" \in open_flag, "txBusy", AfterMic)
    BY <1>0, <2>1 DEF AfterMic, Branch, usb, Gaps
  <2>2. CASE Branch("txBusy", "TX" \notin ep_busy_flag, "txPos", AfterMic)
    BY <1>0, <2>2 DEF AfterMic, Branch, usb, Gaps
  <2>3. QED
    BY <1>4, <2>1, <2>2 DEF TestWrite
<1>5. CASE TestFb
  BY <1>0, <1>5 DEF TestFb, Branch, usb, Gaps
<1>6. CASE RxPos
  <2>1. rxArmed # None => half' # rxArmed.half
    BY <1>6 DEF RxPos, Other, OwnInv, ArmedIsCurrent, TypeInv, TypeOK, DblBuffers
  <2>2. QED
    BY <1>0, <1>6, <2>1 DEF RxPos, usb, Gaps
<1>7. CASE RxLen \/ RxCopy
  BY <1>0, <1>7 DEF RxLen, RxCopy, usb, Gaps
<1>8. CASE TxPos
  <2>1. txArmed # None => half' # txArmed.half
    BY <1>8 DEF TxPos, Other, OwnInv, ArmedIsCurrent, TypeInv, TypeOK, DblBuffers
  <2>2. QED
    BY <1>0, <1>8, <2>1 DEF TxPos, usb, Gaps
<1>9. CASE TxNeed \/ TxRead \/ TxPad
  BY <1>0, <1>9 DEF TxNeed, TxRead, TxPad, TxShort, TxArg, TxFill, TxCount, usb, Gaps
<1>10. CASE Claim
  <2>1. CASE Load("rxLoad", "rxStore") \/ Load("txLoad", "txStore") \/ Load("fbLoad", "fbStore")
    BY <1>0, <2>1 DEF Load, usb, Gaps
  <2>2. CASE Store("rxStore", "RX", "txOpen")
    BY <1>0, <2>2 DEF Store, usb, Gaps
  <2>3. CASE Store("txStore", "TX", AfterMic)
    BY <1>0, <2>3 DEF Store, AfterMic, usb, Gaps
  <2>4. CASE Store("fbStore", "FB", "top")
    BY <1>0, <2>4 DEF Store, usb, Gaps
  <2>5. QED
    BY <1>10, <2>1, <2>2, <2>3, <2>4 DEF Claim
<1>11. QED
  BY <1>1, <1>2, <1>3, <1>4, <1>5, <1>6, <1>7, <1>8, <1>9, <1>10 DEF TimedMain

\* Events come only when a complete pass has left nothing to do on their interface.
LEMMA EventPace ==
    ASSUME ~EarlyOpen, TypeInv, OwnInv, PaceInv, TimedNext, ~TimedMain
    PROVE  PaceInv'
<1> USE DEF PaceInv, BootInv, MayOpen, Gaps, RxInv, TxInv, Quiet, RxWork, TxWork,
            FbWork, RxDone, TxDone
<1>1. CASE TimedOpenSpeaker
  BY <1>1 DEF TimedOpenSpeaker, OpenSpeaker, main, Speaker
<1>2. CASE TimedOpenMic
  BY <1>2 DEF TimedOpenMic, OpenMic, main, Mic
<1>3. ASSUME NEW intf \in Interfaces, TimedClose(intf) PROVE PaceInv'
  BY <1>3 DEF TimedClose, Close, main, Speaker, Mic
<1>4. ASSUME NEW n \in OutLens, TimedOutDone(n) PROVE PaceInv'
  BY <1>4 DEF TimedOutDone, OutDone, main
<1>5. CASE TimedInDone
  BY <1>5 DEF TimedInDone, InDone, main
<1>6. CASE Untimed \/ \E freq \in InpFreqs : TimedSetInpFreq(freq)
  BY <1>6 DEF Untimed, TimedSetInpFreq, Configure, FbDone, SetOutFreq, SetInpFreq, usb, main, gaps
<1>7. CASE TimedReset
  BY <1>7 DEF TimedReset, BusReset, main
<1>8. QED
  BY <1>1, <1>2, <1>3, <1>4, <1>5, <1>6, <1>7 DEF TimedNext

LEMMA StepPaceInv ==
    ~EarlyOpen => (TypeInv /\ OwnInv /\ PaceInv /\ [TimedNext]_timedVars => PaceInv')
<1> SUFFICES ASSUME ~EarlyOpen, TypeInv, OwnInv, PaceInv, [TimedNext]_timedVars
             PROVE PaceInv'
  OBVIOUS
<1>1. CASE UNCHANGED timedVars
  BY <1>1 DEF PaceInv, BootInv, Gaps, RxInv, TxInv, Quiet, timedVars, gaps, vars, usb, main
<1>2. QED
  BY <1>1, MainPace, EventPace

\* What holds of AudioTask holds at the pace of the device.
THEOREM TimedImpliesSpec == TimedSpec => Spec
<1>1. TimedInit => Init
  BY DEF TimedInit
<1>2. QED
  BY <1>1, TimedIsUntimed, PTL DEF TimedSpec, Spec

LEMMA PaceCorrect == ~EarlyOpen => (TimedSpec => [](TypeInv /\ OwnInv /\ PaceInv))
<1> SUFFICES ASSUME ~EarlyOpen PROVE TimedSpec => [](TypeInv /\ OwnInv /\ PaceInv)
  OBVIOUS
<1>1. Spec => [](TypeInv /\ OwnInv)
  BY OwnCorrect
<1>2. TypeInv /\ OwnInv /\ PaceInv /\ [TimedNext]_timedVars => PaceInv'
  BY StepPaceInv
<1>3. QED
  BY <1>1, <1>2, InitPaceInv, TimedImpliesSpec, PTL DEF TimedSpec

\* While read_samples copies a half of read_buffer the controller fills the other,
\* wherever in the pass packets, opens and closes interrupt it.
THEOREM RxOverlapFree == ~EarlyOpen => (TimedSpec => []NoRxOverlap)
<1>1. TypeInv /\ OwnInv /\ PaceInv => NoRxOverlap
  BY DEF TypeInv, TypeOK, PaceInv, RxInv, NoRxOverlap, None
<1>2. QED
  BY <1>1, PaceCorrect, PTL

\* While write_samples fills and pads a half of write_buffer the controller sends
\* the other.
THEOREM TxOverlapFree == ~EarlyOpen => (TimedSpec => []NoTxOverlap)
<1>1. TypeInv /\ OwnInv /\ PaceInv => NoTxOverlap
  BY DEF TypeInv, TypeOK, PaceInv, TxInv, NoTxOverlap, None
<1>2. QED
  BY <1>1, PaceCorrect, PTL

\* Lengths of whole packets for the host, and what write_samples has made of its
\* length and of write_bf.count so far: only inside it is the count a partial one.
InpLens == {PacketBytes(f, InpFrame) : f \in InpFreqs}

Counting == {"txPad", "txArg", "txFill", "txCount"}

WholeInv ==
    /\ WholePacketsArmed
    /\ pc \in {"txRead"} \cup Counting => len \in InpLens
    /\ pc = "txPad" => write_bf.count <= len
    /\ pc \in {"txArg", "txFill", "txCount"} => write_bf.count < len
    /\ pc = "txFill" => arg = write_bf.count
    /\ pc \notin Counting => write_bf.count \in {0} \cup InpLens

LEMMA InitWholeInv == TimedInit => WholeInv
BY DEF TimedInit, Init, WholeInv, WholePacketsArmed, Counting, None

LEMMA MainWhole ==
    ASSUME TypeInv, WholeInv, Main
    PROVE  WholeInv'
<1> USE DEF WholeInv, WholePacketsArmed, Counting, Goto
<1>1. CASE WaitConfigured \/ RingInit \/ InitReadBf
  BY <1>1 DEF WaitConfigured, RingInit, InitReadBf, Branch, usb, bufs
<1>2. CASE InitWriteBf
  BY <1>2 DEF InitWriteBf, usb, TypeInv, TypeOK, DblBuffers
<1>3. CASE TestOpen \/ TestRead \/ TestWrite \/ TestFb
  BY <1>3 DEF TestOpen, TestRead, TestWrite, TestFb, AfterMic, Branch, usb, bufs
<1>4. CASE RxPos \/ RxLen \/ RxCopy \/ TxPos
  BY <1>4 DEF RxPos, RxLen, RxCopy, TxPos, usb, bufs
<1>5. CASE TxNeed
  BY <1>5 DEF TxNeed, usb, bufs, TypeInv, TypeOK, InpLens
<1>6. CASE TxRead
  <2>1. Len(BytesRead(out_rb, len)) \in 0..len
    BY ReadFits DEF TypeInv, TypeOK
  <2>2. write_bf' = [write_bf EXCEPT !.count = Len(BytesRead(out_rb, len))]
    BY <1>6 DEF TxRead
  <2>3. write_bf'.count <= len
    BY <2>1, <2>2 DEF TypeInv, TypeOK, DblBuffers
  <2>4. QED
    BY <1>6, <2>3 DEF TxRead, usb
<1>7. CASE TxPad
  <2>1. write_bf.count \in Nat /\ len \in Nat
    BY PacketsFitHalves DEF TypeInv, TypeOK, DblBuffers
  <2>2. CASE TxShort
    <3>1. write_bf.count <= len /\ len \in InpLens
      BY <2>2 DEF TxShort
    <3>2. write_bf.count < len \/ write_bf.count = len
      BY <2>1, <3>1
    <3>3. QED
      BY <2>1, <2>2, <3>1, <3>2 DEF TxShort, usb, bufs
  <2>3. CASE TxArg \/ TxFill
    BY <2>3 DEF TxArg, TxFill, usb, bufs
  <2>4. CASE TxCount
    BY <2>4 DEF TxCount, usb, TypeInv, TypeOK, DblBuffers
  <2>5. QED
    BY <1>7, <2>2, <2>3, <2>4 DEF TxPad
<1>8. CASE Claim
  BY <1>8 DEF Claim, Load, Store, AfterMic, usb, bufs
<1>9. QED
  BY <1>1, <1>2, <1>3, <1>4, <1>5, <1>6, <1>7, <1>8 DEF Main

\* The in callback hands the count to the controller: not while it is partial.
LEMMA EventWhole ==
    ASSUME TypeInv, PaceInv, WholeInv, TimedNext, ~TimedMain
    PROVE  WholeInv'
<1> USE DEF WholeInv, WholePacketsArmed, Counting, None
<1>1. CASE TimedOpenSpeaker
  BY <1>1 DEF TimedOpenSpeaker, OpenSpeaker, main
<1>2. CASE TimedOpenMic
  <2>1. write_bf'.count = 0 /\ pc \notin Counting
    BY <1>2 DEF TimedOpenMic, OpenMic, dbl_buffer_reset, PaceInv, TxInv, TxWork
  <2>2. QED
    BY <1>2, <2>1 DEF TimedOpenMic, OpenMic, main
<1>3. ASSUME NEW intf \in Interfaces, TimedClose(intf) PROVE WholeInv'
  BY <1>3 DEF TimedClose, Close, bufs, main
<1>4. ASSUME NEW n \in OutLens, TimedOutDone(n) PROVE WholeInv'
  BY <1>4 DEF TimedOutDone, OutDone, main
<1>5. CASE TimedInDone
  <2>1. pc \notin Counting
    BY <1>5 DEF TimedInDone, PaceInv, TxInv, TxWork
  <2>2. write_bf'.count = write_bf.count
    BY <1>5, FlipTyped, PacketsFitHalves DEF TimedInDone, InDone, TypeInv, TypeOK
  <2>3. QED
    BY <1>5, <2>1, <2>2 DEF TimedInDone, InDone, main, InpLens
<1>6. CASE Untimed \/ \E freq \in InpFreqs : TimedSetInpFreq(freq)
  BY <1>6 DEF Untimed, TimedSetInpFreq, Configure, FbDone, SetOutFreq, SetInpFreq, usb, bufs, main
<1>7. CASE TimedReset
  BY <1>7 DEF TimedReset, BusReset, bufs, main
<1>8. QED
  BY <1>1, <1>2, <1>3, <1>4, <1>5, <1>6, <1>7 DEF TimedNext

LEMMA StepWholeInv ==
    TypeInv /\ PaceInv /\ WholeInv /\ [TimedNext]_timedVars => WholeInv'
<1> SUFFICES ASSUME TypeInv, PaceInv, WholeInv, [TimedNext]_timedVars PROVE WholeInv'
  OBVIOUS
<1>1. CASE UNCHANGED timedVars
  BY <1>1 DEF WholeInv, WholePacketsArmed, Counting, timedVars, vars, usb, bufs, main
<1>2. TimedMain => Main
  BY DEF TimedMain, Main
<1>3. QED
  BY <1>1, <1>2, MainWhole, EventWhole

LEMMA WholeCorrect == ~EarlyOpen => (TimedSpec => [](TypeInv /\ OwnInv /\ PaceInv /\ WholeInv))
<1> SUFFICES ASSUME ~EarlyOpen
             PROVE  TimedSpec => [](TypeInv /\ OwnInv /\ PaceInv /\ WholeInv)
  OBVIOUS
<1>1. TimedSpec => [](TypeInv /\ OwnInv /\ PaceInv)
  BY PaceCorrect
<1>2. TimedSpec => []WholeInv
  BY <1>1, InitWholeInv, StepWholeInv, PTL DEF TimedSpec
<1>3. QED
  BY <1>1, <1>2, PTL

\* What the controller is given to send is nothing or a whole packet of an
\* advertised frequency: never the count of what ring_buf_read found, stored just
\* before the silence is added.
THEOREM WholePackets == ~EarlyOpen => (TimedSpec => []WholePacketsArmed)
<1>1. WholeInv => WholePacketsArmed
  BY DEF WholeInv
<1>2. QED
  BY <1>1, WholeCorrect, PTL

\* memset fills the rest of the packet and no more, whichever of its arguments reads
\* write_bf.count first: no reopening of the microphone comes between the two reads.
THEOREM PadFitsCorrect == ~EarlyOpen => (TimedSpec => []PadFits)
<1>1. TypeInv /\ WholeInv => PadFits
  BY DEF TypeInv, LocalsFit, WholeInv, PadFits
<1>2. QED
  BY <1>1, WholeCorrect, PTL
-----------------------------------------------------------------------------
(***************************************************************************)
(* The microphone's packets follow its frequency.                          *)
(***************************************************************************)

Want == PacketBytes(cur_inp_freq, InpFrame)

\* write_samples works while EP_TX_FLAG is clear, and before the host has stopped
\* anything that flag belongs to a microphone that streams.
MicInv ==
    /\ pc \in TxWork => "TX" \notin ep_busy_flag
    /\ closes = 0 /\ 2 \in streams => "TX" \in open_flag
    /\ closes = 0 /\ 2 \notin streams
          => "TX" \notin open_flag \cup ep_busy_flag \cup reg /\ pc \notin TxWork \cup {"txBusy"}

\* A packet prepared after the first in callback has the new size, and the second one
\* arms it.
FollowInv ==
    closes = 0 /\ "TX" \notin clobbered =>
        /\ since = 2 /\ txArmed # None => txArmed.len = Want
        /\ since # 0 /\ pc \in {"txRead"} \cup Counting => len = Want
        /\ since # 0 /\ (pc \in {"txLoad", "txStore"} \/ "TX" \in ep_busy_flag)
              => write_bf.count = Want

LEMMA InitFollow == TimedInit => MicInv /\ FollowInv
BY DEF TimedInit, Init, MicInv, FollowInv, TxWork, Counting, None

LEMMA MainMic ==
    ASSUME OwnInv, MicInv, Main
    PROVE  MicInv'
<1> USE DEF MicInv, TxWork, Goto
<1>1. CASE \/ WaitConfigured \/ RingInit \/ InitWriteBf \/ InitReadBf
           \/ TestOpen \/ TestRead \/ TestFb
  BY <1>1 DEF WaitConfigured, RingInit, InitWriteBf, InitReadBf, TestOpen, TestRead, TestFb,
              Branch, usb, host
<1>2. CASE TestWrite
  BY <1>2 DEF TestWrite, AfterMic, Branch, usb, host
<1>3. CASE RxPos \/ RxLen \/ RxCopy \/ TxPos \/ TxNeed \/ TxRead
  BY <1>3 DEF RxPos, RxLen, RxCopy, TxPos, TxNeed, TxRead, usb, host
<1>4. CASE TxPad
  BY <1>4 DEF TxPad, TxShort, TxArg, TxFill, TxCount, usb, host
<1>5. CASE Claim
  BY <1>5 DEF Claim, Load, Store, AfterMic, usb, host
<1>6. QED
  BY <1>1, <1>2, <1>3, <1>4, <1>5 DEF Main

LEMMA MainFollow ==
    ASSUME TypeInv, OwnInv, WholeInv, MicInv, FollowInv, TimedMain
    PROVE  FollowInv'
<1> SUFFICES ASSUME closes' = 0, "TX" \notin clobbered' PROVE FollowInv'
  BY DEF FollowInv
<1> USE DEF Goto, TxWork, Counting
<1>1. /\ UNCHANGED <<closes, since, txArmed, cur_inp_freq>>
      /\ clobbered \subseteq clobbered'
  BY DEF TimedMain, RecordCopy, RecordStore, RecordFill, hist, usb, rates, host, WaitConfigured,
         RingInit, InitWriteBf, InitReadBf, TestOpen, TestRead, TestWrite, TestFb, Branch,
         RxPos, RxLen, RxCopy, TxPos, TxNeed, TxRead, TxPad, TxShort, TxArg, TxFill, TxCount,
         Claim, Load, Store
<1>2. /\ since = 2 /\ txArmed # None => txArmed.len = Want
      /\ since # 0 /\ pc \in {"txRead"} \cup Counting => len = Want
      /\ since # 0 /\ (pc \in {"txLoad", "txStore"} \/ "TX" \in ep_busy_flag)
            => write_bf.count = Want
      /\ Want' = Want
  BY <1>1 DEF FollowInv, Want
<1> HIDE DEF Want
<1> USE DEF FollowInv
<1>3. CASE WaitConfigured \/ RingInit \/ InitReadBf
  BY <1>1, <1>2, <1>3 DEF WaitConfigured, RingInit, InitReadBf, Branch, bufs
<1>4. CASE InitWriteBf
  <2>1. "TX" \notin ep_busy_flag
    BY <1>1, <1>4 DEF InitWriteBf, OwnInv, MicInv, Boot
  <2>2. QED
    BY <1>1, <1>2, <1>4, <2>1 DEF InitWriteBf
<1>5. CASE TestOpen \/ TestRead \/ TestWrite \/ TestFb
  BY <1>1, <1>2, <1>5 DEF TestOpen, TestRead, TestWrite, TestFb, AfterMic, Branch, bufs
<1>6. CASE RxPos \/ RxLen \/ RxCopy \/ TxPos
  BY <1>1, <1>2, <1>6 DEF RxPos, RxLen, RxCopy, TxPos, bufs
<1>7. CASE TxNeed
  <2>1. len' = Want
    BY <1>7 DEF TxNeed, Want
  <2>2. QED
    BY <1>1, <1>2, <1>7, <2>1 DEF TxNeed, bufs
<1>8. CASE TxRead
  <2>1. "TX" \notin ep_busy_flag
    BY <1>8 DEF TxRead, MicInv
  <2>2. QED
    BY <1>1, <1>2, <1>8, <2>1 DEF TxRead
<1>9. CASE TxShort
  <2>1. write_bf.count <= len /\ write_bf.count \in Nat /\ len \in Nat
    BY <1>9, PacketsFitHalves DEF TxShort, WholeInv, TypeInv, TypeOK, DblBuffers
  <2>2. "TX" \notin ep_busy_flag
    BY <1>9 DEF TxShort, MicInv
  <2>3. QED
    BY <1>1, <1>2, <1>9, <2>1, <2>2 DEF TxShort, bufs
<1>10. CASE TxArg \/ TxFill
  BY <1>1, <1>2, <1>10 DEF TxArg, TxFill, bufs
<1>11. CASE TxCount
  <2>1. write_bf'.count = len
    BY <1>11 DEF TxCount, TypeInv, TypeOK, DblBuffers
  <2>2. QED
    BY <1>1, <1>2, <1>11, <2>1 DEF TxCount
<1>12. CASE Claim /\ RecordStore
  <2>1. CASE Load("rxLoad", "rxStore") \/ Load("txLoad", "txStore") \/ Load("fbLoad", "fbStore")
    BY <1>1, <1>2, <2>1 DEF Load, bufs
  <2>2. CASE Store("txStore", "TX", AfterMic)
    BY <1>1, <1>2, <2>2 DEF Store, AfterMic, bufs
  <2>3. CASE Store("rxStore", "RX", "txOpen") \/ Store("fbStore", "FB", "top")
    <3>1. "TX" \in ep_busy_flag' => "TX" \in ep_busy_flag
      BY <1>12, <2>3 DEF Store, RecordStore
    <3>2. QED
      BY <1>1, <1>2, <2>3, <3>1 DEF Store, bufs
  <2>4. QED
    BY <1>12, <2>1, <2>2, <2>3 DEF Claim
<1>13. QED
  BY <1>3, <1>4, <1>5, <1>6, <1>7, <1>8, <1>9, <1>10, <1>11, <1>12 DEF TimedMain, TxPad

\* An in callback comes when write_samples has a packet ready.
LEMMA EventFollow ==
    ASSUME TypeInv, OwnInv, PaceInv, MicInv, FollowInv, TimedNext, ~TimedMain
    PROVE  MicInv' /\ FollowInv'
<1> USE DEF MicInv, FollowInv, Want
<1>1. CASE TimedOpenSpeaker
  BY <1>1 DEF TimedOpenSpeaker, OpenSpeaker, Speaker, rates, main, host
<1>2. CASE TimedOpenMic
  <2>1. 2 \notin streams /\ txArmed = None /\ pc \notin TxWork
    BY <1>2 DEF TimedOpenMic, OpenMic, MayOpen, OwnInv, PaceInv, TxInv
  <2>2. QED
    BY <1>2, <2>1 DEF TimedOpenMic, OpenMic, Mic, rates, main, host, hist, TxWork, Counting
<1>3. ASSUME NEW intf \in Interfaces, TimedClose(intf) PROVE MicInv' /\ FollowInv'
  <2>1. closes' = 0 => closes = 0 /\ intf \notin streams \cup {0}
    BY <1>3, TaskAssumption DEF TimedClose, Close, TypeInv, TypeOK
  <2>2. QED
    BY <1>3, <2>1, TaskAssumption DEF TimedClose, Close, Speaker, Mic, rates, bufs, main
<1>4. ASSUME NEW n \in OutLens, TimedOutDone(n) PROVE MicInv' /\ FollowInv'
  BY <1>4 DEF TimedOutDone, OutDone, rates, main
<1>5. CASE TimedInDone
  <2>1. pc \notin TxWork /\ write_bf'.count = write_bf.count /\ 2 \in streams
    BY <1>5, FlipTyped, PacketsFitHalves
       DEF TimedInDone, InDone, PaceInv, TxInv, TypeInv, TypeOK
  <2>2. MicInv'
    BY <1>5, <2>1 DEF TimedInDone, InDone, main, host
  <2>3. closes = 0 => "TX" \in ep_busy_flag
    BY <1>5, <2>1 DEF TimedInDone, PaceInv, TxInv, Quiet
  <2>4. txArmed'.len = write_bf.count
    BY <1>5 DEF TimedInDone, InDone
  <2>5. /\ "TX" \notin ep_busy_flag' /\ UNCHANGED <<closes, clobbered, cur_inp_freq, pc>>
        /\ since' = 2 => since # 0
    BY <1>5 DEF TimedInDone, InDone, rates, main, host
  <2>6. FollowInv'
    BY <2>1, <2>3, <2>4, <2>5 DEF TxWork, Counting
  <2>7. QED
    BY <2>2, <2>6
<1>6. CASE Untimed
  BY <1>6 DEF Untimed, Configure, FbDone, SetOutFreq, usb, rates, bufs, main, host, hist
<1>7. ASSUME NEW freq \in InpFreqs, TimedSetInpFreq(freq) PROVE MicInv' /\ FollowInv'
  BY <1>7 DEF TimedSetInpFreq, SetInpFreq, usb, bufs, main, host
<1>8. CASE TimedReset
  BY <1>8, TaskAssumption DEF TimedReset, BusReset, TypeInv, TypeOK, main
<1>9. QED
  BY <1>1, <1>2, <1>3, <1>4, <1>5, <1>6, <1>7, <1>8 DEF TimedNext

LEMMA StepFollow ==
    TypeInv /\ OwnInv /\ PaceInv /\ WholeInv /\ MicInv /\ FollowInv /\ [TimedNext]_timedVars
        => MicInv' /\ FollowInv'
<1> SUFFICES ASSUME TypeInv, OwnInv, PaceInv, WholeInv, MicInv, FollowInv,
                    [TimedNext]_timedVars
             PROVE  MicInv' /\ FollowInv'
  OBVIOUS
<1>1. CASE UNCHANGED timedVars
  BY <1>1 DEF MicInv, FollowInv, Want, timedVars, vars, usb, rates, bufs, main, host, hist
<1>2. TimedMain => Main
  BY DEF TimedMain, Main
<1>3. QED
  BY <1>1, <1>2, MainMic, MainFollow, EventFollow

\* After a change of the microphone's frequency at most two packets of the old size reach
\* the host, the armed one and the prepared one: the second in callback arms a new one.
THEOREM MicFollowsCorrect == ~EarlyOpen => (TimedSpec => []MicFollows)
<1> SUFFICES ASSUME ~EarlyOpen PROVE TimedSpec => []MicFollows
  OBVIOUS
<1>1. TimedSpec => [](TypeInv /\ OwnInv /\ PaceInv /\ WholeInv)
  BY WholeCorrect
<1>2. TimedSpec => [](MicInv /\ FollowInv)
  BY <1>1, InitFollow, StepFollow, PTL DEF TimedSpec
<1>3. FollowInv => MicFollows
  BY DEF FollowInv, MicFollows, Want
<1>4. QED
  BY <1>2, <1>3, PTL
-----------------------------------------------------------------------------
(***************************************************************************)
(* Every packet is copied unless the clearing that announced it is undone. *)
(***************************************************************************)

\* The half that is not in use holds the bytes the host sent last, none of them
\* copied yet.
Latest ==
    /\ read_bf.count > 0 /\ copied + read_bf.count <= sent
    /\ \A i \in 1..read_bf.count : rxMem[Other(read_bf)][i] = sent - read_bf.count + i

\* Where the loop is, in the first pass begun after a packet, until it copies it.
Copying == {"rxOpen", "rxBusy", "rxPos", "rxLen", "rxCopy"}

\* An unread packet is the latest one, and read_samples that works meanwhile works
\* on it.
UnreadInv ==
    unread => /\ "RX" \in open_flag /\ Latest
              /\ pc \in {"rxLen", "rxCopy"} => half = Other(read_bf)
              /\ pc = "rxCopy" => len = read_bf.count

\* As long as no store has undone its announcement, EP_RX_FLAG is clear and the pass
\* that has begun since is still on its way to the copy.
AnnouncedInv ==
    unread /\ "RX" \notin clobbered =>
        /\ "RX" \notin ep_busy_flag /\ pc \notin {"rxLoad", "rxStore"}
        /\ rxGap # 2
        /\ rxGap = 1 => pc \in Copying

\* The stream so far: copies and both halves hold bytes the host has sent.
StreamInv ==
    /\ 1 \in streams => "RX" \in open_flag
    /\ copied \in 0..sent
    /\ \A h \in 0..1, i \in 1..AUDIO_OUT_PACKET_SZ : rxMem[h][i] <= sent

LossInv == StreamInv /\ UnreadInv /\ AnnouncedInv

LEMMA InitLossInv == TimedInit => LossInv
<1> SUFFICES ASSUME TimedInit PROVE LossInv
  OBVIOUS
<1>1. StreamInv
  BY PacketsFitHalves DEF TimedInit, Init, StreamInv
<1>2. UnreadInv /\ AnnouncedInv
  BY DEF TimedInit, UnreadInv, AnnouncedInv
<1>3. QED
  BY <1>1, <1>2 DEF LossInv

\* read_samples on an unread packet takes all of it.
LEMMA CopyTakesLatest ==
    ASSUME TypeInv, LossInv, RxCopy, RecordCopy
    PROVE  /\ ~unread'
           /\ copied' \in 0..sent
<1>1. /\ len \in 0..AUDIO_OUT_PACKET_SZ /\ half \in 0..1 /\ pc = "rxCopy"
      /\ AUDIO_OUT_PACKET_SZ \in Nat
  BY PacketsFitHalves DEF RxCopy, Goto, TypeInv, TypeOK, LocalsFit
<1>2. \A i \in 1..len : RxData[i] = rxMem[half][i]
  BY DEF RxData
<1>3. \A i \in 1..len : RxData[i] \in 0..sent
  <2>1. ASSUME NEW i \in 1..len PROVE RxData[i] \in 0..sent
    <3>1. i \in 1..AUDIO_OUT_PACKET_SZ
      BY <1>1
    <3>2. rxMem[half][i] \in 0..MaxPos
      BY <1>1, <3>1, HalfReplaced DEF TypeInv, TypeOK
    <3>3. rxMem[half][i] <= sent
      BY <1>1, <3>1 DEF LossInv, StreamInv
    <3>4. QED
      BY <1>2, <3>2, <3>3, TaskAssumption DEF TypeInv, TypeOK
  <2>2. QED
    BY <2>1
<1>4. copied \in 0..sent /\ sent \in Nat
  BY TaskAssumption DEF LossInv, StreamInv, TypeInv, TypeOK
<1>5. copied' \in 0..sent
  BY <1>1, <1>3, <1>4 DEF RecordCopy
<1>6. ASSUME unread PROVE ~unread'
  <2>1. /\ len = read_bf.count /\ half = Other(read_bf)
        /\ len > 0 /\ copied + len <= sent
        /\ \A i \in 1..len : rxMem[half][i] = sent - len + i
    BY <1>1, <1>6 DEF LossInv, UnreadInv, Latest
  <2>2. RxData[1] = sent - len + 1 /\ RxData[len] = sent
    BY <1>1, <1>2, <1>4, <2>1
  <2>3. ~(RxData[1] <= copied)
    BY <1>1, <1>4, <2>1, <2>2
  <2>4. QED
    BY <2>1, <2>2, <2>3 DEF RecordCopy
<1>7. ASSUME ~unread PROVE ~unread'
  BY <1>7 DEF RecordCopy
<1>8. QED
  BY <1>5, <1>6, <1>7

\* Steps of the loop that leave the speaker's data and the history alone.
LEMMA LoopLoss ==
    ASSUME TypeInv, OwnInv, PaceInv, LossInv, TimedMain, ~RxCopy, ~InitReadBf
    PROVE  LossInv'
<1> USE DEF Goto
<1>1. /\ UNCHANGED <<streams, open_flag, copied, sent, rxMem, unread, read_bf>>
      /\ clobbered \subseteq clobbered'
  BY DEF TimedMain, RecordStore, RecordFill, hist, usb, bufs, mem, host, WaitConfigured, RingInit,
         InitWriteBf,
         TestOpen, TestRead, TestWrite, TestFb, Branch, RxPos, RxLen, TxPos, TxNeed, TxRead, TxPad, TxShort, TxArg, TxFill, TxCount,
         Claim, Load, Store
<1>2. StreamInv'
  BY <1>1 DEF LossInv, StreamInv
<1>3. /\ Latest' = Latest
      /\ Other(read_bf)' = Other(read_bf)
  BY <1>1 DEF Latest
<1>4. UnreadInv'
  <2>1. CASE RxPos
    BY <1>1, <1>3, <2>1 DEF LossInv, UnreadInv, RxPos
  <2>2. CASE RxLen
    BY <1>1, <1>3, <2>2 DEF LossInv, UnreadInv, RxLen
  <2>3. CASE ~RxPos /\ ~RxLen
    <3>1. pc' \notin {"rxLen", "rxCopy"}
      BY <2>3
         DEF TimedMain, WaitConfigured, RingInit, InitWriteBf, TestOpen, TestRead,
             TestWrite,
                  TestFb, Branch, AfterMic, TxPos, TxNeed, TxRead, TxPad, TxShort, TxArg, TxFill, TxCount, Claim, Load, Store
    <3>2. QED
      BY <1>1, <1>3, <3>1 DEF LossInv, UnreadInv
  <2>4. QED
    BY <2>1, <2>2, <2>3
<1>5. AnnouncedInv'
  <2> SUFFICES ASSUME unread', "RX" \notin clobbered' PROVE AnnouncedInv'
    BY DEF AnnouncedInv
  <2>1. /\ unread /\ "RX" \notin clobbered
        /\ "RX" \in open_flag
        /\ "RX" \notin ep_busy_flag /\ pc \notin {"rxLoad", "rxStore"}
        /\ rxGap # 2
        /\ rxGap = 1 => pc \in Copying
    BY <1>1 DEF LossInv, StreamInv, UnreadInv, AnnouncedInv
  <2>2. /\ pc # "top" => rxGap' = rxGap
        /\ pc = "top" => rxGap' = IF rxGap = 0 THEN 1 ELSE 2
        /\ rxGap \in 0..2
    BY PassCounted DEF PaceInv, Gaps
  <2>3. pc \notin Boot
    BY <2>1 DEF PaceInv, BootInv
  <2> USE DEF AnnouncedInv, Copying
  <2>4. CASE WaitConfigured \/ RingInit \/ InitWriteBf
    BY <2>3, <2>4 DEF WaitConfigured, RingInit, InitWriteBf, Branch, Boot
  <2>5. CASE TestOpen
    BY <2>1, <2>2, <2>5 DEF TestOpen, Branch
  <2>6. CASE TestRead
    BY <2>1, <2>2, <2>6 DEF TestRead, Branch
  <2>7. CASE TestWrite \/ TestFb
    BY <2>1, <2>2, <2>7 DEF TestWrite, TestFb, AfterMic, Branch
  <2>8. CASE RxPos \/ RxLen
    BY <2>1, <2>2, <2>8 DEF RxPos, RxLen
  <2>9. CASE TxPos \/ TxNeed \/ TxRead \/ TxPad
    BY <2>1, <2>2, <2>9 DEF TxPos, TxNeed, TxRead, TxPad, TxShort, TxArg, TxFill, TxCount
  <2>10. CASE Claim /\ RecordStore
    <3>1. CASE Load("txLoad", "txStore") \/ Load("fbLoad", "fbStore")
      BY <2>1, <2>2, <3>1 DEF Load
    <3>2. CASE Store("txStore", "TX", AfterMic)
      BY <2>1, <2>2, <2>10, <3>2 DEF Store, AfterMic, RecordStore
    <3>3. CASE Store("fbStore", "FB", "top")
      BY <2>1, <2>2, <2>10, <3>3 DEF Store, RecordStore
    <3>4. QED
      BY <2>1, <2>10, <3>1, <3>2, <3>3 DEF Claim, Load, Store
  <2>11. QED
    BY <2>4, <2>5, <2>6, <2>7, <2>8, <2>9, <2>10 DEF TimedMain
<1>6. QED
  BY <1>2, <1>4, <1>5 DEF LossInv

LEMMA MainLoss ==
    ASSUME TypeInv, OwnInv, PaceInv, LossInv, TimedMain
    PROVE  LossInv'
<1>1. CASE RxCopy
  <2>1. RecordCopy
    BY <1>1
       DEF TimedMain, RxCopy, Goto, Claim, Load, Store, WaitConfigured, RingInit,
           InitWriteBf,
                InitReadBf, TestOpen, TestRead, TestWrite, TestFb, Branch, RxPos, RxLen,
                TxPos, TxNeed, TxRead, TxPad, TxShort, TxArg, TxFill, TxCount
  <2>2. ~unread' /\ copied' \in 0..sent
    BY <1>1, <2>1, CopyTakesLatest
  <2>3. QED
    BY <1>1, <2>2 DEF LossInv, StreamInv, UnreadInv, AnnouncedInv, RxCopy, usb, host
<1>2. CASE InitReadBf
  <2>1. ~unread /\ pc \notin {"rxCopy", "rxLoad", "rxStore", "txLoad", "txStore",
                               "fbLoad", "fbStore"}
    BY <1>2 DEF InitReadBf, Goto, LossInv, UnreadInv, PaceInv, BootInv, Boot
  <2>2. UNCHANGED hist
    BY <1>2 DEF TimedMain, InitReadBf, RxCopy, TxRead, Goto, Claim, Load, Store
  <2>3. QED
    BY <1>2, <2>1, <2>2
       DEF LossInv, StreamInv, UnreadInv, AnnouncedInv, InitReadBf, hist, usb, mem,
           host
<1>3. QED
  BY <1>1, <1>2, LoopLoss

\* A packet is announced with its bytes in the half that is no longer in use.
LEMMA OutDoneLoss ==
    ASSUME TypeInv, OwnInv, PaceInv, LossInv, NEW n \in OutLens, TimedOutDone(n)
    PROVE  LossInv'
<1>1. /\ n \in Nat /\ n <= AUDIO_OUT_PACKET_SZ /\ AUDIO_OUT_PACKET_SZ \in Nat
      /\ rxArmed.half \in 0..1 /\ sent \in Nat /\ read_bf.buffer_pos \in 0..1
  BY PacketsFitHalves, TaskAssumption
  DEF OutLens, TimedOutDone, OutDone, TypeInv, TypeOK, Transfers, None, DblBuffers
<1>2. /\ read_bf'.count = n
      /\ Other(read_bf') = rxArmed.half
      /\ sent' = sent + n
  BY <1>1
     DEF TimedOutDone, OutDone, OwnInv, ArmedIsCurrent, Flip, Other, TypeInv, TypeOK,
         DblBuffers
<1>3. \A h \in 0..1, i \in 1..AUDIO_OUT_PACKET_SZ :
         rxMem'[h][i] = IF h = rxArmed.half /\ i <= n THEN sent + i ELSE rxMem[h][i]
  <2>1. rxMem \in [0..1 -> [1..AUDIO_OUT_PACKET_SZ -> 0..MaxPos]]
    BY DEF TypeInv, TypeOK, Halves
  <2>2. QED
    BY <1>1, <2>1 DEF TimedOutDone, OutDone
<1>4. copied \in 0..sent /\ copied' = copied /\ clobbered' = clobbered
  BY DEF LossInv, StreamInv, TimedOutDone
<1>5. StreamInv'
  <2>1. \A h \in 0..1, i \in 1..AUDIO_OUT_PACKET_SZ : rxMem'[h][i] <= sent + n
    <3>1. ASSUME NEW h \in 0..1, NEW i \in 1..AUDIO_OUT_PACKET_SZ
          PROVE  rxMem'[h][i] <= sent + n
      <4>1. rxMem[h][i] <= sent /\ rxMem[h][i] \in 0..MaxPos
        BY HalfReplaced, <1>1 DEF LossInv, StreamInv, TypeInv, TypeOK
      <4>2. QED
        BY <1>1, <1>3, <4>1, TaskAssumption
    <3>2. QED
      BY <3>1
  <2>2. QED
    BY <1>1, <1>2, <1>4, <2>1 DEF LossInv, StreamInv, TimedOutDone, OutDone
<1>6. pc' = pc /\ pc \notin RxWork /\ rxGap' = 0 /\ unread' = (n > 0)
      /\ "RX" \notin ep_busy_flag' /\ "RX" \in open_flag'
  BY DEF TimedOutDone, OutDone, PaceInv, RxInv, main, LossInv, StreamInv
<1>7. n > 0 => Latest'
  <2>1. \A i \in 1..n : rxMem'[rxArmed.half][i] = sent + i
    BY <1>1, <1>3
  <2>2. QED
    BY <1>1, <1>2, <1>4, <2>1 DEF Latest
<1>8. unread' => Latest'
  BY <1>6, <1>7
<1>9. pc' \notin {"rxLen", "rxCopy", "rxLoad", "rxStore"}
  BY <1>6 DEF RxWork
<1>10. UnreadInv'
  BY <1>6, <1>8, <1>9 DEF UnreadInv
<1>11. AnnouncedInv'
  BY <1>6, <1>9 DEF AnnouncedInv
<1>12. QED
  BY <1>5, <1>10, <1>11 DEF LossInv

LEMMA EventLoss ==
    ASSUME TypeInv, OwnInv, PaceInv, LossInv, TimedNext, ~TimedMain
    PROVE  LossInv'
<1> USE DEF LossInv, StreamInv, UnreadInv, AnnouncedInv
<1>1. CASE TimedOpenSpeaker
  BY <1>1 DEF TimedOpenSpeaker, OpenSpeaker, Speaker, mem, host
<1>2. CASE TimedOpenMic
  <2>1. Latest' = Latest /\ Other(read_bf)' = Other(read_bf)
    BY <1>2 DEF TimedOpenMic, OpenMic, Latest, hist, mem, host
  <2>2. QED
    BY <1>2, <2>1 DEF TimedOpenMic, OpenMic, hist, mem, main, host
<1>3. ASSUME NEW intf \in Interfaces, TimedClose(intf) PROVE LossInv'
  <2>1. Latest' = Latest /\ Other(read_bf)' = Other(read_bf)
    BY <1>3 DEF TimedClose, Close, Latest, bufs, mem
  <2>2. CASE intf = 1
    BY <1>3, <2>2 DEF TimedClose, Close, mem
  <2>3. CASE intf # 1
    BY <1>3, <2>1, <2>3 DEF TimedClose, Close, Mic, bufs, mem, main
  <2>4. QED
    BY <2>2, <2>3
<1>4. ASSUME NEW n \in OutLens, TimedOutDone(n) PROVE LossInv'
  BY <1>4, OutDoneLoss
<1>5. CASE TimedInDone
  <2>1. Latest' = Latest /\ Other(read_bf)' = Other(read_bf)
    BY <1>5 DEF TimedInDone, InDone, Latest, mem, host
  <2>2. QED
    BY <1>5, <2>1 DEF TimedInDone, InDone, mem, main, host
<1>6. CASE Untimed \/ \E freq \in InpFreqs : TimedSetInpFreq(freq)
  <2>1. Latest' = Latest /\ Other(read_bf)' = Other(read_bf)
    BY <1>6
       DEF Untimed, TimedSetInpFreq, Configure, FbDone, SetOutFreq, SetInpFreq, Latest, hist, bufs, mem,
           host
  <2>2. UNCHANGED <<streams, open_flag, copied, sent, rxMem, unread, clobbered, pc, half, len,
                    read_bf, rxGap>>
    BY <1>6
       DEF Untimed, TimedSetInpFreq, Configure, FbDone, SetOutFreq, SetInpFreq, hist, gaps, usb, bufs,
           mem, main, host
  <2>3. ep_busy_flag' \subseteq ep_busy_flag
    BY <1>6 DEF Untimed, TimedSetInpFreq, Configure, FbDone, SetOutFreq, SetInpFreq
  <2>4. QED
    BY <2>1, <2>2, <2>3
<1>7. CASE TimedReset
  <2>1. Latest' = Latest /\ Other(read_bf)' = Other(read_bf)
    BY <1>7 DEF TimedReset, BusReset, Latest, hist, bufs, mem
  <2>2. QED
    BY <1>7, <2>1 DEF TimedReset, BusReset, hist, bufs, mem, main
<1>8. QED
  BY <1>1, <1>2, <1>3, <1>4, <1>5, <1>6, <1>7 DEF TimedNext

LEMMA StepLossInv ==
    TypeInv /\ OwnInv /\ PaceInv /\ LossInv /\ [TimedNext]_timedVars => LossInv'
<1> SUFFICES ASSUME TypeInv, OwnInv, PaceInv, LossInv, [TimedNext]_timedVars PROVE LossInv'
  OBVIOUS
<1>1. CASE UNCHANGED timedVars
  BY <1>1 DEF LossInv, StreamInv, UnreadInv, AnnouncedInv, Latest,
              timedVars, hist, gaps, vars, usb, bufs, mem, main, host
<1>2. QED
  BY <1>1, MainLoss, EventLoss

LEMMA OutDoneIsTimed ==
    ASSUME TypeInv, TimedNext, NEW n \in OutLens, OutDone(n)
    PROVE  rxGap = 2
<1>1. pc' = pc /\ read_bf'.buffer_pos # read_bf.buffer_pos
  BY FlipTyped, PacketsFitHalves DEF OutDone, main, TypeInv, TypeOK, Flip, DblBuffers
<1>2. read_bf' # read_bf
  BY <1>1
<1>3. ~TimedMain
  BY <1>1, <1>2
  DEF TimedMain, Goto, WaitConfigured, RingInit, InitWriteBf, InitReadBf, TestOpen, TestRead,
      TestWrite, TestFb, Branch, RxPos, RxLen, RxCopy, TxPos, TxNeed, TxRead, TxPad, TxShort, TxArg, TxFill, TxCount,
      Claim, Load, Store, bufs
<1>4. QED
  BY <1>2, <1>3
  DEF TimedNext, TimedOpenSpeaker, TimedOpenMic, OpenMic, TimedOutDone, TimedInDone, InDone,
      TimedClose, Close, TimedReset, BusReset, Untimed, TimedSetInpFreq, Configure, FbDone, SetOutFreq,
      SetInpFreq, bufs

\* All data from the speaker is copied, packet by packet, as long as no store of
\* ep_busy_flag undoes the clearing of EP_RX_FLAG by an out callback: that race is
\* the only way to lose a packet before the ring buffer.
THEOREM LossOnlyByClobber == ~EarlyOpen => (TimedSpec => LossNeedsClobber)
<1> SUFFICES ASSUME ~EarlyOpen PROVE TimedSpec => LossNeedsClobber
  OBVIOUS
<1>1. TimedSpec => [](TypeInv /\ OwnInv /\ PaceInv)
  BY PaceCorrect
<1>2. TimedSpec => []LossInv
  BY <1>1, InitLossInv, StepLossInv, PTL DEF TimedSpec
<1>3. TypeInv /\ LossInv /\ [TimedNext]_timedVars
         => [(\E n \in OutLens : OutDone(n)) /\ unread => "RX" \in clobbered]_timedVars
  BY OutDoneIsTimed DEF LossInv, AnnouncedInv
<1>4. QED
  BY <1>1, <1>2, <1>3, PTL DEF TimedSpec, LossNeedsClobber
-----------------------------------------------------------------------------
(***************************************************************************)
(* A packet is copied again only after a close under the loop.             *)
(***************************************************************************)

\* The loop is on its way to copy bytes that are not new.
Repeats ==
    /\ pc \in {"rxPos", "rxLen", "rxCopy"} \/ (pc = "rxBusy" /\ "RX" \notin ep_busy_flag)
    /\ ~unread /\ read_bf.count > 0

\* Nothing new for an open speaker whose EP_RX_FLAG is clear: the count is 0, as the
\* open callback left it.
FreshInv ==
    /\ "RX" \in open_flag \ ep_busy_flag /\ pc \notin {"rxLoad", "rxStore"}
          => unread \/ read_bf.count = 0
    /\ pc \in {"txStore", "fbStore"} /\ "RX" \in open_flag \ reg
          => unread \/ read_bf.count = 0
    /\ pc = "rxBusy" /\ "RX" \notin open_flag => "RX" \notin ep_busy_flag
    /\ pc = "rxCopy" /\ len > 0 => read_bf.count > 0

\* A bus reset has left the flags of the speaker behind: a close to come repeats a
\* packet without being counted again.
Left == "RX" \in open_flag /\ 1 \notin streams

\* Repeated copies that the closes and resets so far still allow.
Owed == (IF Repeats THEN 1 ELSE 0) + (IF Left THEN 1 ELSE 0)

StaleInv == FreshInv /\ stale \in Nat /\ stale + Owed <= closes

LEMMA InitStaleInv == TimedInit => StaleInv
BY TaskAssumption DEF TimedInit, Init, StaleInv, FreshInv, Repeats, Left, Owed

LEMMA CopyStale ==
    ASSUME TypeInv, OwnInv, PaceInv, LossInv, StaleInv, RxCopy, RecordCopy
    PROVE  StaleInv'
<1>1. pc = "rxCopy" /\ pc' = "rxLoad" /\ ~unread'
      /\ UNCHANGED <<streams, open_flag, ep_busy_flag, read_bf, closes>>
  BY CopyTakesLatest DEF RxCopy, Goto, usb, bufs, host
<1>2. FreshInv'
  BY <1>1 DEF StaleInv, FreshInv
<1>3. ~Repeats' /\ Left' = Left
  BY <1>1 DEF Repeats, Left
<1>4. /\ stale \in Nat /\ closes \in Nat /\ stale + Owed <= closes /\ read_bf.count \in Nat
      /\ len > 0 => read_bf.count > 0
  BY <1>1, TaskAssumption, PacketsFitHalves DEF StaleInv, FreshInv, TypeInv, TypeOK, DblBuffers
<1>5. CASE stale' = stale
  BY <1>1, <1>2, <1>3, <1>4, <1>5 DEF StaleInv, Owed
<1>6. CASE stale' # stale
  <2>1. stale' = stale + 1 /\ len > 0 /\ RxData[1] <= copied
    BY <1>6 DEF RecordCopy
  <2>2. ~unread
    <3>1. SUFFICES ASSUME unread PROVE FALSE
      OBVIOUS
    <3>2. /\ len = read_bf.count /\ half = Other(read_bf) /\ copied + len <= sent
          /\ \A i \in 1..len : rxMem[half][i] = sent - len + i
      BY <1>1, <3>1 DEF LossInv, UnreadInv, Latest
    <3>3. len \in Nat /\ copied \in Nat /\ sent \in Nat
      BY TaskAssumption DEF LossInv, StreamInv, TypeInv, TypeOK
    <3>4. RxData[1] = sent - len + 1
      BY <2>1, <3>2, <3>3 DEF RxData
    <3>5. QED
      BY <2>1, <3>2, <3>3, <3>4
  <2>3. Repeats
    BY <1>1, <1>4, <2>1, <2>2 DEF Repeats
  <2>4. QED
    BY <1>1, <1>2, <1>3, <1>4, <2>1, <2>3 DEF StaleInv, Owed
<1>7. QED
  BY <1>5, <1>6

LEMMA MainStale ==
    ASSUME TypeInv, OwnInv, PaceInv, LossInv, StaleInv, TimedMain, ~RxCopy
    PROVE  StaleInv'
<1> USE DEF Goto
<1>1. UNCHANGED <<streams, open_flag, stale, unread, closes>>
  BY DEF TimedMain, RecordStore, RecordFill, hist, usb, host, WaitConfigured, RingInit,
         InitWriteBf, InitReadBf,
         TestOpen, TestRead, TestWrite, TestFb, Branch, RxPos, RxLen, TxPos, TxNeed, TxRead, TxPad, TxShort, TxArg, TxFill, TxCount,
         Claim, Load, Store
<1>2. /\ stale \in Nat /\ closes \in Nat /\ stale + Owed <= closes
      /\ FreshInv
  BY TaskAssumption DEF StaleInv, TypeInv, TypeOK
<1>3. ASSUME FreshInv', Repeats' => Repeats PROVE StaleInv'
  <2>1. Left' = Left
    BY <1>1 DEF Left
  <2>2. QED
    BY <1>1, <1>2, <1>3, <2>1 DEF StaleInv, Owed
<1> USE DEF FreshInv, Repeats
<1>4. CASE WaitConfigured \/ RingInit \/ InitWriteBf \/ InitReadBf
  <2>1. "RX" \notin open_flag
    BY <1>2, <1>4 DEF PaceInv, BootInv, Boot, WaitConfigured, RingInit, InitWriteBf, InitReadBf, Branch
  <2>2. pc' \in Boot \cup {"top"}
    BY <1>4 DEF Boot, WaitConfigured, RingInit, InitWriteBf, InitReadBf, Branch
  <2>3. FreshInv' /\ ~Repeats'
    BY <1>1, <1>2, <2>1, <2>2 DEF Boot
  <2>4. QED
    BY <1>3, <2>3
<1>5. CASE TestOpen \/ TestWrite \/ TestFb
  <2>1. FreshInv'
    BY <1>1, <1>2, <1>5 DEF TestOpen, TestWrite, TestFb, Branch, AfterMic, bufs
  <2>2. ~Repeats'
    BY <1>5 DEF TestOpen, TestWrite, TestFb, Branch, AfterMic
  <2>3. QED
    BY <1>3, <2>1, <2>2
<1>6. CASE TestRead
  <2>1. /\ FreshInv'
        /\ Repeats' => Repeats
    BY <1>1, <1>2, <1>6, PacketsFitHalves
       DEF TestRead, Branch, bufs, TypeInv, TypeOK, DblBuffers
  <2>2. QED
    BY <1>3, <2>1
<1>7. CASE RxPos \/ RxLen
  <2>1. /\ FreshInv'
        /\ Repeats' => Repeats
    BY <1>1, <1>2, <1>7 DEF RxPos, RxLen, bufs
  <2>2. QED
    BY <1>3, <2>1
<1>8. CASE TxPos \/ TxNeed \/ TxRead \/ TxPad
  <2>1. FreshInv' /\ ~Repeats'
    BY <1>1, <1>2, <1>8 DEF TxPos, TxNeed, TxRead, TxPad, TxShort, TxArg, TxFill, TxCount, bufs
  <2>2. QED
    BY <1>3, <2>1
<1>9. CASE Claim
  <2>1. CASE Load("rxLoad", "rxStore") \/ Load("txLoad", "txStore") \/ Load("fbLoad", "fbStore")
    BY <1>1, <1>2, <1>3, <2>1 DEF Load, bufs
  <2>2. CASE Store("rxStore", "RX", "txOpen")
    BY <1>1, <1>2, <1>3, <2>2 DEF Store, bufs
  <2>3. CASE Store("txStore", "TX", AfterMic)
    BY <1>1, <1>2, <1>3, <2>3 DEF Store, AfterMic, bufs
  <2>4. CASE Store("fbStore", "FB", "top")
    BY <1>1, <1>2, <1>3, <2>4 DEF Store, bufs
  <2>5. QED
    BY <1>9, <2>1, <2>2, <2>3, <2>4 DEF Claim
<1>10. QED
  BY <1>4, <1>5, <1>6, <1>7, <1>8, <1>9 DEF TimedMain

\* Events that leave the speaker as it is.
LEMMA OtherStale ==
    ASSUME TypeInv, StaleInv, stale' = stale, closes' \in Nat, closes <= closes',
           FreshInv', Repeats' => Repeats, Left' => Left \/ closes < closes'
    PROVE  StaleInv'
<1>1. stale \in Nat /\ closes \in Nat /\ stale + Owed <= closes
  BY TaskAssumption DEF StaleInv, TypeInv, TypeOK
<1>2. Owed \in {0, 1, 2} /\ Owed' \in {0, 1, 2}
  BY DEF Owed
<1>3. Owed' <= Owed \/ (Owed' <= Owed + 1 /\ closes < closes')
  BY DEF Owed
<1>4. ASSUME NEW x \in {0, 1, 2}, NEW y \in {0, 1, 2}, x = Owed, y = Owed'
      PROVE  stale + y <= closes'
  <2>1. stale + x <= closes /\ (y <= x \/ (y <= x + 1 /\ closes < closes'))
    BY <1>1, <1>3, <1>4, Zenon
  <2>2. QED
    BY <1>1, <2>1
<1>5. stale + Owed' <= closes'
  BY <1>2, <1>4, Zenon
<1>6. QED
  BY <1>1, <1>5, Zenon DEF StaleInv

LEMMA EventStale ==
    ASSUME TypeInv, OwnInv, PaceInv, LossInv, StaleInv, TimedNext, ~TimedMain
    PROVE  StaleInv'
<1>1. /\ stale \in Nat /\ closes \in Nat /\ read_bf.count \in Nat
      /\ stale + Owed <= closes
      /\ FreshInv
  BY TaskAssumption, PacketsFitHalves DEF StaleInv, TypeInv, TypeOK, DblBuffers
<1> USE DEF FreshInv, Repeats
<1>2. CASE TimedOpenSpeaker
  <2>1. /\ read_bf'.count = 0 /\ pc' = pc /\ reg' = reg /\ len' = len /\ pc \notin RxWork
        /\ streams' = streams \cup {1} /\ open_flag' = open_flag \cup Speaker
        /\ stale' = stale /\ closes' = closes
    BY <1>2 DEF TimedOpenSpeaker, OpenSpeaker, dbl_buffer_reset, PaceInv, RxInv, main, host
  <2>2. FreshInv' /\ ~Repeats'
    BY <1>2, <2>1 DEF TimedOpenSpeaker, OpenSpeaker, Speaker, RxWork
  <2>3. ~Left'
    BY <2>1 DEF Left
  <2> HIDE DEF FreshInv, Repeats
  <2>4. QED
    BY <1>1, <2>1, <2>2, <2>3, OtherStale
<1>3. CASE TimedOpenMic
  <2>1. UNCHANGED <<ep_busy_flag, read_bf, pc, reg, len, stale, unread, closes>>
    BY <1>3 DEF TimedOpenMic, OpenMic, main, host, hist
  <2>2. /\ 1 \in streams' <=> 1 \in streams
        /\ "RX" \in open_flag' <=> "RX" \in open_flag
    BY <1>3 DEF TimedOpenMic, OpenMic, Mic
  <2>3. FreshInv' /\ (Repeats' => Repeats) /\ (Left' => Left)
    BY <1>1, <2>1, <2>2 DEF Left
  <2> HIDE DEF FreshInv, Repeats
  <2>4. QED
    BY <1>1, <2>1, <2>3, OtherStale
<1>4. ASSUME NEW intf \in Interfaces, TimedClose(intf) PROVE StaleInv'
  <2>1. UNCHANGED <<read_bf, pc, reg, len, stale>>
    BY <1>4 DEF TimedClose, Close, bufs, main
  <2>2. closes' = IF intf \in streams \cup {0} THEN closes + 1 ELSE closes
    BY <1>4 DEF TimedClose, Close
  <2>3. CASE intf = 1
    <3>1. /\ 1 \notin streams' /\ "RX" \notin open_flag' /\ "RX" \notin ep_busy_flag' /\ ~unread'
      BY <1>4, <2>3 DEF TimedClose, Close, Speaker
    <3>2. FreshInv' /\ ~Left'
      BY <1>1, <2>1, <3>1 DEF Left
    <3>3. CASE 1 \in streams \/ Left
      <4>1. Owed' \in 0..1
        BY <3>2 DEF Owed
      <4>2. closes' = closes + 1 \/ (closes' = closes /\ 1 <= Owed)
        BY <2>2, <2>3, <3>3 DEF Owed, Left
      <4>3. Owed \in 0..2
        BY DEF Owed
      <4> HIDE DEF FreshInv, Repeats
      <4>4. QED
        BY <1>1, <2>1, <3>2, <4>1, <4>2, <4>3 DEF StaleInv
    <3>4. CASE 1 \notin streams /\ ~Left
      <4>1. "RX" \notin open_flag /\ ~unread
        BY <3>4 DEF Left, LossInv, UnreadInv
      <4>2. Repeats' => Repeats
        BY <1>1, <2>1, <4>1
      <4> HIDE DEF FreshInv, Repeats
      <4>3. QED
        BY <1>1, <2>1, <2>2, <3>2, <4>2, OtherStale
    <3>5. QED
      BY <3>3, <3>4
  <2>4. CASE intf # 1
    <3>1. /\ 1 \in streams' <=> 1 \in streams
          /\ "RX" \in open_flag' <=> "RX" \in open_flag
          /\ "RX" \in ep_busy_flag' <=> "RX" \in ep_busy_flag
          /\ unread' <=> unread
      BY <1>4, <2>4 DEF TimedClose, Close, Mic
    <3>2. FreshInv' /\ (Repeats' => Repeats) /\ (Left' => Left)
      BY <1>1, <2>1, <3>1 DEF Left
    <3> HIDE DEF FreshInv, Repeats
    <3>3. QED
      BY <1>1, <2>1, <2>2, <3>2, OtherStale
  <2>5. QED
    BY <2>3, <2>4
<1>5. ASSUME NEW n \in OutLens, TimedOutDone(n) PROVE StaleInv'
  <2>1. /\ read_bf'.count = n /\ n \in Nat
        /\ pc' = pc /\ reg' = reg /\ len' = len /\ pc \notin RxWork
        /\ UNCHANGED <<streams, open_flag, stale, closes>>
    BY <1>5, PacketsFitHalves DEF TimedOutDone, OutDone, PaceInv, RxInv, main, OutLens, TypeInv,
       TypeOK, Flip, DblBuffers
  <2>2. unread' \/ read_bf'.count = 0
    <3>1. n > 0 => unread'
      BY <1>5, Zenon DEF TimedOutDone
    <3>2. n > 0 \/ n = 0
      BY <2>1
    <3>3. QED
      BY <2>1, <3>1, <3>2
  <2>3. ~Repeats'
    BY <2>1, <2>2
  <2>4. FreshInv'
    <3>1. pc' # "rxCopy"
      BY <2>1 DEF RxWork
    <3>2. pc' = "rxBusy" /\ "RX" \notin open_flag' => "RX" \notin ep_busy_flag'
      BY <1>5 DEF TimedOutDone, OutDone
    <3>3. QED
      BY <2>2, <3>1, <3>2
  <2>5. Left' = Left
    BY <2>1 DEF Left
  <2> HIDE DEF FreshInv, Repeats
  <2>6. QED
    BY <1>1, <2>1, <2>3, <2>4, <2>5, OtherStale
<1>6. CASE \/ TimedInDone \/ Untimed
           \/ \E freq \in InpFreqs : TimedSetInpFreq(freq)
  <2>1. UNCHANGED <<streams, open_flag, read_bf, pc, reg, len, stale, unread, closes>>
    BY <1>6 DEF TimedInDone, InDone, Untimed, TimedSetInpFreq, Configure, FbDone, SetOutFreq, SetInpFreq,
       usb, bufs, main, host, hist
  <2>2. "RX" \in ep_busy_flag' <=> "RX" \in ep_busy_flag
    BY <1>6 DEF TimedInDone, InDone, Untimed, TimedSetInpFreq, Configure, FbDone, SetOutFreq, SetInpFreq
  <2>3. FreshInv' /\ (Repeats' => Repeats) /\ (Left' => Left)
    BY <1>1, <2>1, <2>2 DEF Left
  <2> HIDE DEF FreshInv, Repeats
  <2>4. QED
    BY <1>1, <2>1, <2>3, OtherStale
<1>7. CASE TimedReset
  <2>1. UNCHANGED <<open_flag, ep_busy_flag, read_bf, pc, reg, len, stale, unread>>
    BY <1>7 DEF TimedReset, BusReset, bufs, main, hist
  <2>2. closes' = closes + 1
    BY <1>7 DEF TimedReset, BusReset
  <2>3. FreshInv' /\ (Repeats' => Repeats)
    BY <1>1, <2>1
  <2> HIDE DEF FreshInv, Repeats
  <2>4. QED
    BY <1>1, <2>1, <2>2, <2>3, OtherStale
<1>8. QED
  BY <1>2, <1>3, <1>4, <1>5, <1>6, <1>7 DEF TimedNext

LEMMA StepStaleInv ==
    TypeInv /\ OwnInv /\ PaceInv /\ LossInv /\ StaleInv /\ [TimedNext]_timedVars => StaleInv'
<1> SUFFICES ASSUME TypeInv, OwnInv, PaceInv, LossInv, StaleInv, [TimedNext]_timedVars
             PROVE  StaleInv'
  OBVIOUS
<1>1. CASE UNCHANGED timedVars
  BY <1>1 DEF StaleInv, FreshInv, Repeats, Left, Owed, timedVars, hist, vars, usb, bufs, main, host
<1>2. CASE TimedMain /\ RxCopy
  <2>1. RecordCopy
    BY <1>2
       DEF TimedMain, RxCopy, Goto, Claim, Load, Store, WaitConfigured, RingInit,
           InitWriteBf,
                InitReadBf, TestOpen, TestRead, TestWrite, TestFb, Branch, RxPos, RxLen,
                TxPos, TxNeed, TxRead, TxPad, TxShort, TxArg, TxFill, TxCount
  <2>2. QED
    BY <1>2, <2>1, CopyStale
<1>3. QED
  BY <1>1, <1>2, MainStale, EventStale

\* Each time the host stops a stream or resets the bus read_samples copies at most one
\* packet that it has copied before, and nothing else makes it do so.
THEOREM StaleOnlyByClose == ~EarlyOpen => (TimedSpec => []StaleNeedsClose)
<1> SUFFICES ASSUME ~EarlyOpen PROVE TimedSpec => []StaleNeedsClose
  OBVIOUS
<1>1. TimedSpec => [](TypeInv /\ OwnInv /\ PaceInv)
  BY PaceCorrect
<1>2. TimedSpec => []LossInv
  BY <1>1, InitLossInv, StepLossInv, PTL DEF TimedSpec
<1>3. TimedSpec => []StaleInv
  BY <1>1, <1>2, InitStaleInv, StepStaleInv, PTL DEF TimedSpec
<1>4. TypeInv /\ StaleInv => StaleNeedsClose
  <2>1. Owed \in 0..2
    BY DEF Owed
  <2>2. QED
    BY <2>1, TaskAssumption DEF StaleInv, StaleNeedsClose, TypeInv, TypeOK
<1>5. QED
  BY <1>1, <1>3, <1>4, PTL
-----------------------------------------------------------------------------
(***************************************************************************)
(* The types of the history.                                               *)
(***************************************************************************)

HistType ==
    /\ unread \in BOOLEAN /\ dropped \in BOOLEAN /\ clobbered \subseteq Flags
    /\ filled \in [0..1 -> 0..AUDIO_INP_PACKET_SZ]
    /\ heard \in 0..MaxPos /\ since \in 0..2

LEMMA InitHistType == TimedInit => HistType
<1> SUFFICES ASSUME TimedInit PROVE HistType
  OBVIOUS
<1>1. 0 \in 0..AUDIO_INP_PACKET_SZ /\ 0 \in 0..MaxPos /\ 2 \in 0..2
  BY PacketsFitHalves, TaskAssumption
<1>2. filled \in [0..1 -> 0..AUDIO_INP_PACKET_SZ]
  BY <1>1 DEF TimedInit
<1>3. QED
  BY <1>1, <1>2 DEF TimedInit, HistType

LEMMA MainHistType ==
    ASSUME TypeInv, HistType, TimedMain
    PROVE  HistType'
<1> USE DEF HistType
<1>1. CASE UNCHANGED hist
  BY <1>1 DEF hist
<1>2. CASE RecordCopy
  BY <1>2 DEF RecordCopy
<1>3. CASE RecordStore
  BY <1>3 DEF RecordStore, TypeInv, TypeOK
<1>4. CASE TxRead /\ RecordFill
  <2>1. len \in Nat /\ len <= AUDIO_INP_PACKET_SZ /\ Len(out_rb) \in Nat
    BY <1>4 DEF TxRead, Goto, TypeInv, TypeOK, LocalsFit
  <2>2. Taken(out_rb, len) \in 0..AUDIO_INP_PACKET_SZ
    BY <2>1, PacketsFitHalves DEF Taken
  <2>3. QED
    BY <1>4, <2>2 DEF RecordFill
<1>5. QED
  BY <1>1, <1>2, <1>3, <1>4 DEF TimedMain

\* The bytes of the stream in the packet the controller sends are bytes of its half.
LEMMA ArmedDataTyped ==
    ASSUME TypeInv, HistType, ArmedData # <<>>
    PROVE  ArmedData[Len(ArmedData)] \in 0..MaxPos
<1> DEFINE h == txArmed.half
           k == IF filled[h] <= txArmed.len THEN filled[h] ELSE txArmed.len
<1>1. /\ AUDIO_INP_PACKET_SZ \in Nat
      /\ h \in 0..1 /\ txArmed.len \in 0..AUDIO_INP_PACKET_SZ
  BY PacketsFitHalves DEF ArmedData, TypeInv, TypeOK, Transfers, None
<1>2. k \in 0..AUDIO_INP_PACKET_SZ
  BY <1>1 DEF HistType
<1>3. ArmedData = [i \in 1..k |-> txMem[h][i]]
  BY DEF ArmedData, Data
<1> HIDE DEF h, k
<1>4. Len(ArmedData) = k /\ k # 0
  BY <1>2, <1>3
<1>5. k \in 1..AUDIO_INP_PACKET_SZ
  BY <1>1, <1>2, <1>4
<1>6. txMem[h][k] \in 0..MaxPos
  BY <1>1, <1>5, HalfReplaced DEF h, TypeInv, TypeOK
<1>7. QED
  BY <1>3, <1>4, <1>5, <1>6

LEMMA StepHistType == TypeInv /\ HistType /\ [TimedNext]_timedVars => HistType'
<1> SUFFICES ASSUME TypeInv, HistType, [TimedNext]_timedVars PROVE HistType'
  OBVIOUS
<1>1. CASE UNCHANGED timedVars
  BY <1>1 DEF HistType, timedVars, hist
<1>2. CASE TimedInDone
  <2>1. heard' \in 0..MaxPos
    BY <1>2, ArmedDataTyped DEF TimedInDone, HistType
  <2>2. QED
    BY <1>2, <2>1 DEF TimedInDone, HistType
<1>3. ASSUME NEW n \in OutLens, TimedOutDone(n) PROVE HistType'
  BY <1>3 DEF TimedOutDone, HistType
<1>4. ASSUME NEW intf \in Interfaces, TimedClose(intf) PROVE HistType'
  BY <1>4 DEF TimedClose, HistType
<1>5. CASE TimedOpenSpeaker \/ TimedOpenMic \/ TimedReset \/ Untimed
  BY <1>5 DEF TimedOpenSpeaker, TimedOpenMic, TimedReset, Untimed, HistType, hist
<1>6. ASSUME NEW freq \in InpFreqs, TimedSetInpFreq(freq) PROVE HistType'
  BY <1>6 DEF TimedSetInpFreq, HistType
<1>7. QED
  BY <1>1, <1>2, <1>3, <1>4, <1>5, <1>6, MainHistType DEF TimedNext

\* At the pace of the device the program's variables and the history of the stream
\* keep their types: no byte is copied before the host has sent it.
THEOREM TimedTypeCorrect == ~EarlyOpen => (TimedSpec => []TimedTypeOK)
<1> SUFFICES ASSUME ~EarlyOpen PROVE TimedSpec => []TimedTypeOK
  OBVIOUS
<1>1. TimedSpec => [](TypeInv /\ OwnInv /\ PaceInv)
  BY PaceCorrect
<1>2. TimedSpec => []LossInv
  BY <1>1, InitLossInv, StepLossInv, PTL DEF TimedSpec
<1>3. TimedSpec => []StaleInv
  BY <1>1, <1>2, InitStaleInv, StepStaleInv, PTL DEF TimedSpec
<1>4. TimedSpec => []HistType
  BY <1>1, InitHistType, StepHistType, PTL DEF TimedSpec
<1>5. TypeInv /\ PaceInv /\ LossInv /\ StaleInv /\ HistType => TimedTypeOK
  BY DEF TypeInv, PaceInv, Gaps, LossInv, StreamInv, StaleInv, HistType, TimedTypeOK
<1>6. QED
  BY <1>1, <1>2, <1>3, <1>4, <1>5, PTL
=============================================================================
