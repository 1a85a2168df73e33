# Verification of AudioCardCherry

AudioCardCherry is bare-metal firmware for a CH32V307: a USB sound card, built on the
CherryUSB device stack, that copies what the host plays on its speaker interface to its
microphone interface. One build is a full-speed UAC1 device (`CONFIG_USB_FS`), the other a
high-speed UAC2 one. This directory holds TLA+ models of the program, the TLC runs that check
them and the TLAPS proofs of what holds for every value of the parameters. All paths below are
relative to `src/CH32AudioCard/src/`.

## The system

There are two actors. The *main program* (`main` → `audio_test`) polls two flag bytes in an
endless loop. The *USB interrupt* runs the CherryUSB stack, which calls the firmware's callbacks;
it preempts the main program between any two instructions and nothing preempts it (the
millisecond timer interrupt shares no state with it). They share `open_flag`, `ep_busy_flag`,
`read_bf`, `write_bf`, the two sample buffers and the current frequencies. There are no locks.

| component | state | operations | interacts with |
|---|---|---|---|
| ring buffer (`ring_buf.c`) | `buff`, `start`, `end`, `count`, `remain` | `ring_buf_init`, `_reset`, `_write`, `_read` | called by the main loop only |
| double buffer (`ring_buf.c`) | `buffer`, `halfsize`, `buffer_pos`, `count` | `dbl_buffer_init`, `dbl_buffer_reset`, `buffer_pos ^= 1` | initialised by the main program; reset and flipped by callbacks; read and counted by both |
| audio task, callbacks (`audio_task.c`) | `open_flag`, `ep_busy_flag`, `feedback_buffer` | open, close, out, in, feedback callback | called by the stack; start transfers on endpoints |
| audio task, main loop (`audio_task.c`) | locals `data`, `len`, `need_len` | `read_samples`, `write_samples`, `write_feedback`, `audio_test` | ring buffer, both double buffers |
| rate arithmetic (`usb_descr.h`, `audio_task.c`) | `cur_out_freq`, `cur_inp_freq`, `cur_feedback_rate` | packet sizes, `set_feedback_value` | sizes the halves; used by both actors |
| UAC1, UAC2 handlers (`audio_v1.c`, `audio_v2.c`) | descriptors, frequency tables | `audio_init`, `usbd_audio_set_sampling_freq`, `usbd_audio_get_sampling_freq_table` | called by the stack on control requests, which the host addresses by what the descriptors tell it |
| start-up (`main.c`) | | wait for the configuration, enter `audio_test` | everything |
| board, timer (`sys/ch32v30x.c`) | `millis_count`, TIM3 registers | `board_init`, `TIM3_Init`, `TIM3_IRQHandler`, `usb_hc_low_level_init` | system clock |
| system clock (`sys/system_ch32v30x.c`) | RCC registers, `SystemCoreClock` | `SystemInit`, `SetSysClock…`, `SystemCoreClockUpdate` | read by the timer and the UART |
| exception handlers (`sys/ch32v30x_it.c`) | | NMI, hard fault | |

What is hard, and what makes each part correct:

* **Ring buffer.** Four redundant counters, updated before the copy while the index is stored
  after it; wrap-around at every cell; truncation at full and at empty. Correct when every call is
  one step of a bounded byte queue.
* **Double buffers.** The controller works on the half `buffer_pos` names, the loop on the other,
  and the callbacks flip `buffer_pos` under the loop. Correct when the two never touch the same
  half, and when no length exceeds a half.
* **Flags.** `ep_busy_flag |= FLAG` in the loop is a load and a store around which callbacks clear
  and set bits of the same byte. Correct when no packet is lost, repeated or sent unprepared.
* **Loopback.** Correct when the host gets the bytes it sent in order and in whole frames.
* **Descriptors and requests.** The descriptor, the lengths it claims, what `audio_init` registers and the
  `switch` statements of the handlers are written down separately, once per build. Correct when a host
  that follows the first is served by the others: nothing refused, no frequency set on the wrong side,
  no packet that does not fit.
* **Feedback.** Correct when the host is asked for the frequency it has set.
* **Start-up.** The device is configured, and its interfaces can be opened, before `audio_test`
  has initialised its buffers; a bus reset later calls no callback and leaves flags and buffers as they are.
* **System clock.** The crystal may start at any time or never or stop again, and the clock may be
  switched in one order only. Correct when the core ends at the frequency of the build or at the internal oscillator.
* **Millisecond timer.** It runs on while its handler is held up. Correct when every overflow is
  counted once or is known to be missed, and when a tick is as long as it says.

`PROJECT.json` lists the hazards line by line with the properties that cover them.

## The modules

| module | models | role |
|---|---|---|
| `QueueOps` | what one `ring_buf_write` or `ring_buf_read` does to the queued bytes | operators, used by the two below and by `AudioTask` |
| `ByteQueue` | the header's promise: each call is one step on a sequence of at most `Capacity` bytes | abstract specification |
| `RingBuf` | `ring_buf.c`, one step per loop iteration | implements `ByteQueue` |
| `RingBufProofs` | | theorems about `RingBuf` |
| `UsbRates` | `usb_descr.h` and the rate functions, both builds | operators |
| `UsbRatesProofs` | | theorems about `UsbRates` |
| `AudioTask` | callbacks and main loop, one step per access to shared memory | the core |
| `AudioTaskProofs` | | theorems about `AudioTask` |
| `AudioTimed` | `AudioTask` at the pace of the device, with the history of the stream | the loopback properties |
| `AudioTimedProofs` | | theorems about the pace of `AudioTimed`: overlap, loss, repetition |
| `AudioStreamProofs` | | theorems about its stream: frames, order, the refinement of `Loopback` |
| `Loopback` | the promise of the device: bytes come back in order and once, and only a full device loses some | abstract specification, implemented by `AudioTimed` |
| `AudioControl` | `audio_v1.c` and `audio_v2.c`: enumeration, frequencies, feedback, one host | composed with `UsbRates`, once per build |
| `AudioControlProofs` | | theorems about `AudioControl` |
| `SysClock` | `system_ch32v30x.c`, one step per access to a register the hardware changes, and the clock hardware | all builds for both devices |
| `SysClockProofs` | | theorems about `SysClock` |
| `Board` | `board_init`, `TIM3_Init`, `TIM3_IRQHandler` and the timer | composed with `SysClock` |
| `BoardProofs` | | theorems about `Board` |
| `MC…` | | values of the constants for TLC |

**RingBuf.** `struct ring_buf` is `buff`, `start`, `end`, `count`, `remain`. A call is in progress
while `op # "idle"`: `len`, `idx` and `ret` are the C locals, `src` and `dst` what the caller
passes and gets. `WriteFull`/`ReadEmpty` are the early returns, `WriteBegin`/`ReadBegin` everything
up to the loop, `WriteByte`/`ReadByte` an iteration, `WriteEnd`/`ReadEnd` the store of the new index
and the return. The calls do not overlap: only the main loop makes them, so `AudioTask` may use the
atomic operators of `QueueOps`, which is what the refinement justifies.

**AudioTask.** A callback is one action (`OpenSpeaker`, `OpenMic`, `Close`, `OutDone`, `InDone`,
`FbDone`, `SetOutFreq`, `SetInpFreq`, `Configure`), because nothing interrupts it. The loop is at
`pc`; each of its steps makes one access to memory that a callback may touch, so a callback fits
between any two of them: `TestOpen`, `TestRead`, `TestWrite`, `TestFb` are the tests of the two flag
bytes, `RxPos`, `RxLen`, `RxCopy` the body of `read_samples`, `TxPos`, `TxNeed`, `TxRead`, `TxPad` that of
`write_samples`, and `Load`/`Store` the two halves of `ep_busy_flag |= FLAG`, with `reg` the register
between them. `TxPad` is four steps: `TxShort` compares `write_bf.count`, `TxArg` and `TxFill` read it again for
the two arguments of `memset` (`arg` is the first one; C leaves open which that is), and `TxCount` stores it.
`InitWriteBf` and `InitReadBf` are the four stores each of `dbl_buffer_init`, the one of the pointer being
known by `pc`. Copies are single steps: whether one can overlap the controller's use of the same
half is not left out but stated (`NoRxOverlap`, `NoTxOverlap`), from the transfers in `rxArmed` and
`txArmed`. A flag byte is the set of its bits. A byte of the stream is the position at which the
host sent it, silence is 0, so reordering, loss and repetition are visible in the data.

The host may also set the control interface, which `usbd_audio_close` takes for the microphone, and reset
the bus (`BusReset`): the stack then forgets the configuration and drops the transfers without
calling anything, and the loop runs on with the flags it has.

**AudioTimed.** Nothing in the code bounds how many callbacks run between two steps of the loop;
the clock does. A pass of the loop, two copies of at most 576 bytes at 144 MHz included, takes well
under 100 µs, and the service interval is 1 ms (full speed) or 250 µs (high speed). `AudioTimed`
therefore lets an event of an interface happen only when the loop has made at least one complete
pass since the previous one (`rxGap`, `txGap` count the passes begun). The callback may still
interrupt the pass anywhere. The other variables it adds are history: what was copied, whether a
packet is waiting, which clearings of `EP_RX_FLAG` and `EP_TX_FLAG` a store has undone (no byte depends on the third flag), how much of each half is stream and
not silence, what the host has heard, how many packets it got since it changed the frequency of the microphone.

**Loopback.** The device is a set of stream positions, `path`. `Send` adds what the host sends, `Deliver`
takes the oldest bytes out, `Lose` takes the newest when the device holds `Capacity` of them at least.
`AudioTimed` implements it with `path` mapped to `InDevice`: the armed packet, the prepared one, the ring
buffer and the packet `read_samples` has not copied. Moving bytes from one of these to the next is a
stutter, which is what makes the mapping worth checking: the hand-over is where two actors meet.

**AudioControl.** `fullSpeed` is the build. The descriptor is a sequence of pieces with their lengths;
`ReadPiece` has the host read it as far as the claimed length goes, `LearnFreqs` has it take the frequencies from
the description of an interface (UAC1) or ask its clock (UAC2), `SetFreq` has it address the endpoint or the
clock it has read of, `Open` starts the stream and sets the volume, `ResetBus` starts anew. `Case` is the
`switch` of `usbd_audio_set_sampling_freq` by the interface it is about, `TableOf` that of
`usbd_audio_get_sampling_freq_table`, `Entities` and `Endpoints` what `audio_init` registers. `stalled` is
set for good by a request to something not registered. The lengths of the single pieces are those of
CherryUSB's macros; the text of the strings is left out.

**SysClock.** `image` is the build: the device and what the `SYSCLK_FREQ` macro names, a source and the
factor of the PLL. The twelve `SetSysClockTo…` functions that use the PLL differ in these only, so they
are one program at `pc`; `Prescalers`, `ConfigurePll`, `EnablePll`, `AwaitPll`, `SelectClock` and
`AwaitSwitch` are its statements, `PollHse` a round of the wait for the crystal and `CheckHse` the
second read of `HSERDY`. The hardware acts by `HseStarts`, `HseStops`, `PllLocks` and `ClockSwitches`; a
crystal stops only while the core does not run from it, since nothing is executed after that. `Decoded` is
the chain of special cases of `SystemCoreClockUpdate`, against `PLLMULL`, the encoding of the vendor's
register header. The divisors `HPRE` and `PPRE2` are 0 after `SystemInit` and stay so. Nothing in
the firmware calls `SystemCoreClockUpdate`; the model lets an application call it once `SystemInit` is
done, before or after `board_init`.

**Board.** `board_init` starts timer 3 from whatever `SystemCoreClock` holds. The handler is three steps
(`EnterHandler`, `CountMillis`, `ClearPending`) and the timer may overflow between any two, as often as
it likes, because a printing USB interrupt can hold the handler up. `millis_count` is counted
modulo `CountValues`, 2^32 in the code; `overflows` and `missed` are history. The timer is clocked at the
frequency of the core: APB1 is divided by two and the hardware doubles it for the timers.

What is assumed of the code that is not in the repository (marked external in the map):

* Callbacks run in the USB interrupt: `usb_config.h` leaves `CONFIG_USBDEV_TX_RX_THREAD` undefined.
* The in and feedback callbacks run when the host polls the endpoint, although nothing under `src/`
  starts the first write transfer; when none is armed the packet is empty.
* The stack closes the endpoints of an interface whose streaming setting is left, which drops its
  transfer. It reports an open only for an interface that was not streaming. A bus reset calls nothing
  under `src/`.
* The host sends whole frames, at most the nominal packet, and selects only advertised frequencies.
* The accesses of the loop happen in the order of the source.

## The runs

Frames are of two bytes and packets of one or two frames, so `AUDIO_OUT_PACKET_SZ` is 2 or 4. The
ring buffer holds 5 or 3 bytes: like 2048 and the six-byte frame of the device (remainder 2), it is no
multiple of a frame, so an overflow can cut one. In `audio_close` it holds 2, one frame, which overflows when
a packet is copied twice, and cuts none: it is the remainder that does it.
`MaxPos` bounds the bytes the host sends (the guard of `OutDone`), `MaxCloses` the times it closes a streaming interface, sets the control interface or resets
the bus (the guards of `Close` and `BusReset`). The
device may stop only when the host stops polling; deadlock is checked in every run, and the loop
itself never blocks.

| run | specification | bounds | what it shows |
|---|---|---|---|
| `ring_buf` | `FairSpec` | 3 cells, 2 byte values, transfers of 0..4 | counters agree, copies are in order, calls return, `ByteQueue` is implemented |
| `audio_task` | `FairSpec`, full speed | speaker packets of up to 2 frames, microphone 1 frame, 2 bytes, one close or reset, all three interfaces | the controller is given the half `buffer_pos` names; an announced packet is taken unless a store undoes the announcement; a streaming microphone is served again and again |
| `audio_stream` | `TimedSpec`, full speed | speaker packets of up to 2 frames, microphone 1 frame, 4 bytes, ring of 3 | no overlap on receive, whole packets armed, bytes in order and, short of an overflow, whole frames; with the feedback endpoint's third flag, a packet is lost only through an undone clearing; until then `Loopback` is implemented, and short of an overflow every byte sent and not heard is in the device |
| `audio_close` | `TimedSpec`, high speed | speaker packets of up to 1 frame, microphone packets of 2 frames, each frame 2 bytes, ring of 2, one close or reset, all three interfaces | no overlap on transmit; the padding stays in its half; a packet is repeated at most once per close or reset; an overflow of a ring of whole frames cuts none |
| `audio_rate` | `TimedSpec`, high speed | microphone at 4 and 8 kHz (1 and 2 frames), 2 bytes | no length exceeds a half; the third packet after a change of frequency and every later one has the new size |
| `audio_control` | `ControlSpec` | both builds, the frequencies of `usb_descr.h` for the speaker, lower ones and one channel for the microphone | lengths and pieces agree; no request is refused; frequencies reach their variable; feedback follows; packets are exact |
| `board` | `FairBoardSpec` | all builds, 3 polls of the crystal, `millis_count` modulo 4 | the core ends at the frequency of the build or the crystal was given up; the order of the switch; `SystemCoreClockUpdate`; `SystemInit` returns, or hangs in one of two loops on a crystal that stopped; every overflow is counted once or missed; the length of a tick where the prescaler fits |

In `audio_stream` two packets fill both halves, and the transfer started when the second completes reuses the first;
4 bytes overflow a ring of 3. The close or reset of `audio_task` and `audio_close` meets the loop at every `pc` and can be
followed by a reopen. `audio_control` has no bound: the two sides differ in every constant, so that a
mix-up shows, and two feedback packets are all that is ever on its way.
`audio_task` has no pace at all: what it shows holds however many callbacks run between two steps.
Three polls of the crystal leave it time to start in the first round, in a middle one, after the last
or never, and to stop after any of them. Counters modulo 4 wrap many times, together and apart.

Five runs show where the program does something else than its documentation says:

| run | what the code says | what happens |
|---|---|---|
| `packet_lost` | `README.md:4` "all data from Speaker is copied to Microphone" | an out callback between the load and the store of `ep_busy_flag \|= EP_TX_FLAG` (or `EP_FB_FLAG`) has its clearing of `EP_RX_FLAG` undone; the packet is never copied |
| `stale_copy` | `audio_task.c:175` "now we have one full and and one filling buffer" | `usbd_audio_close(1)` between the loop's tests of `open_flag` and `ep_busy_flag` clears the busy bit, and the previous packet is copied again |
| `early_open` | `audio_task.c:73-75` "setup first out ep read transfer", "start reading"; `ring_buf.h:63` `buffer` has 2 * `halfsize` bytes | the host opens the speaker before `audio_test` has run: a read of length 0 to NULL is started |
| `clock_update` | `sys/system_ch32v30x.c:106` `SystemInit` updates `SystemCoreClock` | it does not: when the crystal is given up, the core runs at 8 MHz and the variable still says 144 MHz |
| `millisecond` | `sys/ch32v30x.c:87` the timer counts milliseconds | the divisor makes a tick 10 ms, and above 65.536 MHz `SystemCoreClock / 1000 - 1` does not fit the 16-bit prescaler |

A sixth disagreement is not a run but a case of the passing ones: `ring_buf.h:45-47` has the caller of `ring_buf_write`
wait for space, while `read_samples` ignores its result, so that a speaker faster than the microphone, or one
whose microphone is closed, loses the rest of a packet. `Lose` of `Loopback` is this step, and in the device,
where 2048 bytes are no whole number of frames, it can cut one, so that every later sample is shifted.

**Fairness.** `RingBuf!FairSpec` and `WF(Main)` say that the CPU executes the main program whenever
no interrupt does, which holds because every callback returns. `WF(InDone)` says that the host keeps
polling a streaming microphone, as an isochronous host does. Nothing is assumed of the other
callbacks. `FairBoardSpec` has the CPU execute `SystemInit`, a PLL with a running source lock and a
switch to a running source complete, as the chip guarantees; nothing makes the crystal start, and nothing
keeps it from stopping. `Returns` therefore says: `SystemInit` returns, or it hangs for good in one of the two
loops that have no time-out, with a crystal that stopped after it was ready.
`MicServed` has a premise, `<>[]~Undoes("TX")`: without it a callback can land between the load and the
store of `ep_busy_flag` in every round and the microphone is never served again. It excepts a microphone
whose `open_flag` bit a setting of the control interface has taken. It asks for both: that `write_samples` fills
a half again, and that a packet of some length is armed again. `PacketTaken` says that a packet whose callback
has cleared `EP_RX_FLAG` comes to the copy of `read_samples`, or a store sets the flag again although it was not
(`Undoes("RX")`, or the store of `read_samples` itself when the packet came during its copy, which the pace
excludes), or the speaker stops; a flag that is merely set does not count. It is not true that every announced
packet is copied: `packet_lost` shows one that is not.

**What depends on the pace.** `PadFits` and the two overlap properties hold at the pace of `AudioTimed` only. Without
it an `usbd_audio_open` between the two reads of `write_bf.count` makes the arguments of `memset` disagree, so that it
writes past the half; the model carries this out (`Silenced`) as far as the second half goes. A microphone that is
opened again while its half is being filled is excluded in the same way.

## The proofs

`RingBufProofs` proves, for every buffer size, byte set and transfer length, that `RingBuf` keeps
`TypeOK`, `CountersAgree`, `TruncatesOnlyWhenForced` and `CopyInOrder`, and that it implements
`ByteQueue`. The only assumption is `RingAssumption` (the buffer is not empty, 0 is a byte). None of
the four invariants is inductive alone: that `idx` ends a copy at the cell where `end` must be
follows from `CopyInOrder`, which needs the bound of `len` in `CountersAgree`, which needs the ranges
of `TypeOK`. Their conjunction, `IInv`, is. Two lemmas about the wrap carry the arithmetic: advancing
twice is advancing by the sum (`WrapSum`), and cells less than `Size` apart differ (`WrapDistinct`).
The refinement maps the queue to the `Committed` bytes behind `start`: those of before the call until
the call returns. The begin of a call and its iterations are stutters, because a write touches only
free cells; `WriteEnd` appends exactly the bytes `CopyInOrder` says were stored, `ReadEnd` drops
exactly those that were copied out.

`UsbRatesProofs`, `AudioTaskProofs`, `AudioTimedProofs` and `AudioStreamProofs` prove, for every set of
frequencies, frame size, buffer size, length of the stream and number of closes, the safety properties
the audio runs check. They assume `RatesAssumption`, `TaskAssumption` and `CapacityAssumption`, which only say that
the constants have their kind and that each set of frequencies has a highest and a lowest member;
all but `PacketsFitHalves`, `TaskTypeCorrect`, `TimedImpliesSpec` and `FramesCorrect` also assume `~EarlyOpen`, and
the run `early_open` shows why.

* `PacketsFitHalves`: the packet size is monotone in the frequency in spite of its two truncating
  divisions, so a half sized for the highest frequency fits every packet.
* `TaskTypeCorrect` (`TypeOK`). The strengthening `TypeInv` adds that the local `len` fits the half it is
  about to be used on, which follows from `PacketsFitHalves` and the bound of `count`.
* `ArmedCorrect` (`ArmedIsCurrent`) and `TransfersCorrect` (`TransfersFit`) rest on `OwnInv`: nothing streams
  while the main program is in `audio_test`'s initialisation, a transfer exists only on a streaming
  interface, and every callback that changes `buffer_pos` starts the new half in the same step.
* `RxOverlapFree`, `TxOverlapFree` rest on `PaceInv`. The half a callback leaves is the one the loop may
  be using, so a callback must find the loop outside its work on that interface. A pass that began
  after the last event ends with the flag set (`Quiet`), so a second event, which needs a complete
  pass, finds the loop either before its test or past its store. The two |= on the same byte are
  what makes this more than bookkeeping: a store with an old `reg` must not clear a mark, hence the
  conjuncts about `reg`.
* `WholePackets`: `WholeInv` follows `write_bf.count` through the short count between `TxRead` and `TxCount`.
* `PadFitsCorrect` (`PadFits`): between `TxShort` and `TxFill` no callback of the microphone has run, so both reads
  of `write_bf.count` by the arguments of `memset` are of the count that was compared.
* `MicFollowsCorrect` (`MicFollows`): `MicInv` says which packet was measured when. The packet in preparation may
  have the old size, the one armed too; two in callbacks later both are gone (`FollowInv`).
* `LossOnlyByClobber` (`LossNeedsClobber`) rests on `LossInv`: the unread bytes are the last `count` the host
  sent, in the half not in use, and unless a store undid it `EP_RX_FLAG` stays clear until they are copied.
* `StaleOnlyByClose` (`StaleNeedsClose`) rests on `StaleInv`: if the loop is on its way to a copy and there
  is nothing new, the host has stopped something and no repetition has been charged to that yet.
* `TimedTypeCorrect` (`TimedTypeOK`) collects the types of the history from these invariants and `HistType`.
* `TimedImpliesSpec` carries what holds of `AudioTask` over to `AudioTimed`.
* `FramesCorrect` (`FramesWhole`) rests on `FramesInv`: until the ring buffer has refused bytes, or for ever when
  its size is a multiple of the frame, every length on the way is one of whole frames, and every byte in both buffers and in the ring lies at its place in a
  frame and is followed by the next byte of that frame. It assumes `SameFrames`: a frame has as many bytes on the
  way out as on the way in, and every frequency of the microphone is a multiple of 1 kHz (full speed) or
  4 kHz (high speed). `usb_descr.h` has two channels of three bytes both ways and multiples of 48 kHz. No other
  condition is needed: `FramedOver`, `FramedFresh`, `FramedCut` and `FramedConcat` say that
  overwriting, padding, reading and writing by whole frames keep frames whole, wherever a callback interrupts.
* `MicInOrderCorrect` (`MicInOrder`) rests on `StreamOrder`. The armed packet, the prepared one and the ring
  buffer, one behind the other, are the `Line`; it counts upwards from above what the host has heard
  to at most what was last copied (`LineInv`). What every action does to the line is a lemma: `CopyLine` appends a
  new packet (`CopiesNew`, from `LossInv` and `StaleInv`), `FillLine` moves the cut between ring and packet,
  `DoneLine` drops the armed part, `PadLine`, `LoopLine` and `EventLine` leave it alone. `MicFlags` makes the
  prepared packet well defined: while `write_samples` works `EP_TX_FLAG` is clear, and no store to come
  loses it. `MicData` says that silence comes only behind the bytes. All this ends when the host stops a
  stream, or a store undoes a clearing of `EP_TX_FLAG`, which has a half sent twice (`Untouched`).
* `LoopbackImplemented` (`ImplementsLoopback`) adds the unread packet in front of the line: its bytes follow those that
  were copied (`UnreadBytes`). `SendStep`, `DeliverStep` and `LoseStep` are the three steps of `Loopback`, `FillStep`
  and `EventStep` the stutters. In `LoseStep` the part of a packet the ring does not accept is newer than
  everything in the line, and the ring then holds `Capacity` different bytes (`ManyBytes`).
* `NothingForgottenCorrect` (`NothingForgotten`) follows from these steps (`StepForgotten`): `Send` adds the next
  byte, `Deliver` takes the oldest, and only a step that sets `dropped` is a `Lose`.

`AudioControlProofs` holds for every list and range of whole kilohertz below 1024 kHz (what the feedback
value can express), up to eight channels and every sample size (`ControlAssumption`).

* `RatesCorrect` (`RatesAgree`): whatever part of the descriptor the host has read, a piece says what `Says`
  states of it, so the endpoint or clock it addresses takes the case of the interface it means (`CaseOf`).
* `FeedbackCorrect` (`FeedbackFollows`) adds `FeedbackInv`, which follows a value from
  `cur_feedback_rate` through the armed packet to the host; the three bytes lose nothing of it (`BytesHoldRate`).
* `EnumerationCorrect` (`EnumerationExact`) rests on `ReadInv`: before each piece the host still expects
  exactly the pieces that are left (`OnePiece`), whatever number of channels makes the feature units long.
* `ServedCorrect` (`RequestsServed`) needs it too: the host finds a feature unit because it has read all.
* `ControlTypeCorrect` (`ControlTypeOK`) adds `OfferInv`: what the host is offered, and so what it sets and what
  the device runs at, is a frequency of the device's own build (`Given`), and the feedback value of each fits
  24 bits. From `ReadInv` it has that the next piece to read is never behind the one after the configuration.
* `PacketsCorrect` (`PacketsExact`): the half is sized for a frequency that is the highest on offer
  (`HighestGiven`), also where the range does not end at its maximum, and both divisions are exact
  (`BytesExact`). It assumes `RangesEven`, that the ranges of the high-speed build are multiples of 4 kHz, one for
  each of its packets in a millisecond; `usb_descr.h` has multiples of 48 kHz. That a packet fits
  (`PacketFits`) needs no such condition.

`SysClockProofs` and `BoardProofs` hold for every build, every time-out and every width of
`millis_count`. They assume `ClockAssumption` and `BoardAssumption`, that these numbers are positive.

* `ClockTypeCorrect` (`ClockTypeOK`), `ClockCorrect` (`ClockAsNamed`), `SwitchCorrect`
  (`SwitchedInOrder`) and `UpdateCorrect` (`UpdateAgrees`) rest on `ClockInv`: past the wait the
  oscillator of the build runs or has stopped since (`SourceInv`), before it the counter is what the loop says (`PollInv`), a PLL that is on is set up for the build (`PllInv`), and
  the source in use is the internal oscillator until the switch (`SwitchInv`). `FieldReadBack` says that
  the encoding of the factor can be undone and that `SystemCoreClockUpdate` does undo it, on both devices.
* `BoardTypeCorrect` (`BoardTypeOK`), `MillisCorrect` (`MillisAccounted`) and `TickCorrect`
  (`TickUnlessTruncated`) rest on `BoardInv`: the handler is in its body only while the flag is set (`HandlerInv`), the counters balance up
  to one wrap (`Balanced`), and the prescaler came from the frequency of the build or from the one
  `SystemInit` has left (`PrescalerInv`). `BoardImpliesClock` carries the theorems of the clock over.

Only model-checked: what needs fairness (`CallsReturn`, `PacketTaken`, `MicServed`, `Returns`), because liveness and
ENABLED are outside the prover. Every invariant and every action property of a passing run is also
stated by a theorem.

## What is not modelled

* The clock gates and dividers of the USB controller (`usb_dc_low_level_init`), which no code reads back;
  `usb_hc_low_level_init` is for a host and nothing here calls it. The set-up of the UART and of `Delay`.
* A crystal that stops while the core runs from it: the core stops with it.
* The exception handlers have no state. `usbd_audio_set_volume`, `usbd_audio_set_mute` and
  `usbd_configure_done_callback` only log.
* The text of the strings, the identifiers of vendor and product, the resolution and the channel masks:
  constants the firmware itself never uses. `usb_config.h`: macros that configure CherryUSB.
* The feedback value of the high-speed build: it has no feedback endpoint, so nobody gets it.
* Log output from the interrupt (`USB_LOG_RAW` over a 115200 baud line) can hold up callbacks long
  enough for two of them to run without a pass in between; `AudioTimed` assumes it does not. How long a line
  holds the interrupt up is a matter of the UART and of libc, not of the source.
* The host opening a streaming interface again without closing it, which CherryUSB reports as a close.

## Plan

Done, in this order: `QueueOps`, `ByteQueue`, `RingBuf` and its proofs; `UsbRates`, `AudioTask`,
`AudioTimed`, their runs and proofs; `SysClock`, `Board`, their runs and proofs; resets and the control
interface in `AudioTask`; `Loopback`; `AudioControl` and its proofs; the crystal that stops. The theorems
about the stream and the refinement of `Loopback`; those about the types and packets of `AudioControl`. No
safety property of a passing run is left without a theorem.
