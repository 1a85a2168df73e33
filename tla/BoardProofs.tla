----------------------------- MODULE BoardProofs ----------------------------
(***************************************************************************)
(* Theorems about the millisecond timer for every width of its counter and *)
(* every build.                                                            *)
(***************************************************************************)
EXTENDS Board, SysClockProofs

\* The handler is inside its body only while the flag is set.
HandlerInv == isr # "idle" => uif = 1 /\ timer = "on"

\* The count, what was missed and what is pending make up the overflows, but for the
\* times the counters have wrapped.
Balanced ==
    millis_count + missed + Pending \in {overflows, overflows + CountValues}

\* The frequency SystemInit has left.
Settled == IF sws = Target THEN Nominal(image) ELSE HSI_VALUE

\* The timer was started from SystemCoreClock, which is the frequency of the build
\* until SystemCoreClockUpdate makes it that of the core.
PrescalerInv ==
    /\ \/ SystemCoreClock = Nominal(image)
       \/ pc = "done" /\ SystemCoreClock = Settled
    /\ timer = "on" => pc = "done" /\ psc \in {Prescaler(Nominal(image)), Prescaler(Settled)}

BoardInv == BoardTypeOK /\ HandlerInv /\ Balanced /\ PrescalerInv

LEMMA Wraps ==
    ASSUME NEW n \in 0..CountValues - 1
    PROVE  /\ OneMore(n) \in 0..CountValues - 1
           /\ OneMore(n) = IF n + 1 = CountValues THEN 0 ELSE n + 1
BY BoardAssumption DEF OneMore

LEMMA Remainder ==
    ASSUME NEW n \in 0..CountValues - 1
    PROVE  n % CountValues = n /\ (n + CountValues) % CountValues = n
BY BoardAssumption

LEMMA RemainderTyped ==
    ASSUME NEW k \in Int
    PROVE  k % 65536 \in UINT16
BY DEF UINT16

LEMMA PrescalerTyped ==
    ASSUME NEW clock \in Nat
    PROVE  Prescaler(clock) \in UINT16
<1>1. clock \div 1000 - 1 \in Int
  OBVIOUS
<1>2. QED
  BY <1>1, RemainderTyped DEF Prescaler

LEMMA ZeroTyped == 0 \in UINT16
BY DEF UINT16

\* The builds whose prescaler fits divide the clock exactly.
LEMMA PrescalerExact ==
    ASSUME image \in Images, Nominal(image) <= 65536000
    PROVE  10 * (Prescaler(Nominal(image)) + 1) * 100 = Nominal(image)
<1>1. Nominal(image) \in {8000000, 48000000, 56000000}
  BY ImageTyped DEF Nominal, Factors, HSI_VALUE, HSE_VALUE
<1>2. QED
  BY <1>1 DEF Prescaler

LEMMA FrequenciesTyped ==
    ASSUME image \in Images
    PROVE  Nominal(image) \in Nat /\ Settled \in Nat
BY ImageTyped DEF Nominal, Settled, Factors, HSI_VALUE, HSE_VALUE

LEMMA SettledIsFrequency ==
    ASSUME ClockInv, pc = "done"
    PROVE  Settled = Frequency
BY FrequencyWhenDone DEF ClockInv, SwitchInv, Settled

\* Once SystemInit has returned the frequency stays, and SystemCoreClock may be
\* updated to it.
LEMMA StaysSettled ==
    ASSUME ClockInv, pc = "done", [ClockNext]_clkVars
    PROVE  /\ image' = image /\ pc' = "done" /\ Settled' = Settled
           /\ SystemCoreClock' \in {SystemCoreClock, Settled}
<1>1. CASE UNCHANGED clkVars
  BY <1>1 DEF clkVars, program, Settled, Target, Nominal
<1>2. CASE Program
  BY <1>2 DEF Program, SystemInit, SetSysClock, SetSysClockTo_HSE, SetSysClockTo_HSI,
     HseOn, HsiPre, PollHse, CheckHse, Prescalers, ConfigurePll, EnablePll, AwaitPll,
     SelectClock, AwaitSwitch, Goto
<1>3. CASE SystemCoreClockUpdate
  BY <1>3, UpdateInv, SettledIsFrequency
     DEF SystemCoreClockUpdate, Settled, Target, Nominal
<1>4. CASE Hardware
  BY <1>4 DEF Hardware, HseStarts, HseStops, PllLocks, ClockSwitches, program, Settled, Target,
     Nominal, ClockInv, SwitchInv
<1>5. QED
  BY <1>1, <1>2, <1>3, <1>4 DEF ClockNext

\* Before that nothing writes SystemCoreClock.
LEMMA StaysNominal ==
    ASSUME pc # "done", [ClockNext]_clkVars
    PROVE  image' = image /\ SystemCoreClock' = SystemCoreClock
BY DEF clkVars, program, ClockNext, Program, Hardware, SystemInit, SetSysClock,
   SetSysClockTo_HSE, SetSysClockTo_HSI, HseOn, HsiPre, PollHse, CheckHse, Prescalers,
   ConfigurePll, EnablePll, AwaitPll, SelectClock, AwaitSwitch, Goto, HseStarts, HseStops, PllLocks,
   ClockSwitches, SystemCoreClockUpdate

\* A step of the board is one of the clock or leaves the clock alone.
LEMMA BoardIsClock == [BoardNext]_boardVars => [ClockNext]_clkVars
<1>1. UNCHANGED boardVars => UNCHANGED clkVars
  BY DEF boardVars
<1>2. ClockStep => ClockNext
  BY DEF ClockStep
<1>3. board_init \/ TimerOverflows \/ TIM3_IRQHandler => UNCHANGED clkVars
  BY DEF board_init, TimerOverflows, TIM3_IRQHandler, EnterHandler, CountMillis,
     ClearPending
<1>4. QED
  BY <1>1, <1>2, <1>3 DEF BoardNext

LEMMA InitBoardInv == BoardStart => BoardInv
<1> SUFFICES ASSUME BoardStart PROVE BoardInv
  OBVIOUS
<1>1. ClockTypeOK
  BY InitClockInv DEF BoardStart, ClockInv
<1>2. timer = "off"
  BY DEF BoardStart
<1>3. /\ psc = 0 /\ uif = 0 /\ isr = "idle"
      /\ millis_count = 0 /\ overflows = 0 /\ missed = 0
      /\ SystemCoreClock = Nominal(image)
  BY DEF BoardStart, ClockInit
<1>4. BoardTypeOK
  BY <1>1, <1>2, <1>3, ZeroTyped, BoardAssumption DEF BoardTypeOK
<1>5. HandlerInv /\ Balanced
  BY <1>3 DEF HandlerInv, Balanced, Pending
<1>6. PrescalerInv
  <2>1. timer # "on"
    BY <1>2
  <2>2. QED
    BY <1>3, <2>1, Zenon DEF PrescalerInv
<1>7. QED
  BY <1>4, <1>5, <1>6 DEF BoardInv

\* The handler and the timer.
LEMMA TimerInv ==
    ASSUME BoardInv, TimerOverflows \/ TIM3_IRQHandler
    PROVE  BoardInv'
<1>1. /\ BoardTypeOK /\ HandlerInv /\ Balanced /\ PrescalerInv
      /\ UNCHANGED <<clkVars, psc, timer>>
  BY DEF BoardInv, TimerOverflows, TIM3_IRQHandler, EnterHandler, CountMillis,
     ClearPending
<1>2. ClockTypeOK' /\ PrescalerInv'
  BY <1>1 DEF BoardTypeOK, ClockTypeOK, PrescalerInv, Settled, Target, Nominal, clkVars,
     program, ctlr
<1> USE DEF BoardTypeOK, HandlerInv, Balanced, Pending
<1>3. CASE TimerOverflows
  BY <1>1, <1>2, <1>3, Wraps, BoardAssumption DEF BoardInv, TimerOverflows
<1>4. CASE EnterHandler
  BY <1>1, <1>2, <1>4 DEF BoardInv, EnterHandler
<1>5. CASE CountMillis
  BY <1>1, <1>2, <1>5, Wraps, BoardAssumption DEF BoardInv, CountMillis
<1>6. CASE ClearPending
  BY <1>1, <1>2, <1>6 DEF BoardInv, ClearPending
<1>7. QED
  BY <1>3, <1>4, <1>5, <1>6 DEF TIM3_IRQHandler

\* Setting up the clock, and board_init once it is done.
LEMMA SetupInv ==
    ASSUME BoardInv, ClockInv, ClockInv', ClockStep \/ board_init
    PROVE  BoardInv'
<1>1. BoardTypeOK /\ HandlerInv /\ Balanced /\ PrescalerInv /\ ClockTypeOK'
  BY DEF BoardInv, ClockInv
<1>2. CASE board_init
  <2>1. UNCHANGED clkVars /\ pc = "done" /\ psc' = Prescaler(SystemCoreClock)
        /\ UNCHANGED <<uif, isr, millis_count, overflows, missed>>
    BY <1>2 DEF board_init, TIM3_Init
  <2>2. psc' \in {Prescaler(Nominal(image)), Prescaler(Settled)} /\ psc' \in UINT16
    BY <1>1, <2>1, FrequenciesTyped, PrescalerTyped
       DEF PrescalerInv, BoardTypeOK, ClockTypeOK
  <2>3. timer' = "on"
    BY <1>2 DEF board_init, TIM3_Init
  <2>4. PrescalerInv'
    BY <1>1, <2>1, <2>2 DEF PrescalerInv, Settled, Target, Nominal, clkVars, program
  <2>5. QED
    BY <1>1, <2>1, <2>2, <2>3, <2>4
       DEF BoardInv, BoardTypeOK, HandlerInv, Balanced, Pending
<1>3. CASE ClockStep
  <2>1. UNCHANGED tim3 /\ ClockNext
    BY <1>3 DEF ClockStep
  <2>2. BoardTypeOK' /\ HandlerInv' /\ Balanced'
    BY <1>1, <2>1 DEF BoardTypeOK, HandlerInv, Balanced, Pending, tim3
  <2>3. CASE pc = "done"
    <3>1. /\ image' = image /\ pc' = "done" /\ Settled' = Settled
          /\ SystemCoreClock' \in {SystemCoreClock, Settled}
      BY <2>1, <2>3, StaysSettled
    <3>2. Nominal(image)' = Nominal(image)
      BY <3>1 DEF Nominal
    <3>3. QED
      BY <1>1, <2>1, <2>2, <2>3, <3>1, <3>2 DEF BoardInv, PrescalerInv, tim3
  <2>4. CASE pc # "done"
    <3>1. /\ SystemCoreClock' = Nominal(image) /\ timer' # "on"
          /\ Nominal(image)' = Nominal(image)
      BY <1>1, <2>1, <2>4, StaysNominal DEF PrescalerInv, Nominal, tim3
    <3>2. PrescalerInv'
      BY <3>1, Zenon DEF PrescalerInv
    <3>3. QED
      BY <1>1, <2>2, <3>2 DEF BoardInv
  <2>5. QED
    BY <2>3, <2>4
<1>4. QED
  BY <1>2, <1>3

LEMMA StepBoardInv ==
    ClockInv /\ BoardInv /\ [BoardNext]_boardVars => (ClockInv /\ BoardInv)'
<1> SUFFICES ASSUME ClockInv, BoardInv, [BoardNext]_boardVars
             PROVE  ClockInv' /\ BoardInv'
  OBVIOUS
<1>1. ClockInv'
  BY BoardIsClock, StepClockInv
<1>2. CASE UNCHANGED boardVars
  BY <1>1, <1>2 DEF boardVars, clkVars, program, ctlr, tim3, BoardInv, BoardTypeOK,
     ClockInv, HandlerInv, Balanced, Pending, PrescalerInv, Settled, Target, Nominal
<1>3. QED
  BY <1>1, <1>2, TimerInv, SetupInv DEF BoardNext

LEMMA BoardInvariant == BoardSpec => [](ClockInv /\ BoardInv)
<1>1. BoardStart => ClockInv
  BY InitClockInv DEF BoardStart
<1>2. QED
  BY <1>1, InitBoardInv, StepBoardInv, PTL DEF BoardSpec

\* The registers of the timer and the counters hold values of their width.
THEOREM BoardTypeCorrect == BoardSpec => []BoardTypeOK
<1>1. BoardInv => BoardTypeOK
  BY DEF BoardInv
<1>2. QED
  BY <1>1, BoardInvariant, PTL

\* TIM3_IRQHandler counts every overflow once, except those that found another one
\* pending, however it interleaves with the timer and however often the count wraps.
THEOREM MillisCorrect == BoardSpec => []MillisAccounted
<1>1. BoardInv => MillisAccounted
  <2> SUFFICES ASSUME BoardInv PROVE MillisAccounted
    OBVIOUS
  <2>1. overflows \in 0..CountValues - 1 /\ Balanced
    BY DEF BoardInv, BoardTypeOK
  <2>2. QED
    BY <2>1, Remainder DEF Balanced, MillisAccounted
<1>2. QED
  BY <1>1, BoardInvariant, PTL

\* In the builds whose prescaler fits 16 bits a tick takes 10 ms, when the crystal has
\* started.
THEOREM TickCorrect == BoardSpec => []TickUnlessTruncated
<1>1. ClockInv /\ BoardInv => TickUnlessTruncated
  BY PrescalerExact, SettledIsFrequency
     DEF BoardInv, BoardTypeOK, ClockTypeOK, PrescalerInv, TickUnlessTruncated, TickCycles
<1>2. QED
  BY <1>1, BoardInvariant, PTL

\* The board leaves the clock as it is: what holds of the clock holds in Board.
THEOREM BoardImpliesClock == BoardSpec => ClockSpec
<1>1. BoardStart => ClockInit
  BY DEF BoardStart
<1>2. QED
  BY <1>1, BoardIsClock, PTL DEF BoardSpec, ClockSpec
=============================================================================
