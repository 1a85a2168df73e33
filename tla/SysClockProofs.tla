--------------------------- MODULE SysClockProofs ---------------------------
(***************************************************************************)
(* Theorems about SystemInit and SystemCoreClockUpdate for every build and *)
(* every length of the wait for the crystal.                               *)
(***************************************************************************)
EXTENDS SysClock, TLAPS

\* Where the function that sets the clock is past the wait for its oscillator.
Clocked == {"prescalers", "configure", "enable", "lock", "select", "switch"}

\* The PLL is set up for the build.
Configured ==
    /\ image.factor # 0
    /\ pll = [source |-> image.source, xtpre |-> FALSE,
              mull |-> PLLMULL(image.d8, image.factor)]

\* The oscillator the build names runs, undivided.
SourceInv ==
    pc \in Clocked => IF image.source = "HSE" THEN hseRdy \/ stopped ELSE hsiPre /\ image.factor # 0

PollInv ==
    /\ pc \in {"reset", "set", "hseOn"} => StartUpCounter = 0
    /\ pc \in {"hseOn", "poll", "check"} => image.source = "HSE"
    /\ pc = "hsiPre" => image.source = "HSI" /\ image.factor # 0
    /\ pc = "poll" => StartUpCounter < HSE_STARTUP_TIMEOUT
    /\ pc = "check" => hseRdy \/ stopped \/ StartUpCounter = HSE_STARTUP_TIMEOUT

PllInv ==
    /\ pc \in {"configure", "enable", "lock"} => image.factor # 0
    /\ pc \in {"configure", "enable", "lock", "select", "switch"} /\ image.factor # 0
          => ppre1 = 2
    /\ pc \in {"enable", "lock", "select", "switch"} /\ image.factor # 0 => Configured
    /\ pllOn => pc \in {"lock", "select", "switch", "done"} /\ Configured
    /\ pllRdy => pllOn
    /\ pc \in {"select", "switch"} /\ image.factor # 0 => pllRdy \/ stopped

SwitchInv ==
    /\ pc \notin {"switch", "done"} => sw = "HSI" /\ sws = "HSI"
    /\ pc = "switch" => sw = Target /\ sws \in {"HSI", Target}
    /\ pc = "done" => sw = sws
    /\ (sw = "HSE" => hseRdy \/ stopped) /\ (sws = "HSE" => hseRdy)
    /\ (sw = "PLL" => pllRdy \/ stopped) /\ (sws = "PLL" => pllRdy)
    /\ sw = "PLL" \/ sws = "PLL" => ppre1 = 2 /\ (image.source = "HSI" => hsiPre)
    /\ pc = "done" => \/ sws = Target
                      \/ /\ image.source = "HSE" /\ sws = "HSI"
                         /\ StartUpCounter = HSE_STARTUP_TIMEOUT \/ stopped

ClockInv == ClockTypeOK /\ SourceInv /\ PollInv /\ PllInv /\ SwitchInv

LEMMA FieldInRange ==
    ASSUME NEW d8 \in BOOLEAN, NEW f \in Factors
    PROVE  PLLMULL(d8, f) \in 0..15
BY DEF PLLMULL, Factors

\* The field tells the factors apart, and SystemCoreClockUpdate reads them back.
LEMMA FieldReadBack ==
    ASSUME NEW d8 \in BOOLEAN, NEW f \in Factors
    PROVE  /\ \A g \in Factors : PLLMULL(d8, g) = PLLMULL(d8, f) => g = f
           /\ Decoded(d8, PLLMULL(d8, f)) = 2 * f
BY DEF PLLMULL, Factors, Decoded

LEMMA NoPllTyped == NoPll \in Plls
BY DEF NoPll, Plls

LEMMA ImageTyped ==
    ASSUME image \in Images
    PROVE  /\ image.d8 \in BOOLEAN /\ image.source \in {"HSI", "HSE"}
           /\ image.factor # 0 => image.factor \in Factors
BY DEF Images

\* What a PLL set up for the build delivers.
LEMMA PllFrequency ==
    ASSUME image \in Images, Configured, image.source = "HSI" => hsiPre
    PROVE  /\ PllInput = 8000000
           /\ PllFactor = image.factor
           /\ (PllInput * Decoded(image.d8, pll.mull)) \div 2 = PllInput * image.factor
           /\ Nominal(image) = PllInput * image.factor
<1>1. /\ image.d8 \in BOOLEAN /\ image.source \in {"HSI", "HSE"}
      /\ image.factor \in Factors
  BY ImageTyped DEF Configured
<1>2. PllInput = 8000000
  BY <1>1 DEF PllInput, Configured, HSI_VALUE, HSE_VALUE
<1>3. PllFactor = image.factor
  <2>1. pll.mull = PLLMULL(image.d8, image.factor)
    BY DEF Configured
  <2>2. \A g \in Factors : PLLMULL(image.d8, g) = pll.mull <=> g = image.factor
    BY <1>1, <2>1, FieldReadBack
  <2>3. QED
    BY <1>1, <2>2 DEF PllFactor
<1>4. Decoded(image.d8, pll.mull) = 2 * image.factor
  BY <1>1, FieldReadBack DEF Configured
<1>5. QED
  BY <1>1, <1>2, <1>3, <1>4 DEF Configured, Nominal, Factors

LEMMA InitClockInv == ClockInit => ClockInv
<1> SUFFICES ASSUME ClockInit PROVE ClockInv
  OBVIOUS
<1>1. ClockTypeOK
  <2>1. {hseOn, hseRdy, pllOn, pllRdy, hsiPre, stopped} \subseteq BOOLEAN
    BY Zenon DEF ClockInit
  <2>2. QED
    BY <2>1, ClockAssumption, NoPllTyped DEF ClockInit, ClockTypeOK
<1>2. SourceInv /\ PollInv /\ PllInv /\ SwitchInv
  BY DEF ClockInit, SourceInv, PollInv, PllInv, SwitchInv, Clocked
<1>3. QED
  BY <1>1, <1>2 DEF ClockInv

LEMMA ProgramInv ==
    ASSUME ClockInv, Program
    PROVE  ClockInv'
<1> USE DEF ClockInv, ClockTypeOK, SourceInv, PollInv, PllInv, SwitchInv, Clocked,
            Configured, Goto, Target, ctlr
<1>1. CASE SystemInit
  <2>1. /\ {hseOn', hseRdy', pllOn', pllRdy'} \subseteq BOOLEAN
        /\ ~hseRdy' /\ ~pllOn' /\ ~pllRdy'
    BY <1>1, Zenon DEF SystemInit
  <2>2. QED
    BY <1>1, <2>1, NoPllTyped DEF SystemInit
<1>2. CASE SetSysClock
  BY <1>2, ImageTyped DEF SetSysClock
<1>3. CASE HseOn
  BY <1>3, ClockAssumption DEF HseOn
<1>4. CASE HsiPre
  BY <1>4 DEF HsiPre
<1>5. CASE PollHse
  BY <1>5, ClockAssumption DEF PollHse
<1>6. CASE CheckHse
  BY <1>6 DEF CheckHse
<1>7. CASE Prescalers
  BY <1>7, ImageTyped DEF Prescalers
<1>8. CASE ConfigurePll
  BY <1>8, ImageTyped, FieldInRange DEF ConfigurePll, Plls
<1>9. CASE EnablePll
  BY <1>9 DEF EnablePll
<1>10. CASE AwaitPll
  BY <1>10 DEF AwaitPll
<1>11. CASE SelectClock
  BY <1>11, ImageTyped DEF SelectClock
<1>12. CASE AwaitSwitch
  BY <1>12 DEF AwaitSwitch
<1>13. QED
  BY <1>1, <1>2, <1>3, <1>4, <1>5, <1>6, <1>7, <1>8, <1>9, <1>10, <1>11, <1>12
     DEF Program, SetSysClockTo_HSE, SetSysClockTo_HSI

\* The frequency the registers give when SystemInit has returned.
LEMMA FrequencyWhenDone ==
    ASSUME ClockInv, pc = "done"
    PROVE  /\ sws = Target => Frequency = Nominal(image)
           /\ sws = "HSI" => Frequency = HSI_VALUE
           /\ sws = "PLL" => (PllInput * Decoded(image.d8, pll.mull)) \div 2 = Frequency
<1> USE DEF ClockInv, ClockTypeOK
<1>1. sws = "PLL" => image.factor # 0 /\ Configured /\ (image.source = "HSI" => hsiPre)
  BY DEF SwitchInv, PllInv, Configured
<1>2. CASE sws = "PLL"
  BY <1>1, <1>2, PllFrequency DEF Frequency
<1>3. CASE sws # "PLL"
  BY <1>3, ImageTyped DEF Frequency, Target, Nominal
<1>4. QED
  BY <1>2, <1>3

LEMMA UpdateInv ==
    ASSUME ClockInv, SystemCoreClockUpdate
    PROVE  ClockInv' /\ SystemCoreClock' = Frequency
<1>1. /\ pc = "done" /\ image \in Images
      /\ UNCHANGED <<image, pc, StartUpCounter, ctlr, sw, sws, ppre1, pll, hsiPre, stopped>>
  BY DEF SystemCoreClockUpdate, ClockInv, ClockTypeOK
<1>2. SystemCoreClock' = Frequency
  BY <1>1, FrequencyWhenDone
     DEF SystemCoreClockUpdate, Frequency, ClockInv, ClockTypeOK
<1>3. Frequency \in {Nominal(image), HSI_VALUE}
  BY <1>1, FrequencyWhenDone DEF ClockInv, SwitchInv
<1>4. ClockTypeOK' /\ SourceInv' /\ PollInv' /\ PllInv' /\ SwitchInv'
  BY <1>1, <1>2, <1>3 DEF ClockInv, ClockTypeOK, SourceInv, PollInv, PllInv, SwitchInv,
     Clocked, Configured, Target, ctlr, Nominal
<1>5. QED
  BY <1>2, <1>4 DEF ClockInv

LEMMA HardwareInv ==
    ASSUME ClockInv, Hardware
    PROVE  ClockInv'
<1> USE DEF ClockInv, ClockTypeOK, SourceInv, PollInv, PllInv, SwitchInv, Clocked,
            Configured, Target, ctlr, program
<1>1. CASE HseStarts
  <2>0. hseRdy' = TRUE /\ stopped' = stopped /\ pllRdy' = pllRdy
    BY <1>1, Zenon DEF HseStarts, program
  <2>1. UNCHANGED <<image, pc, StartUpCounter, SystemCoreClock, hseOn, pllOn, sw, sws, ppre1, pll, hsiPre>>
    BY <1>1 DEF HseStarts, program
  <2>2. ClockTypeOK'
    BY <2>0, <2>1
  <2>3. SourceInv' /\ PollInv'
    BY <2>0, <2>1
  <2>4. PllInv'
    BY <2>0, <2>1
  <2>5. SwitchInv'
    BY <2>0, <2>1
  <2>6. QED
    BY <2>2, <2>3, <2>4, <2>5
<1>2. CASE PllLocks
  BY <1>2 DEF PllLocks
<1>3. CASE ClockSwitches
  BY <1>3 DEF ClockSwitches, Ready
<1>4. CASE HseStops
  <2>0. hseRdy' = FALSE /\ stopped' = TRUE /\ pllRdy' \in BOOLEAN /\ (pllRdy' => pllRdy)
    BY <1>4, Zenon DEF HseStops, program
  <2>1. /\ sws = "HSI"
        /\ UNCHANGED <<image, pc, StartUpCounter, SystemCoreClock, hseOn, pllOn, sw, sws, ppre1, pll, hsiPre>>
    BY <1>4 DEF HseStops, program
  <2>2. ClockTypeOK'
    BY <2>0, <2>1
  <2>3. SourceInv' /\ PollInv'
    BY <2>0, <2>1
  <2>4. PllInv'
    BY <2>0, <2>1
  <2>5. SwitchInv'
    BY <2>0, <2>1
  <2>6. QED
    BY <2>2, <2>3, <2>4, <2>5
<1>5. QED
  BY <1>1, <1>2, <1>3, <1>4 DEF Hardware

LEMMA StepClockInv == ClockInv /\ [ClockNext]_clkVars => ClockInv'
<1> SUFFICES ASSUME ClockInv, [ClockNext]_clkVars PROVE ClockInv'
  OBVIOUS
<1>1. CASE UNCHANGED clkVars
  BY <1>1 DEF clkVars, program, ctlr, ClockInv, ClockTypeOK, SourceInv, PollInv, PllInv,
     SwitchInv, Clocked, Configured, Target, Nominal
<1>2. QED
  BY <1>1, ProgramInv, UpdateInv, HardwareInv DEF ClockNext

LEMMA ClockInvariant == ClockSpec => []ClockInv
BY InitClockInv, StepClockInv, PTL DEF ClockSpec

\* The registers hold values of their fields, StartUpCounter never passes the
\* time-out, and SystemCoreClock is the frequency of the build or of the internal
\* oscillator.
THEOREM ClockTypeCorrect == ClockSpec => []ClockTypeOK
<1>1. ClockInv => ClockTypeOK
  BY DEF ClockInv
<1>2. QED
  BY <1>1, ClockInvariant, PTL

\* SystemInit leaves the frequency the build names, or the crystal did not start in
\* time and the internal oscillator is still in use.
THEOREM ClockCorrect == ClockSpec => []ClockAsNamed
<1>1. ClockInv => ClockAsNamed
  BY FrequencyWhenDone DEF ClockInv, SwitchInv, ClockAsNamed
<1>2. QED
  BY <1>1, ClockInvariant, PTL

LEMMA StepInOrder ==
    ASSUME ClockInv, [ClockNext]_clkVars
    PROVE  /\ pll' # pll => ~pllOn
           /\ sw' # sw => Ready(sw') \/ stopped
           /\ sws' = "PLL" => ppre1' = 2
<1>1. sws' = "PLL" => ppre1' = 2
  BY StepClockInv DEF ClockInv, SwitchInv
<1>2. CASE UNCHANGED clkVars
  BY <1>1, <1>2 DEF clkVars
<1>3. CASE SystemInit
  BY <1>1, <1>3 DEF SystemInit, Goto, ClockInv, PllInv, Ready
<1>4. CASE ConfigurePll
  BY <1>1, <1>4 DEF ConfigurePll, Goto, ClockInv, PllInv
<1>5. CASE SelectClock
  BY <1>1, <1>5, ImageTyped DEF SelectClock, Goto, ClockInv, ClockTypeOK, SourceInv,
     PllInv, Clocked, Target, Ready
<1>6. CASE SetSysClock \/ HseOn \/ HsiPre \/ PollHse \/ CheckHse \/ Prescalers
           \/ EnablePll \/ AwaitPll \/ AwaitSwitch
  BY <1>1, <1>6 DEF SetSysClock, HseOn, HsiPre, PollHse, CheckHse, Prescalers, EnablePll,
     AwaitPll, AwaitSwitch
<1>7. CASE SystemCoreClockUpdate
  BY <1>1, <1>7 DEF SystemCoreClockUpdate
<1>8. CASE Hardware
  BY <1>1, <1>8 DEF Hardware, HseStarts, HseStops, PllLocks, ClockSwitches
<1>9. QED
  BY <1>2, <1>3, <1>4, <1>5, <1>6, <1>7, <1>8
     DEF ClockNext, Program, SetSysClockTo_HSE, SetSysClockTo_HSI

\* The clock is switched in the order the hardware asks for.
THEOREM SwitchCorrect == ClockSpec => SwitchedInOrder
<1>1. ClockInv /\ [ClockNext]_clkVars =>
        [ /\ pll' # pll => ~pllOn
          /\ sw' # sw => Ready(sw') \/ stopped
          /\ sws' = "PLL" => ppre1' = 2 ]_clkVars
  BY StepInOrder
<1>2. QED
  BY <1>1, ClockInvariant, PTL DEF ClockSpec, SwitchedInOrder

\* SystemCoreClockUpdate decodes what SystemInit encoded, for both devices.
THEOREM UpdateCorrect == ClockSpec => UpdateAgrees
<1>1. ClockInv /\ [ClockNext]_clkVars =>
        [SystemCoreClockUpdate => SystemCoreClock' = Frequency]_clkVars
  BY UpdateInv
<1>2. QED
  BY <1>1, ClockInvariant, PTL DEF ClockSpec, UpdateAgrees
=============================================================================
