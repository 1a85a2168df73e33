----------------------------- MODULE SysClock -------------------------------
(***************************************************************************)
(* system_ch32v30x.c: SystemInit brings the chip from the internal         *)
(* oscillator it resets to, to the clock its build names, and              *)
(* SystemCoreClockUpdate reads that clock back.  The oscillators, the PLL  *)
(* and the clock switch react to the registers in their own time; the      *)
(* crystal may never start, and it may stop while SystemInit relies on it. *)
(*                                                                         *)
(* The register fields of HPRE and PPRE2 are left out: they are 0 after    *)
(* SystemInit and "|= ..._DIV1" keeps them so.                             *)
(***************************************************************************)
EXTENDS Integers

CONSTANT HSE_STARTUP_TIMEOUT    \* polls after which the crystal is given up

ASSUME ClockAssumption == HSE_STARTUP_TIMEOUT \in Nat \ {0}

HSI_VALUE == 8000000
HSE_VALUE == 8000000

\* What an image is built for: the device (CH32V30x_D8 or not) and the SYSCLK_FREQ
\* macro, which names a source and the factor of the PLL; factor 0 is the source
\* itself.
Factors == {6, 7, 9, 12, 15, 18}
Images  == [d8 : BOOLEAN, source : {"HSI", "HSE"}, factor : {0} \cup Factors]

\* The frequency the macro names.
Nominal(im) ==
    IF im.factor = 0 THEN IF im.source = "HSI" THEN HSI_VALUE ELSE HSE_VALUE
                     ELSE im.factor * 8000000

\* The field that asks the PLL for a factor: RCC_PLLMULLn, RCC_PLLMULLn_EXTEN.
PLLMULL(d8, factor) ==
    IF d8 THEN IF factor = 18 THEN 15 ELSE factor - 2
          ELSE IF factor = 18 THEN 0 ELSE IF factor = 15 THEN 14 ELSE factor - 2

VARIABLES
    image,              \* the build, fixed
    pc, StartUpCounter,
    hseOn, hseRdy, pllOn, pllRdy,       \* RCC->CTLR
    sw, sws,                            \* RCC->CFGR0: source selected, source in use
    ppre1, pll,                         \* RCC->CFGR0: APB1 divisor, set-up of the PLL
    hsiPre,                             \* EXTEN_PLL_HSI_PRE: the PLL gets HSI undivided
    stopped,                            \* the crystal has stopped after it was ready
    SystemCoreClock

program == <<image, pc, StartUpCounter, SystemCoreClock>>
ctlr    == <<hseOn, hseRdy, pllOn, pllRdy>>
clkVars == <<program, ctlr, sw, sws, ppre1, pll, hsiPre, stopped>>

NoPll == [source |-> "HSI", xtpre |-> FALSE, mull |-> 0]

\* Reset: everything runs from the internal oscillator.
ClockInit ==
    /\ image \in Images
    /\ pc = "reset" /\ StartUpCounter = 0
    /\ hseOn = FALSE /\ hseRdy = FALSE /\ pllOn = FALSE /\ pllRdy = FALSE
    /\ sw = "HSI" /\ sws = "HSI" /\ ppre1 = 1 /\ pll = NoPll /\ hsiPre = FALSE
    /\ stopped = FALSE
    /\ SystemCoreClock = Nominal(image)
-----------------------------------------------------------------------------
Goto(from, to) ==
    /\ pc = from /\ pc' = to
    /\ UNCHANGED <<image, SystemCoreClock, stopped>>

\* SystemInit up to its call of SetSysClock: back to the internal oscillator,
\* crystal and PLL off, no set-up of the PLL.
SystemInit ==
    /\ Goto("reset", "set")
    /\ sw' = "HSI" /\ ppre1' = 1 /\ pll' = NoPll
    /\ hseOn' = FALSE /\ hseRdy' = FALSE /\ pllOn' = FALSE /\ pllRdy' = FALSE
    /\ UNCHANGED <<sws, hsiPre, StartUpCounter>>

\* SetSysClock calls the one function the build has, if it has one.
SetSysClock ==
    /\ Goto("set", IF image.source = "HSE" THEN "hseOn"
                   ELSE IF image.factor # 0 THEN "hsiPre" ELSE "done")
    /\ UNCHANGED <<StartUpCounter, ctlr, sw, sws, ppre1, pll, hsiPre>>

HseOn ==
    /\ Goto("hseOn", "poll")
    /\ hseOn' = TRUE
    /\ UNCHANGED <<StartUpCounter, hseRdy, pllOn, pllRdy, sw, sws, ppre1, pll, hsiPre>>

HsiPre ==
    /\ Goto("hsiPre", "prescalers")
    /\ hsiPre' = TRUE
    /\ UNCHANGED <<StartUpCounter, ctlr, sw, sws, ppre1, pll>>

\* Fault: the counter is not looked at.
PollForEver ==
    /\ Goto("poll", IF hseRdy THEN "check" ELSE "poll")
    /\ StartUpCounter' = 0
    /\ UNCHANGED <<ctlr, sw, sws, ppre1, pll, hsiPre>>

\* Fault: the loop gives up after its first round.
PollOnce ==
    /\ Goto("poll", "check")
    /\ StartUpCounter' = StartUpCounter + 1
    /\ UNCHANGED <<ctlr, sw, sws, ppre1, pll, hsiPre>>

\* One round of the loop that waits for the crystal.
PollHse ==
    /\ Goto("poll", IF ~hseRdy /\ StartUpCounter + 1 # HSE_STARTUP_TIMEOUT
                    THEN "poll" ELSE "check")
    /\ StartUpCounter' = StartUpCounter + 1
    /\ UNCHANGED <<ctlr, sw, sws, ppre1, pll, hsiPre>>

\* The second read of HSERDY: the crystal may have started after the last poll.
CheckHse ==
    /\ Goto("check", IF hseRdy THEN "prescalers" ELSE "done")
    /\ UNCHANGED <<StartUpCounter, ctlr, sw, sws, ppre1, pll, hsiPre>>

Prescalers ==
    /\ Goto("prescalers", IF image.factor = 0 THEN "select" ELSE "configure")
    /\ ppre1' = IF image.factor = 0 THEN 1 ELSE 2
    /\ UNCHANGED <<StartUpCounter, ctlr, sw, sws, pll, hsiPre>>

ConfigurePll ==
    /\ Goto("configure", "enable")
    /\ pll' = [source |-> image.source, xtpre |-> FALSE,
               mull |-> PLLMULL(image.d8, image.factor)]
    /\ UNCHANGED <<StartUpCounter, ctlr, sw, sws, ppre1, hsiPre>>

EnablePll ==
    /\ Goto("enable", "lock")
    /\ pllOn' = TRUE
    /\ UNCHANGED <<StartUpCounter, hseOn, hseRdy, pllRdy, sw, sws, ppre1, pll, hsiPre>>

\* Fault: PLLRDY is not waited for.
DoNotAwaitPll ==
    /\ Goto("lock", "select")
    /\ UNCHANGED <<StartUpCounter, ctlr, sw, sws, ppre1, pll, hsiPre>>

AwaitPll ==
    /\ Goto("lock", "select")
    /\ pllRdy
    /\ UNCHANGED <<StartUpCounter, ctlr, sw, sws, ppre1, pll, hsiPre>>

Target == IF image.factor = 0 THEN image.source ELSE "PLL"

SelectClock ==
    /\ Goto("select", "switch")
    /\ sw' = Target
    /\ UNCHANGED <<StartUpCounter, ctlr, sws, ppre1, pll, hsiPre>>

AwaitSwitch ==
    /\ Goto("switch", "done")
    /\ sws = Target
    /\ UNCHANGED <<StartUpCounter, ctlr, sw, sws, ppre1, pll, hsiPre>>

SetSysClockTo_HSE ==
    \/ HseOn \/ PollHse \/ CheckHse
    \/ Prescalers \/ ConfigurePll \/ EnablePll \/ AwaitPll
    \/ SelectClock \/ AwaitSwitch

SetSysClockTo_HSI ==
    \/ HsiPre
    \/ Prescalers \/ ConfigurePll \/ EnablePll \/ AwaitPll
    \/ SelectClock \/ AwaitSwitch

\* Fault: the field 0, which means 18, is taken for 2.
DecodedPlainly(d8, field) == 2 * (field + 2)

\* Twice the factor SystemCoreClockUpdate reads from the field: 6.5 is 13 / 2.
Decoded(d8, field) ==
    LET pllmull == field + 2 IN
    IF d8 THEN 2 * (IF pllmull = 17 THEN 18 ELSE pllmull)
          ELSE IF pllmull = 2 THEN 36
          ELSE IF pllmull = 15 THEN 13
          ELSE IF pllmull \in {16, 17} THEN 2 * (pllmull - 1) ELSE 2 * pllmull

PllInput ==
    IF pll.source = "HSI" THEN IF hsiPre THEN HSI_VALUE ELSE HSI_VALUE \div 2
                          ELSE IF pll.xtpre THEN HSE_VALUE \div 2 ELSE HSE_VALUE

SystemCoreClockUpdate ==
    /\ pc = "done"
    /\ SystemCoreClock' = IF sws = "HSI" THEN HSI_VALUE
                          ELSE IF sws = "HSE" THEN HSE_VALUE
                          ELSE (PllInput * Decoded(image.d8, pll.mull)) \div 2
    /\ UNCHANGED <<image, pc, StartUpCounter, ctlr, sw, sws, ppre1, pll, hsiPre, stopped>>
-----------------------------------------------------------------------------
(***************************************************************************)
(* The clock hardware.                                                     *)
(***************************************************************************)
HseStarts ==
    /\ hseOn /\ ~hseRdy
    /\ hseRdy' = TRUE
    /\ UNCHANGED <<program, hseOn, pllOn, pllRdy, sw, sws, ppre1, pll, hsiPre, stopped>>

\* A crystal that is not in use yet stops, and with it the PLL it feeds.  Once the core
\* runs from it nothing is executed any more.
HseStops ==
    /\ hseRdy /\ sws = "HSI"
    /\ hseRdy' = FALSE /\ stopped' = TRUE
    /\ pllRdy' = (pllRdy /\ pll.source # "HSE")
    /\ UNCHANGED <<program, hseOn, pllOn, sw, sws, ppre1, pll, hsiPre>>

PllLocks ==
    /\ pllOn /\ ~pllRdy /\ (pll.source = "HSE" => hseRdy)
    /\ pllRdy' = TRUE
    /\ UNCHANGED <<program, hseOn, hseRdy, pllOn, sw, sws, ppre1, pll, hsiPre, stopped>>

Ready(source) == (source = "HSE" => hseRdy) /\ (source = "PLL" => pllRdy)

ClockSwitches ==
    /\ sws # sw /\ Ready(sw)
    /\ sws' = sw
    /\ UNCHANGED <<program, ctlr, sw, ppre1, pll, hsiPre, stopped>>

\* Of all factors, the one the field asks the PLL for.
PllFactor == CHOOSE f \in Factors : PLLMULL(image.d8, f) = pll.mull

\* The frequency the core runs at.
Frequency ==
    IF sws = "HSI" THEN HSI_VALUE
    ELSE IF sws = "HSE" THEN HSE_VALUE
    ELSE PllInput * PllFactor
-----------------------------------------------------------------------------
Program  == SystemInit \/ SetSysClock \/ SetSysClockTo_HSE \/ SetSysClockTo_HSI
Hardware == HseStarts \/ HseStops \/ PllLocks \/ ClockSwitches

ClockNext == Program \/ SystemCoreClockUpdate \/ Hardware

ClockSpec == ClockInit /\ [][ClockNext]_clkVars
-----------------------------------------------------------------------------
Plls == [source : {"HSI", "HSE"}, xtpre : BOOLEAN, mull : 0..15]

ClockTypeOK ==
    /\ image \in Images
    /\ pc \in {"reset", "set", "hseOn", "hsiPre", "poll", "check", "prescalers",
               "configure", "enable", "lock", "select", "switch", "done"}
    /\ StartUpCounter \in 0..HSE_STARTUP_TIMEOUT
    /\ hseOn \in BOOLEAN /\ hseRdy \in BOOLEAN
    /\ pllOn \in BOOLEAN /\ pllRdy \in BOOLEAN
    /\ sw \in {"HSI", "HSE", "PLL"} /\ sws \in {"HSI", "HSE", "PLL"}
    /\ ppre1 \in 1..2 /\ pll \in Plls /\ hsiPre \in BOOLEAN
    /\ stopped \in BOOLEAN
    /\ SystemCoreClock \in {Nominal(image), HSI_VALUE}

\* When SystemInit returns the core runs at the frequency the build names, or else
\* the crystal was polled HSE_STARTUP_TIMEOUT times and given up, or had stopped when
\* HSERDY was read again, and the core still runs from the internal oscillator.
ClockAsNamed ==
    pc = "done" => \/ Frequency = Nominal(image)
                   \/ /\ image.source = "HSE" /\ Frequency = HSI_VALUE
                      /\ StartUpCounter = HSE_STARTUP_TIMEOUT \/ stopped

\* The clock is switched in the order the hardware asks for: the PLL is set up while
\* it is off, a source is selected when it is ready, unless the crystal stops after
\* it was waited for, and the core runs from the PLL only when APB1 is divided.
SwitchedInOrder ==
    [][ /\ pll' # pll => ~pllOn
        /\ sw' # sw => Ready(sw') \/ stopped
        /\ sws' = "PLL" => ppre1' = 2 ]_clkVars

\* SystemCoreClockUpdate finds the frequency the core runs at, whatever the build and
\* however SystemInit ended.
UpdateAgrees == [][SystemCoreClockUpdate => SystemCoreClock' = Frequency]_clkVars

\* SystemInit returns, also when the crystal never starts.  It can be held in two places
\* only, the loops without a time-out that wait for PLLRDY and for SWS, and only when the
\* crystal has stopped after it was ready; held for good there, it never returns.
Returns == <>(pc = "done") \/ <>[](pc \in {"lock", "switch"} /\ image.source = "HSE" /\ stopped)

\* SystemInit sets up the PLL and updates SystemCoreClock: when it returns the
\* variable holds the frequency the core runs at.
CoreClockUpdated == pc = "done" => SystemCoreClock = Frequency
=============================================================================
