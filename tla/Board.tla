------------------------------- MODULE Board --------------------------------
(***************************************************************************)
(* ch32v30x.c: board_init starts timer 3 from the frequency SysClock       *)
(* leaves in SystemCoreClock, and its interrupt counts milliseconds.  The  *)
(* timer runs on while the USB interrupt, which may print, holds the       *)
(* handler up; it can overflow between any two accesses of the handler.    *)
(***************************************************************************)
EXTENDS SysClock

CONSTANT CountValues    \* values of millis_count: 2^32 in the code

ASSUME BoardAssumption == CountValues \in Nat \ {0}

VARIABLES
    psc,            \* TIM3->PSC
    timer,          \* "on": TIM3 counts and its update interrupt is enabled
    uif,            \* 1 while TIM_IT_Update is pending
    isr,            \* where TIM3_IRQHandler is
    millis_count,
    overflows,      \* times the timer has overflowed, modulo CountValues
    missed          \* those that found the flag of another still set, likewise

tim3      == <<psc, timer, uif, isr, millis_count, overflows, missed>>
boardVars == <<clkVars, tim3>>

BoardStart ==
    /\ ClockInit
    /\ psc = 0 /\ timer = "off" /\ uif = 0 /\ isr = "idle"
    /\ millis_count = 0 /\ overflows = 0 /\ missed = 0

\* Fault: the counter of the prescaler is taken to end at its value less one.
PrescalerNotLessOne(clock) == (clock \div 1000) % 65536

\* SystemCoreClock / 1000 - 1 as TIM3_Init gets it, in a uint16_t.
Prescaler(clock) == (clock \div 1000 - 1) % 65536

TIM3_Init(prescaler) ==
    /\ timer' = "on" /\ psc' = prescaler
    /\ UNCHANGED <<uif, isr, millis_count, overflows, missed>>

board_init ==
    /\ pc = "done" /\ timer = "off"
    /\ TIM3_Init(Prescaler(SystemCoreClock))
    /\ UNCHANGED clkVars

\* Fault: the counter is taken to be unbounded.
OneMoreUnwrapped(n) == n + 1

\* A counter of the width of millis_count wraps.
OneMore(n) == (n + 1) % CountValues

TimerOverflows ==
    /\ timer = "on"
    /\ overflows' = OneMore(overflows)
    /\ uif' = 1
    /\ missed' = IF uif = 1 THEN OneMore(missed) ELSE missed
    /\ UNCHANGED <<clkVars, psc, timer, isr, millis_count>>

\* Fault: the handler does not look at the flag it clears.
EnterAnyway ==
    /\ isr = "idle" /\ timer = "on"
    /\ isr' = "count"
    /\ UNCHANGED <<clkVars, psc, timer, uif, millis_count, overflows, missed>>

\* TIM3_IRQHandler is entered and finds the flag set.
EnterHandler ==
    /\ isr = "idle" /\ timer = "on" /\ uif = 1
    /\ isr' = "count"
    /\ UNCHANGED <<clkVars, psc, timer, uif, millis_count, overflows, missed>>

CountMillis ==
    /\ isr = "count" /\ isr' = "clear"
    /\ millis_count' = OneMore(millis_count)
    /\ UNCHANGED <<clkVars, psc, timer, uif, overflows, missed>>

ClearPending ==
    /\ isr = "clear" /\ isr' = "idle"
    /\ uif' = 0
    /\ UNCHANGED <<clkVars, psc, timer, millis_count, overflows, missed>>

TIM3_IRQHandler == EnterHandler \/ CountMillis \/ ClearPending

\* The clock does all it does in SysClock, the timer beside it.
ClockStep == ClockNext /\ UNCHANGED tim3

BoardNext == ClockStep \/ board_init \/ TimerOverflows \/ TIM3_IRQHandler

BoardSpec == BoardStart /\ [][BoardNext]_boardVars

\* The CPU executes the program; a PLL with a running source locks, and the switch
\* to a running source completes.  Nothing makes the crystal start.
FairBoardSpec ==
    /\ BoardSpec
    /\ WF_boardVars(Program /\ UNCHANGED tim3)
    /\ WF_boardVars(PllLocks /\ UNCHANGED tim3)
    /\ WF_boardVars(ClockSwitches /\ UNCHANGED tim3)
-----------------------------------------------------------------------------
UINT16 == 0..65535

BoardTypeOK ==
    /\ ClockTypeOK
    /\ psc \in UINT16 /\ timer \in {"off", "on"} /\ uif \in 0..1
    /\ isr \in {"idle", "count", "clear"}
    /\ millis_count \in 0..CountValues - 1
    /\ overflows \in 0..CountValues - 1 /\ missed \in 0..CountValues - 1

\* An overflow that is pending and not counted yet.
Pending == IF isr = "clear" THEN 0 ELSE uif

\* The count is that of the overflows, but for those that found another one pending:
\* none is counted twice, and none is lost otherwise, also when the timer overflows
\* inside the handler and when the count wraps.
MillisAccounted ==
    (millis_count + missed + Pending) % CountValues = overflows

\* Cycles between two overflows: (9 + 1) * (PSC + 1).  The timer runs at the
\* frequency of the core, APB1 divided by 2 being doubled for it.
TickCycles == 10 * (psc + 1)

\* A tick is 10 ms, unless the prescaler did not fit or the crystal never started.
TickUnlessTruncated ==
    timer = "on" /\ Nominal(image) <= 65536000 /\ Frequency = Nominal(image)
        => TickCycles * 100 = Frequency

\* chey_board_millis counts milliseconds.
TickIsMillisecond == timer = "on" => TickCycles * 1000 = Frequency
=============================================================================
