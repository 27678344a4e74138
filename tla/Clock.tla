------------------------------- MODULE Clock -------------------------------
(***************************************************************************)
(* micro_clock::now() (platform/clock/systick_timer.cpp) and sleep_for()      *)
(* (architecture/interface/fiber.hpp).  The time is the tick count, which the *)
(* SysTick interrupt advances by a step every 250 ms, and what the hardware  *)
(* counter has counted down since, converted to units of time with a cut-off *)
(* reciprocal.  The counter wraps before the interrupt runs, so the two do    *)
(* not fit for a moment, and now() has to notice.  The clock wraps, too.      *)
(*                                                                         *)
(* A tick is Period counts and Step units.  True time is measured in parts,   *)
(* of which a count has Step and a unit has Period, so that a unit need not   *)
(* be a whole number of counts: the board has 22.5 of them in a microsecond. *)
(***************************************************************************)
EXTENDS Integers

CONSTANTS
    Period,     \* counts per tick, 5625000
    Step,       \* units per tick, 250000
    Scale,      \* 2^Ncycles, by which the reciprocal is multiplied, 2^32
    Wrap,       \* values of the clock, 2^32
    Duration,   \* of the sleep, in units
    MaxSleep,   \* bound: counts before which a sleeper has its turn
    MaxCall,    \* bound: counts that pass in a call of now()
    MaxLag      \* statements done before a pending tick interrupt is served

(* us_per_Ncycles fits its width, and LOAD the 24 bits of the counter *)
ASSUME ClockAssumption ==
    /\ Period \in Nat /\ Step \in Nat \ {0} /\ Scale \in Nat
    /\ Step < Period /\ Period <= Scale
    /\ Wrap \in Nat /\ Duration \in Nat \ {0}
    /\ MaxSleep \in Nat /\ (Duration + 1) * Period <= MaxSleep * Step
    /\ MaxCall \in Nat /\ (MaxSleep + 2 * (MaxCall + 1)) * Step < Wrap * Period
    /\ MaxLag \in Nat

VARIABLES
    val,            \* SysTick->VAL
    pending, lag,   \* the tick interrupt, and statements done while it waits
    micro_time,     \* ticks times step
    interrupt,      \* the flag between now() and the interrupt
    pc,             \* next statement of the fiber
    start,          \* poll_for: the first reading; -1 until it is taken
    read_val, us,   \* now(): what it has read
    called, slept   \* counts since now() was called, and since the first reading

tickVars  == <<val, pending, micro_time>>
sleepVars == <<start, slept>>
nowVars   == <<read_val, us, called>>
clockVars == <<tickVars, lag, interrupt, pc, sleepVars, nowVars>>

(* SysTickTimer::initialize *)
Load == Period - 1
us_per_Ncycles == (Scale * Step) \div Period

ClockInit ==
    /\ val = Load /\ pending = FALSE /\ lag = 0
    /\ micro_time = 0
    /\ interrupt = FALSE
    /\ start = -1 /\ slept = 0
    /\ read_val = 0 /\ us = 0 /\ called = 0

Round == Wrap * Period      \* parts after which the clock repeats itself

(* The true time in parts: a tick that is pending counts once VAL is reloaded *)
Truth ==
    (micro_time * Period + (Load - val) * Step + (IF pending /\ val # 0 THEN Period * Step ELSE 0)) % Round

(* The unit of time that many parts ago *)
UnitAt(ago) == ((Truth - ago) % Round) \div Period
Later(time, than) == (time - than + Wrap) % Wrap

-----------------------------------------------------------------------------
(* The hardware, and the interrupt at the lowest priority *)

InNow  == pc \in {"clear", "val", "time", "check"}
Asleep == pc = "yield" \/ InNow

(* The interrupt pends when the counter reaches 0; a count later it is reloaded *)
Count ==
    /\ ~(val = 1 /\ pending)
    /\ pc = "yield" => slept < MaxSleep \/ val = 0
    /\ InNow => called < MaxCall \/ val = 0
    /\ val' = IF val = 0 THEN Load ELSE val - 1
    /\ pending' = (pending \/ val = 1)
    /\ slept' = IF Asleep THEN slept + 1 ELSE slept
    /\ called' = IF InNow THEN called + 1 ELSE called
    /\ UNCHANGED <<micro_time, lag, interrupt, pc, start, read_val, us>>

(* Mutant: the interrupt does not tell a reader that it came *)
SysTick_Handler_Silent ==
    /\ pending /\ val # 0
    /\ micro_time' = (micro_time + Step) % Wrap
    /\ pending' = FALSE /\ lag' = 0
    /\ UNCHANGED <<val, interrupt, pc, sleepVars, nowVars>>
(* To enter it takes the processor longer than one count of 8 cycles *)
SysTick_Handler ==
    /\ pending /\ val # 0
    /\ micro_time' = (micro_time + Step) % Wrap
    /\ interrupt' = TRUE
    /\ pending' = FALSE /\ lag' = 0
    /\ UNCHANGED <<val, pc, sleepVars, nowVars>>

(* A statement of the fiber: not many of them before a pending interrupt *)
Statement(at, next) ==
    /\ pc = at /\ pc' = next
    /\ IF pending THEN lag < MaxLag /\ lag' = lag + 1 ELSE UNCHANGED lag
    /\ UNCHANGED tickVars

-----------------------------------------------------------------------------
(* now() *)

ClearFlag ==
    /\ Statement("clear", "val")
    /\ interrupt' = FALSE
    /\ UNCHANGED <<sleepVars, nowVars>>
ReadCounter ==
    /\ Statement("val", "time")
    /\ read_val' = val
    /\ slept' = IF start = -1 THEN 0 ELSE slept
    /\ UNCHANGED <<interrupt, start, us, called>>
ReadTicks ==
    /\ Statement("time", "check")
    /\ us' = micro_time
    /\ UNCHANGED <<interrupt, sleepVars, read_val, called>>
ReadAgain ==
    /\ interrupt
    /\ Statement("check", "clear")
    /\ UNCHANGED <<interrupt, sleepVars, nowVars>>

(* What now() returns when the flag is still clear *)
Reading == (us + ((Load - read_val) * us_per_Ncycles) \div Scale) % Wrap
Reads(next) ==
    /\ ~interrupt
    /\ Statement("check", next)
    /\ read_val' = 0 /\ us' = 0 /\ called' = 0     \* now() has returned
    /\ UNCHANGED interrupt

-----------------------------------------------------------------------------
(* sleep_for, that is, poll_for with a condition that is never true *)

CallSleep(at) ==
    /\ Statement(at, "clear")
    /\ start' = -1 /\ slept' = 0
    /\ called' = 0
    /\ UNCHANGED <<interrupt, read_val, us>>

Started ==
    /\ start = -1
    /\ Reads("yield")
    /\ start' = Reading
    /\ UNCHANGED slept

(* The other fibers run; then the time is looked at again *)
Resumed ==
    /\ Statement("yield", "clear")
    /\ called' = 0
    /\ UNCHANGED <<interrupt, sleepVars, read_val, us>>

SleepsOn ==
    /\ start # -1 /\ Later(Reading, start) < Duration
    /\ Reads("yield")
    /\ UNCHANGED sleepVars
(* Mutant: a sleep ends one unit early *)
Wakes_Early(next) ==
    /\ start # -1 /\ Later(Reading, start) + 1 >= Duration
    /\ Reads(next)
    /\ UNCHANGED sleepVars
Wakes(next) ==
    /\ start # -1 /\ Later(Reading, start) >= Duration
    /\ Reads(next)
    /\ UNCHANGED sleepVars

Sleeping == ClearFlag \/ ReadCounter \/ ReadTicks \/ ReadAgain \/ Started \/ Resumed \/ SleepsOn

-----------------------------------------------------------------------------
(* The parts that the conversion loses of d counts, and of the most there are *)
Short(d) == (d * ((Scale * Step) % Period) + Scale - 1) \div Scale
Slip == Short(Load)

(* A reading lies between the true time when now() was called, less what the *)
(* conversion loses, and the true time when it returns, wherever the counter *)
(* wraps, the interrupt falls or the clock itself goes round.  What is lost   *)
(* is less than a unit: an exact multiple of it may be read as one less.     *)
NowIsNow ==
    [][pc = "check" /\ pc' \notin {"check", "clear"} =>
         LET earliest == UnitAt(called * Step + Slip)
         IN  Later(Reading, earliest) <= Later(UnitAt(0), earliest)]_clockVars
=============================================================================
