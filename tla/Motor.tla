------------------------------- MODULE Motor -------------------------------
(***************************************************************************)
(* driver_fiber of main.cpp: every 500 us it swaps the two inputs of the      *)
(* bridge, one of which gets a half duty.  configureOutputChannel writes the  *)
(* compare value to a preload register, from where the timer takes it at its  *)
(* next update event (every 80 us), so both inputs change at once, unless the *)
(* event falls between the two calls.                                        *)
(***************************************************************************)
EXTENDS Clock

VARIABLES
    steper,     \* the last value of the code's steper was positive
    enabled,    \* output of the channel enabled in CCER
    ccr,        \* preload register: TRUE for half of the period, FALSE for 0
    shadow,     \* the value that the timer compares with
    updated     \* an update event fell into this swap

timerVars == <<enabled, ccr, shadow, updated>>
vars == <<clockVars, steper, timerVars>>

In == {"In1", "In2"}

Init ==
    /\ ClockInit
    /\ pc = "off1"
    /\ steper = FALSE
    /\ enabled = [i \in In |-> TRUE]
    /\ ccr = [i \in In |-> FALSE]
    /\ shadow = [i \in In |-> FALSE]
    /\ updated = FALSE

KeepsTime == UNCHANGED <<interrupt, sleepVars, nowVars>>

-----------------------------------------------------------------------------
(* configureOutputChannel, called for In1 and then for In2; only steper tells *)
(* which of them gets the half duty                                          *)

half(i) == (i = "In1") <=> steper

Disable(i, at, next) ==
    /\ Statement(at, next)
    /\ enabled' = [enabled EXCEPT ![i] = FALSE]
    /\ KeepsTime /\ UNCHANGED <<steper, ccr, shadow, updated>>

(* Mutant: the input that is to rest is left as it is *)
SetCompareValue_OnlyHalf(i, at, next) ==
    /\ Statement(at, next)
    /\ ccr' = [ccr EXCEPT ![i] = ccr[i] \/ half(i)]
    /\ KeepsTime /\ UNCHANGED <<steper, enabled, shadow, updated>>
SetCompareValue(i, at, next) ==
    /\ Statement(at, next)
    /\ ccr' = [ccr EXCEPT ![i] = half(i)]
    /\ KeepsTime /\ UNCHANGED <<steper, enabled, shadow, updated>>

(* The mode is written again as it was, preload included *)
Enable(i, at, next) ==
    /\ Statement(at, next)
    /\ enabled' = [enabled EXCEPT ![i] = TRUE]
    /\ KeepsTime /\ UNCHANGED <<steper, ccr, shadow, updated>>

Swap ==
    \/ Disable("In1", "off1", "ccr1") \/ SetCompareValue("In1", "ccr1", "on1") \/ Enable("In1", "on1", "off2")
    \/ Disable("In2", "off2", "ccr2") \/ SetCompareValue("In2", "ccr2", "on2") \/ Enable("In2", "on2", "step")

(* Mutant: steper is not changed *)
NextStep_Same ==
    /\ CallSleep("step")
    /\ updated' = FALSE
    /\ UNCHANGED <<steper, enabled, ccr, shadow>>
(* steper = 1 becomes -1, everything else 1; then sleep_for(500us) *)
NextStep ==
    /\ CallSleep("step")
    /\ steper' = ~steper
    /\ updated' = FALSE
    /\ UNCHANGED <<enabled, ccr, shadow>>

(* A sleep is longer than a period of the timer: it has an update event *)
Awake ==
    /\ updated
    /\ Wakes("off1")
    /\ updated' = FALSE
    /\ UNCHANGED <<steper, enabled, ccr, shadow>>

Fiber ==
    \/ Swap \/ NextStep \/ Awake
    \/ Sleeping /\ UNCHANGED <<steper, timerVars>>

-----------------------------------------------------------------------------
(* The timer's update event.  A swap of a dozen register writes is shorter   *)
(* than the period of 80 us, so at most one event falls into it.             *)
Swapping == pc \in {"ccr1", "on1", "off2", "ccr2", "on2", "step"}

Update ==
    /\ Swapping => ~updated
    /\ shadow' = ccr
    /\ updated' = TRUE
    /\ UNCHANGED <<clockVars, steper, enabled, ccr>>

Next ==
    \/ Fiber
    \/ (Count \/ SysTick_Handler) /\ UNCHANGED <<steper, timerVars>>
    \/ Update

(* The fiber runs on and gets its turn (NoStarvation of FiberScheduler), the *)
(* counter counts, the interrupt is served, the timer has its events.        *)
Spec ==
    /\ Init /\ [][Next]_vars
    /\ WF_vars(Fiber)
    /\ WF_vars(Count /\ UNCHANGED <<steper, timerVars>>)
    /\ WF_vars(SysTick_Handler /\ UNCHANGED <<steper, timerVars>>)
    /\ WF_vars(Update)

-----------------------------------------------------------------------------
Both == \A i \in In : shadow[i]

(* An update event between the two calls of a swap towards In1 drives both    *)
(* inputs; that lasts for one period, until the next event, never longer.    *)
OverlapIsShort == [][Update /\ Both => ~Both']_vars

(* Each direction is driven again and again, and the other rests then *)
Alternates == \A i \in In : []<>(shadow = [j \in In |-> j = i])

(* A direction is held for the duration of the sleep, less the fraction of a *)
(* unit in which it began and what the conversion loses: readings are cut off *)
(* to whole units, so that a sleep may be shorter than asked by one of them.  *)
HeldLongEnough == pc = "off1" /\ start # -1 => slept * Step + Slip > (Duration - 1) * Period
=============================================================================
