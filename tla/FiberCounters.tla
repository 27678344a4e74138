--------------------------- MODULE FiberCounters ---------------------------
(***************************************************************************)
(* counting_semaphore, latch and barrier (processing/fiber).  The loops of    *)
(* load and compare-exchange are one step: an interrupt in between makes     *)
(* them start over.  An interrupt may release and try to acquire, and count   *)
(* down; the barrier is for fibers only (barrier.hpp:21).                    *)
(***************************************************************************)
EXTENDS FiberTurns, FiniteSets

CONSTANTS
    CountMax,       \* counting_semaphore::max(), 255 or 65535
    Expected,       \* what latch and barrier are made with
    Phases          \* values of barrier::sequence, 65536

ASSUME CountersAssumption ==
    /\ CountMax \in Nat \ {0} /\ Phases \in Nat \ {0, 1}
    /\ Expected \in 1..N

VARIABLES
    permits, owed,              \* semaphore; released and not acquired
    latch, arrivals,            \* latch; how often it was counted down
    expected, barrier_count, barrier_sequence, \* barrier
    token,                      \* arrival_token of each fiber
    members,                    \* fibers that did not drop out
    missing,                    \* members that have yet to arrive in this phase
    awaits                      \* whose arrival the fiber's phase still needed

semVars     == <<permits, owed>>
latchVars   == <<latch, arrivals>>
barrierVars == <<expected, barrier_count, barrier_sequence, token, members, missing, awaits>>
countVars   == <<semVars, latchVars, barrierVars>>

CountInit ==
    /\ permits \in 0..1 /\ owed = permits
    /\ latch = Expected /\ arrivals = 0
    /\ expected = Expected /\ barrier_count = Expected /\ barrier_sequence = 0
    /\ token = [f \in Fibers |-> 0]
    /\ members = 1..Expected /\ missing = members
    /\ awaits = [f \in Fibers |-> {}]

-----------------------------------------------------------------------------
(* counting_semaphore *)

IsSemaphore == object = "counting_semaphore"

(* Mutant: the count is not compared with zero *)
try_acquire_BelowZero == permits' = (permits + CountMax) % (CountMax + 1) /\ owed' = owed - 1
try_acquire == permits > 0 /\ permits' = permits - 1 /\ owed' = owed - 1

Acquire ==
    /\ IsSemaphore /\ At({"run", "acquire"})
    /\ try_acquire
    /\ Goto("run")
    /\ UNCHANGED <<latchVars, barrierVars>>
AcquireWaits ==
    /\ IsSemaphore /\ At({"run", "acquire"})
    /\ permits = 0
    /\ WaitIn("acquire")
    /\ UNCHANGED countVars
AcquireTimesOut ==
    /\ At({"acquire"}) /\ permits = 0
    /\ Goto("run")
    /\ UNCHANGED countVars

(* fetch_add wraps.  Bound: no more than one permit too many is released.  *)
release ==
    /\ owed <= CountMax
    /\ permits' = (permits + 1) % (CountMax + 1) /\ owed' = owed + 1
Release ==
    /\ IsSemaphore /\ At({"run"})
    /\ release
    /\ UNCHANGED <<turnVars, latchVars, barrierVars>>

IrqSemaphore ==
    /\ IsSemaphore
    /\ release \/ try_acquire
    /\ UNCHANGED <<turnVars, latchVars, barrierVars>>

-----------------------------------------------------------------------------
(* latch *)

IsLatch == object = "latch"

(* Bound: an open latch is counted down by two more *)
count_down(n) ==
    /\ arrivals + n <= Expected + 2
    /\ latch' = IF latch >= n THEN latch - n ELSE 0
    /\ arrivals' = arrivals + n

(* By a fiber or by an interrupt *)
CountDown ==
    /\ IsLatch
    /\ \E n \in 1..2 : count_down(n)
    /\ UNCHANGED <<turnVars, semVars, barrierVars>>

(* Passing a wait is marked, to be seen by the properties *)
WaitLatch ==
    /\ IsLatch /\ At({"run", "latch"})
    /\ latch = 0
    /\ Goto("passed")
    /\ UNCHANGED countVars
LatchWaits ==
    /\ IsLatch /\ At({"run", "latch"})
    /\ latch # 0
    /\ WaitIn("latch")
    /\ UNCHANGED countVars

-----------------------------------------------------------------------------
(* barrier.  A fiber arrives once in a phase; then it waits, or does other   *)
(* things first, or never asks for the end of the phase.                    *)

IsBarrier == object = "barrier"

(* Who has dropped out does not wait *)
Arrived(rest) == IF turn \in rest THEN "arrived" ELSE "dropped"

(* arrive(1); the next phase is of so many, of those members *)
arrive(of, rest) ==
    LET now == missing \ {turn}
    IN /\ token' = [token EXCEPT ![turn] = barrier_sequence]
       /\ IF 1 < barrier_count
          THEN barrier_count' = barrier_count - 1 /\ UNCHANGED barrier_sequence
          ELSE barrier_count' = of /\ barrier_sequence' = (barrier_sequence + 1) % Phases
       /\ Goto(IF 1 < barrier_count THEN Arrived(rest) ELSE "complete")
       /\ missing' = IF now = {} THEN rest ELSE now
       /\ awaits' = [f \in Fibers |-> IF f = turn THEN now ELSE awaits[f] \ {turn}]

Arrive ==
    /\ IsBarrier /\ At({"run", "arrived"}) /\ turn \in missing
    /\ arrive(expected, members)
    /\ UNCHANGED <<expected, members, semVars, latchVars>>

(* Mutant: the phases to come still count the fiber *)
Drop_StillExpected ==
    /\ IsBarrier /\ At({"run", "arrived"}) /\ turn \in missing
    /\ members' = members \ {turn}
    /\ arrive(expected, members')
    /\ UNCHANGED <<expected, semVars, latchVars>>
(* arrive_and_drop: the fiber takes no part in the phases to come *)
Drop ==
    /\ IsBarrier /\ At({"run", "arrived"}) /\ turn \in missing
    /\ expected' = IF expected > 0 THEN expected - 1 ELSE 0
    /\ members' = members \ {turn}
    /\ arrive(expected', members')
    /\ UNCHANGED <<semVars, latchVars>>

(* The completion function of the last one to arrive; it may yield *)
Completed ==
    /\ At({"complete"})
    /\ Goto(Arrived(members))
    /\ UNCHANGED countVars

WaitBarrier ==
    /\ At({"arrived", "wait"}) /\ token[turn] # barrier_sequence
    /\ Goto("run")
    /\ UNCHANGED countVars
BarrierWaits ==
    /\ At({"arrived", "wait"}) /\ token[turn] = barrier_sequence
    /\ WaitIn("wait")
    /\ UNCHANGED countVars

CountLoops ==
    \/ Acquire \/ AcquireWaits
    \/ WaitLatch \/ LatchWaits
    \/ WaitBarrier \/ BarrierWaits

CountNext ==
    \/ CountLoops \/ AcquireTimesOut \/ Release \/ IrqSemaphore
    \/ CountDown
    \/ Arrive \/ Drop \/ Completed

-----------------------------------------------------------------------------
(* No permit is taken that was not released, and none is lost but by a       *)
(* release beyond the maximum, which loses all of them.                      *)
PermitsKept == owed >= 0 /\ permits = owed % (CountMax + 1)

(* A latch is open once it was counted down often enough, and stays open;   *)
(* nobody has passed it before.                                             *)
LatchOpens ==
    /\ (latch = 0) <=> (arrivals >= Expected)
    /\ \A f \in Fibers : at[f] = "passed" => arrivals >= Expected

(* A fiber that has arrived may go on exactly when every member has arrived *)
(* in its phase or dropped out, however late it looks: the sequence that it  *)
(* compares with wraps, but cannot have gone round.                          *)
PhasesTogether ==
    \A f \in Fibers :
        at[f] \in {"arrived", "wait"} =>
            /\ (token[f] # barrier_sequence) <=> (awaits[f] = {})
=============================================================================
