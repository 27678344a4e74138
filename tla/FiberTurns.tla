----------------------------- MODULE FiberTurns -----------------------------
(***************************************************************************)
(* The ground that the synchronisation objects of processing/fiber stand on: *)
(* fibers that take turns in a fixed order, as the queue of RoundRobin does  *)
(* when nobody starts or ends, and interrupts that come between any two      *)
(* statements.  All objects have a fiber wait in one way, by a loop of a try  *)
(* and a yield.  One behaviour uses one object.                              *)
(***************************************************************************)
EXTENDS Integers

CONSTANT N      \* number of fibers

ASSUME FibersAssumption == N \in Nat \ {0}

VARIABLES
    object,     \* the class that this behaviour uses
    turn,       \* the fiber that runs
    at          \* where each fiber is: in a loop of the library, or "run"

turnVars == <<object, turn, at>>

Fibers == 1..N
Irq    == 0     \* get_id() in an interrupt: its number, no fiber's
Users  == Fibers \cup {Irq}

yield     == turn' = IF turn = N THEN 1 ELSE turn + 1
At(where) == at[turn] \in where
Goto(there) == at' = [at EXCEPT ![turn] = there] /\ UNCHANGED <<object, turn>>

(* A try failed inside of a loop: the fiber waits there for its next turn *)
WaitIn(loop) == at' = [at EXCEPT ![turn] = loop] /\ yield /\ UNCHANGED object

(* A fiber gives up its turn where no loop of the library holds it *)
Pauses == At({"run", "notify", "passed", "arrived", "complete", "dropped"}) /\ yield /\ UNCHANGED <<object, at>>
=============================================================================
