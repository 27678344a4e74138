----------------------------- MODULE FiberSync -----------------------------
(***************************************************************************)
(* The synchronisation objects, one of them per behaviour: locks with the    *)
(* condition variable, and counters.                                        *)
(***************************************************************************)
EXTENDS FiberLocks, FiberCounters

vars == <<turnVars, lockVars, condVars, countVars>>

LockObjects  == {"mutex", "recursive_mutex", "shared_mutex", "condition_variable"}
CountObjects == {"counting_semaphore", "latch", "barrier"}

Init ==
    /\ object \in LockObjects \cup CountObjects
    /\ turn = 1 /\ at = [f \in Fibers |-> "run"]
    /\ LockInit /\ CountInit

Next ==
    \/ object \in LockObjects /\ LockNext /\ UNCHANGED countVars
    \/ object \in CountObjects /\ CountNext /\ UNCHANGED <<lockVars, condVars>>
    \/ Pauses /\ UNCHANGED <<lockVars, condVars, countVars>>

(* What a fiber has begun it goes on with when its turn comes, and it ends   *)
(* its turn.  Nothing is assumed of interrupts, and of nobody that he locks, *)
(* releases or arrives.                                                     *)
GoesOn ==
    \/ object \in LockObjects /\ LockLoops /\ UNCHANGED countVars
    \/ object \in CountObjects /\ CountLoops /\ UNCHANGED <<lockVars, condVars>>
    \/ Pauses /\ UNCHANGED <<lockVars, condVars, countVars>>
Ends(f) ==
    /\ turn = f
    /\ \/ Notify /\ UNCHANGED countVars
       \/ Completed /\ UNCHANGED <<lockVars, condVars>>

Spec ==
    /\ Init /\ [][Next]_vars
    /\ WF_vars(GoesOn)
    /\ \A f \in Fibers : SF_vars(Ends(f))

-----------------------------------------------------------------------------
(* What the fiber waits for has happened *)
Due(f) ==
    \/ at[f] = "latch" /\ latch = 0
    \/ at[f] = "wait" /\ awaits[f] = {}
    \/ Polling(f) /\ ready /\ f \notin missed

Counts == PermitsKept /\ LatchOpens /\ PhasesTogether

(* A fiber that waits for something that has happened goes on, whatever the  *)
(* others and the interrupts do meanwhile.                                  *)
NoneForgotten == \A f \in Fibers : Due(f) ~> at[f] \notin {"latch", "wait", "poll", "polls"}
=============================================================================
