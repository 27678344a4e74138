--------------------------- MODULE FiberScheduler ---------------------------
(***************************************************************************)
(* fiber::Scheduler, a circular list of tasks with a pointer to the last     *)
(* one, and the operations of fiber::Task on it.  What runs between two      *)
(* calls of the scheduler is the business of the fibers: here a fiber may    *)
(* start any task, join any task, yield, or return from its function; main   *)
(* starts tasks (as the constructors of the static fibers do) and then runs  *)
(* the scheduler, which returns when no fiber is left.                       *)
(***************************************************************************)
EXTENDS Naturals, FiniteSets

CONSTANTS Fibers, NULL

ASSUME FibersAssumption == NULL \notin Fibers

VARIABLES
    next,       \* Task::next
    running,    \* the tasks whose Task::scheduler is set
    last, current,
    context,    \* where a jump to the task goes on
    joins       \* the task whose end the task waits for

schedVars == <<next, running, last, current, context, joins>>

Task == Fibers \cup {NULL}

Init ==
    /\ next = [f \in Fibers |-> NULL]
    /\ running = {}
    /\ last = NULL /\ current = NULL
    /\ context = [f \in Fibers |-> "unprepared"]
    /\ joins = [f \in Fibers |-> NULL]

isRunning(f) == f \in running

(* The current fiber is in the loop of Task::join *)
Joining == current # NULL /\ joins[current] # NULL

-----------------------------------------------------------------------------
(* Scheduler::add *)

runLast_NotLast(f) ==
    next' = [next EXCEPT ![f] = next[last], ![last] = f] /\ UNCHANGED last
runLast_RunsNext(f) ==
    LET before == IF current = NULL THEN last ELSE current
    IN /\ next' = [next EXCEPT ![f] = next[before], ![before] = f]
       /\ last' = IF before = last THEN f ELSE last
runLast(f) ==
    next' = [next EXCEPT ![f] = next[last], ![last] = f] /\ last' = f

add_LastTask(f) ==
    /\ running' = running \cup {last}
    /\ IF last = NULL
       THEN next' = [next EXCEPT ![f] = f] /\ last' = f
       ELSE runLast(f)
add(f) ==
    /\ running' = running \cup {f}
    /\ IF last = NULL
       THEN next' = [next EXCEPT ![f] = f] /\ last' = f
       ELSE runLast(f)

(* Task::start, called by main or by the current fiber; it returns false    *)
(* for a task that is running already.                                      *)
start(f) ==
    /\ ~Joining /\ ~isRunning(f)
    /\ context' = [context EXCEPT ![f] = "entry"]
    /\ add(f)
    /\ UNCHANGED <<current, joins>>

-----------------------------------------------------------------------------
(* main: Scheduler::run() with a fiber to run *)
run ==
    /\ current = NULL /\ last # NULL
    /\ current' = next[last]
    /\ context' = [context EXCEPT ![next[last]] = "runs"]
    /\ UNCHANGED <<next, running, last, joins>>

(* The context of the current fiber is saved, the other one's is restored *)
jump(other, saved) ==
    /\ current' = other
    /\ context' = [[context EXCEPT ![current] = saved] EXCEPT ![other] = "runs"]

yield_LastKept == jump(next[current], "yield") /\ UNCHANGED <<next, running, last>>
yield ==
    /\ last' = current
    /\ jump(next[current], "yield")
    /\ UNCHANGED <<next, running>>

(* this_fiber::yield(), outside of a join *)
Yield ==
    /\ current # NULL /\ joins[current] = NULL
    /\ yield
    /\ UNCHANGED joins

removeCurrent_LastKept ==
    /\ last' = IF current = last THEN NULL ELSE last
    /\ next' = [next EXCEPT ![current] = NULL]
    /\ running' = running \ {current}
removeCurrent ==
    /\ last' = IF current = last THEN NULL ELSE last
    /\ next' = IF current = last THEN [next EXCEPT ![current] = NULL]
               ELSE [next EXCEPT ![last] = next[current], ![current] = NULL]
    /\ running' = running \ {current}

(* The fiber's function returns: unschedule() *)
Return ==
    /\ current # NULL /\ joins[current] = NULL
    /\ removeCurrent
    /\ IF last' = NULL
       THEN current' = NULL /\ context' = [context EXCEPT ![current] = "ended"]
       ELSE jump(next[current], "ended")
    /\ UNCHANGED joins

-----------------------------------------------------------------------------
(* Task::join *)

joinable(f) == isRunning(f) /\ f # current

Join(f) ==
    /\ current # NULL /\ joins[current] = NULL
    /\ joinable(f)
    /\ joins' = [joins EXCEPT ![current] = f]
    /\ UNCHANGED <<next, running, last, current, context>>

JoinYields_Always == Joining /\ yield /\ UNCHANGED joins
JoinYields ==
    /\ Joining /\ isRunning(joins[current])
    /\ yield
    /\ UNCHANGED joins

JoinReturns ==
    /\ Joining /\ ~isRunning(joins[current])
    /\ joins' = [joins EXCEPT ![current] = NULL]
    /\ UNCHANGED <<next, running, last, current, context>>

-----------------------------------------------------------------------------
Switch == Yield \/ JoinYields \/ Return

Next ==
    \/ \E f \in Fibers : start(f) \/ Join(f)
    \/ run \/ Switch \/ JoinReturns

(* Fibers are cooperative: each one yields or returns in the end *)
Spec == Init /\ [][Next]_schedVars /\ WF_schedVars(Switch) /\ WF_schedVars(JoinReturns)

-----------------------------------------------------------------------------
(* Properties *)

TypeOK ==
    /\ next \in [Fibers -> Task]
    /\ running \subseteq Fibers
    /\ last \in Task /\ current \in Task
    /\ context \in [Fibers -> {"unprepared", "entry", "runs", "yield", "ended"}]
    /\ joins \in [Fibers -> Task]

(* No part of the running tasks is a ring of its own *)
OneRing ==
    \A S \in SUBSET running :
        (S # {} /\ \A f \in S : next[f] \in S) => S = running

(* The list is one ring of all the running tasks and of no other, the next   *)
(* one after the last is the current one, and there is no last one exactly   *)
(* when no task is running: the test of empty() is right.                    *)
ListClosed ==
    /\ OneRing
    /\ (last = NULL) <=> (running = {})
    /\ last # NULL => last \in running
    /\ current # NULL => current \in running /\ next[last] = current
    /\ \A f \in running : next[f] \in running
    /\ \A f, g \in running : next[f] = next[g] => f = g
    /\ \A f \in Fibers \ running : next[f] = NULL

(* A jump never lands in a task that is not running: every task in the list *)
(* is one that was prepared for its start or one that waits in yield().      *)
(* unschedule() is declared not to return (scheduler.hpp:109, :121).         *)
JumpsLandAlive ==
    \A f \in Fibers :
        /\ f \in running => context[f] \in (IF f = current THEN {"runs"} ELSE {"entry", "yield"})
        /\ f \notin running => context[f] \in {"unprepared", "ended"}

(* Every running fiber gets its turn again, even when others join it or     *)
(* each other, start more fibers or return.                                  *)
NoStarvation ==
    \A f \in Fibers : (current # NULL /\ f \in running) ~> (current = f)

(* Who joins a task goes on once that task has returned for good (if it is *)
(* started again before the waiting fiber has its turn, the wait goes on).   *)
JoinEnds ==
    \A f, g \in Fibers :
        <>[](g \notin running) => ((joins[f] = g) ~> (joins[f] # g))

(* The circular list is the queue of RoundRobin: from the current task (or, *)
(* in main, from the first to run) along next.                               *)
First == IF current = NULL THEN next[last] ELSE current
Walk[i \in 1 .. Cardinality(running)] == IF i = 1 THEN First ELSE next[Walk[i - 1]]
Queue == INSTANCE RoundRobin WITH queue <- Walk, active <- (current # NULL)
ImplementsRoundRobin == Queue!Spec
=============================================================================
