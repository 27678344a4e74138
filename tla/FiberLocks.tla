----------------------------- MODULE FiberLocks -----------------------------
(***************************************************************************)
(* mutex, recursive_mutex and shared_mutex with their timed variants, and    *)
(* condition_variable_any on top of a mutex (processing/fiber).  Fibers and   *)
(* an interrupt use them as their interface allows: whoever unlocks has       *)
(* locked, and only a recursive mutex is locked again by who has it.         *)
(***************************************************************************)
EXTENDS FiberTurns

CONSTANTS
    countMax,   \* recursive_mutex::countMax
    Lap         \* values of the sequence of a condition variable

ASSUME LocksAssumption == countMax \in Nat \ {0} /\ Lap \in Nat \ {0, 1}

NoOwner     == -1
SharedOwner == -2

VARIABLES
    locked,         \* mutex
    owner, count,   \* recursive_mutex; shared_mutex has an owner, too
    depth,          \* how often each user has the lock for itself
    readers,        \* the users that have the lock shared
    voided,         \* a reader unlocked while others were in
    ready,          \* the condition that users of the variable wait for
    sequence,       \* condition_variable_any
    seen,           \* poll_sequence of each fiber that waits
    missed          \* fibers that an interrupt notified too early

lockVars == <<locked, owner, count, depth, readers, voided>>
condVars == <<ready, sequence, seen, missed>>

LockInit ==
    /\ locked = FALSE
    /\ owner = NoOwner /\ count = 1
    /\ depth = [u \in Users |-> 0] /\ readers = {} /\ voided = FALSE
    /\ ready = FALSE
    /\ sequence = 0 /\ seen = [f \in Fibers |-> 0] /\ missed = {}

Plain     == object \in {"mutex", "condition_variable"}
Recursive == object = "recursive_mutex"
Shared    == object = "shared_mutex"

Holds(u) == depth[u] > 0
Inside   == {u \in Users : Holds(u)} \cup readers

-----------------------------------------------------------------------------
(* The three try_lock, when they succeed; their tests and writes are one     *)
(* step for interrupts (an exchange, a lock-out, a compare-exchange).        *)

mutex_try_lock == ~locked /\ locked' = TRUE /\ UNCHANGED <<owner, count>>

(* Mutant: whoever asks is taken for the owner *)
recursive_try_lock_AnyOwner(u) ==
    \/ owner = NoOwner /\ owner' = u /\ UNCHANGED <<locked, count>>
    \/ owner # NoOwner /\ count < countMax /\ count' = count + 1 /\ UNCHANGED <<locked, owner>>
recursive_try_lock(u) ==
    \/ owner = NoOwner /\ owner' = u /\ UNCHANGED <<locked, count>>
    \/ owner = u /\ count < countMax /\ count' = count + 1 /\ UNCHANGED <<locked, owner>>

shared_try_lock(u) == owner = NoOwner /\ owner' = u /\ UNCHANGED <<locked, count>>

try_lock(u) ==
    /\ \/ Plain /\ mutex_try_lock
       \/ Recursive /\ recursive_try_lock(u)
       \/ Shared /\ shared_try_lock(u)
    /\ depth' = [depth EXCEPT ![u] = depth[u] + 1]
    /\ UNCHANGED <<readers, voided, condVars>>

Refused(u) ==
    \/ Plain /\ locked
    \/ Recursive /\ owner # NoOwner /\ ~(owner = u /\ count < countMax)
    \/ Shared /\ owner # NoOwner

try_lock_shared(u) ==
    /\ Shared /\ owner \in {NoOwner, SharedOwner}
    /\ owner' = SharedOwner
    /\ readers' = readers \cup {u}
    /\ UNCHANGED <<locked, count, depth, voided, condVars>>

-----------------------------------------------------------------------------
unlock(u) ==
    /\ Holds(u)
    /\ IF Plain THEN locked' = FALSE /\ UNCHANGED <<owner, count>>
       ELSE /\ IF Recursive /\ count > 1
               THEN count' = count - 1 /\ UNCHANGED owner
               ELSE owner' = NoOwner /\ UNCHANGED count
            /\ UNCHANGED locked
    /\ depth' = [depth EXCEPT ![u] = depth[u] - 1]
    /\ voided' = (voided /\ Inside # {u})
    /\ UNCHANGED readers

(* No count of the readers: the first that leaves opens the lock to writers *)
unlock_shared(u) ==
    /\ u \in readers
    /\ owner' = NoOwner
    /\ readers' = readers \ {u}
    /\ voided' = (Inside # {u})
    /\ UNCHANGED <<locked, count, depth>>

-----------------------------------------------------------------------------
(* Fibers *)

MayLock(u) == ~Recursive => depth[u] = 0 /\ u \notin readers

(* lock(), try_lock() and the relock at the end of a wait *)
Lock ==
    /\ At({"run", "lock"}) /\ MayLock(turn)
    /\ try_lock(turn)
    /\ Goto("run")
LockWaits ==
    /\ At({"run", "lock"}) /\ MayLock(turn)
    /\ Refused(turn)
    /\ WaitIn("lock")
    /\ UNCHANGED <<lockVars, condVars>>

LockShared ==
    /\ At({"run", "lock_shared"}) /\ MayLock(turn)
    /\ try_lock_shared(turn)
    /\ Goto("run")
LockSharedWaits ==
    /\ At({"run", "lock_shared"}) /\ MayLock(turn)
    /\ Shared /\ owner \notin {NoOwner, SharedOwner}
    /\ WaitIn("lock_shared")
    /\ UNCHANGED <<lockVars, condVars>>

(* try_lock_for and its like: poll_for gives up after a try that failed *)
GivesUp ==
    /\ \/ At({"lock"}) /\ ~(object = "condition_variable") /\ Refused(turn)
       \/ At({"lock_shared"}) /\ owner \notin {NoOwner, SharedOwner}
    /\ Goto("run")
    /\ UNCHANGED <<lockVars, condVars>>

Unlock ==
    /\ At({"run"})
    /\ unlock(turn) \/ unlock_shared(turn)
    /\ UNCHANGED <<turnVars, condVars>>

-----------------------------------------------------------------------------
(* condition_variable_any: wait(lock) in three statements *)

Waits == object = "condition_variable"

(* Mutant: the unlock lets the other fibers run before the sequence is read *)
WaitUnlock_Yields ==
    /\ Waits /\ At({"run"}) /\ ~ready
    /\ unlock(turn)
    /\ WaitIn("snapshot")
    /\ UNCHANGED condVars
WaitUnlock ==
    /\ Waits /\ At({"run"}) /\ ~ready
    /\ unlock(turn)
    /\ Goto("snapshot")
    /\ UNCHANGED condVars

WaitSnapshot ==
    /\ At({"snapshot"})
    /\ seen' = [seen EXCEPT ![turn] = sequence]
    /\ Goto("poll")
    /\ UNCHANGED <<lockVars, ready, sequence, missed>>

(* poll_for looks once before it yields, and gives up only after a yield *)
Polling(f) == at[f] \in {"poll", "polls"}
PollWaits ==
    /\ Polling(turn) /\ seen[turn] = sequence
    /\ WaitIn("polls")
    /\ UNCHANGED <<lockVars, condVars>>
PollWoken ==
    /\ Polling(turn) /\ seen[turn] # sequence
    /\ Goto("lock")
    /\ missed' = missed \ {turn}
    /\ UNCHANGED <<lockVars, ready, sequence, seen>>
PollTimesOut ==
    /\ At({"polls"}) /\ seen[turn] = sequence
    /\ Goto("lock")
    /\ missed' = missed \ {turn}
    /\ UNCHANGED <<lockVars, ready, sequence, seen>>

(* What a user does with the lock: make the condition true, or use it up *)
Produce ==
    /\ Waits /\ At({"run"}) /\ ~ready
    /\ unlock(turn)
    /\ ready' = TRUE
    /\ Goto("notify")
    /\ UNCHANGED <<sequence, seen, missed>>
Consume ==
    /\ Waits /\ At({"run"}) /\ Holds(turn) /\ ready
    /\ ready' = FALSE
    /\ UNCHANGED <<turnVars, lockVars, sequence, seen, missed>>

(* Bound: between two polls of a waiter the sequence does not go all the way *)
(* round (in the program, 65536 notifications).                             *)
NoLap == \A f \in Fibers : Polling(f) => seen[f] # (sequence + 1) % Lap

notify_one == NoLap /\ sequence' = (sequence + 1) % Lap
Notify ==
    /\ At({"notify"})
    /\ notify_one
    /\ Goto("run")
    /\ UNCHANGED <<lockVars, ready, seen, missed>>

-----------------------------------------------------------------------------
(* An interrupt may try, unlock, and notify *)

IrqLock ==
    /\ ~Waits /\ MayLock(Irq)
    /\ try_lock(Irq) \/ try_lock_shared(Irq)
    /\ UNCHANGED turnVars
IrqUnlock ==
    /\ unlock(Irq) \/ unlock_shared(Irq)
    /\ UNCHANGED <<turnVars, condVars>>

(* It has the mutex while it makes the condition true.  Who has unlocked and *)
(* not yet read the sequence does not hear of it.                           *)
IrqNotify ==
    /\ Waits /\ ~locked /\ ~ready
    /\ ready' = TRUE
    /\ notify_one
    /\ missed' = missed \cup {f \in Fibers : at[f] = "snapshot"}
    /\ UNCHANGED <<turnVars, lockVars, seen>>

LockLoops ==
    \/ At({"lock"}) /\ Lock
    \/ At({"lock_shared"}) /\ LockShared
    \/ LockWaits \/ LockSharedWaits \/ WaitSnapshot \/ PollWaits \/ PollWoken

LockNext ==
    \/ Lock \/ LockShared \/ Unlock
    \/ LockLoops \/ GivesUp \/ PollTimesOut
    \/ WaitUnlock \/ Produce \/ Consume \/ Notify
    \/ IrqLock \/ IrqUnlock \/ IrqNotify

-----------------------------------------------------------------------------
(* Nobody is in while another has the lock for itself, fiber or interrupt.  *)
(* A shared_mutex keeps this only until a reader leaves before another one:  *)
(* its readers share one owner value, so the lock is then free although      *)
(* somebody reads; it is sound again as soon as all have left.               *)
Exclusion ==
    ~voided => /\ \A u, v \in Users : Holds(u) /\ Holds(v) => u = v
               /\ readers # {} => \A u \in Users : ~Holds(u)

(* Whoever waits for a condition that has become true is about to be woken,  *)
(* unless it was an interrupt that came between the unlock and the reading   *)
(* of the sequence in wait() (condition_variable.hpp:68-69).                *)
WakeupNotLost ==
    \A f \in Fibers :
        Polling(f) /\ ready => \/ seen[f] # sequence
                               \/ f \in missed
                               \/ \E g \in Fibers : at[g] = "notify"
=============================================================================
