-------------------------- MODULE FiberSync_proofs --------------------------
(* Theorems about the synchronisation objects, for any number of fibers and  *)
(* any width of their counters                                              *)
EXTENDS FiberSync, FiniteSetTheorems, TLAPS

Place == {"run", "lock", "lock_shared", "snapshot", "poll", "polls", "notify", "acquire",
          "latch", "passed", "complete", "arrived", "dropped", "wait"}

TurnsOK ==
    /\ object \in LockObjects \cup CountObjects
    /\ turn \in Fibers
    /\ at \in [Fibers -> Place]

(* Whoever runs is an index of the functions *)
LEMMA TurnIsFiber == TurnsOK => N \in Nat \ {0} /\ turn \in Fibers /\ turn \in Users /\ Irq \in Users
BY FibersAssumption DEF TurnsOK, Users, Fibers, Irq

(* A yield gives the turn to a fiber *)
LEMMA YieldsToFiber == TurnsOK /\ yield => turn' \in Fibers
BY FibersAssumption DEF TurnsOK, yield, Fibers

-----------------------------------------------------------------------------
(* The locks *)

LockTypeOK ==
    /\ locked \in BOOLEAN /\ voided \in BOOLEAN
    /\ owner \in Users \cup {NoOwner, SharedOwner}
    /\ count \in Nat \ {0}
    /\ depth \in [Users -> Nat]
    /\ readers \in SUBSET Users

(* What the lock's own variables say of who is inside *)
PlainKept ==
    /\ ~voided /\ readers = {}
    /\ \A u \in Users : depth[u] \in {0, 1} /\ (depth[u] = 1 => locked)
    /\ \A u, v \in Users : depth[u] = 1 /\ depth[v] = 1 => u = v
RecursiveKept ==
    /\ ~voided /\ readers = {}
    /\ owner # SharedOwner
    /\ owner = NoOwner => count = 1
    /\ \A u \in Users : depth[u] = IF owner = u THEN count ELSE 0
SharedKept ==
    /\ \A u \in Users : depth[u] \in {0, 1} /\ (depth[u] = 1 => u \notin readers)
    /\ ~voided => /\ owner = SharedOwner <=> readers # {}
                  /\ \A u \in Users : depth[u] = 1 <=> owner = u
Unused == ~voided /\ readers = {} /\ \A u \in Users : depth[u] = 0

LocksKept ==
    /\ LockTypeOK
    /\ Plain => PlainKept
    /\ Recursive => RecursiveKept
    /\ Shared => SharedKept
    /\ object \in CountObjects => Unused

(* Everybody is a fiber or the interrupt, and none of them is an owner mark *)
LEMMA Marks ==
    /\ NoOwner \notin Users /\ SharedOwner \notin Users /\ NoOwner # SharedOwner
    /\ Users \subseteq Int
BY FibersAssumption DEF NoOwner, SharedOwner, Users, Fibers, Irq

(* An object is of one class *)
LEMMA OneClass ==
    /\ Plain => ~Recursive /\ ~Shared /\ object \notin CountObjects
    /\ Recursive => ~Plain /\ ~Shared /\ object \notin CountObjects
    /\ Shared => ~Plain /\ ~Recursive /\ object \notin CountObjects
    /\ object \in CountObjects => ~Plain /\ ~Recursive /\ ~Shared
BY DEF Plain, Recursive, Shared, CountObjects

(* A try_lock that succeeds *)
LEMMA TryLockStep ==
    ASSUME TurnsOK, LocksKept, NEW u \in Users, MayLock(u), try_lock(u), object' = object
    PROVE  LocksKept'
<1> USE DEF LocksKept, MayLock
<1>1. /\ depth' = [depth EXCEPT ![u] = depth[u] + 1]
      /\ UNCHANGED <<readers, voided>>
  BY DEF try_lock
<1>2. depth'[u] = depth[u] + 1 /\ \A v \in Users : v # u => depth'[v] = depth[v]
  BY <1>1 DEF LockTypeOK
<1>3. CASE Plain
  <2>1. ~locked /\ locked' = TRUE /\ UNCHANGED <<owner, count>>
    BY <1>3, OneClass DEF try_lock, mutex_try_lock
  <2>2. LockTypeOK'
    BY <1>1, <2>1 DEF LockTypeOK
  <2>3. \A v \in Users : depth[v] = 0
    BY <1>3, <2>1 DEF PlainKept
  <2>4. PlainKept'
    BY <1>1, <1>2, <1>3, <2>1, <2>3 DEF PlainKept
  <2> QED BY <1>3, <2>2, <2>4, OneClass DEF Plain, Recursive, Shared
<1>4. CASE Recursive
  <2>1. recursive_try_lock(u)
    BY <1>4, OneClass DEF try_lock
  <2>2. LockTypeOK'
    BY <1>1, <2>1 DEF LockTypeOK, recursive_try_lock
  <2>3. RecursiveKept'
    BY <1>1, <1>2, <1>4, <2>1, Marks DEF RecursiveKept, recursive_try_lock, LockTypeOK
  <2> QED BY <1>4, <2>2, <2>3, OneClass DEF Plain, Recursive, Shared
<1>5. CASE Shared
  <2>1. owner = NoOwner /\ owner' = u /\ UNCHANGED <<locked, count>>
    BY <1>5, OneClass DEF try_lock, shared_try_lock
  <2>2. LockTypeOK'
    BY <1>1, <2>1 DEF LockTypeOK
  <2>3. depth[u] = 0 /\ u \notin readers
    BY <1>5, OneClass
  <2>4. SharedKept'
    BY <1>1, <1>2, <1>5, <2>1, <2>3, Marks DEF SharedKept
  <2> QED BY <1>5, <2>2, <2>4, OneClass DEF Plain, Recursive, Shared
<1> QED BY <1>3, <1>4, <1>5 DEF try_lock

(* A try_lock_shared that succeeds *)
LEMMA TryLockSharedStep ==
    ASSUME TurnsOK, LocksKept, NEW u \in Users, MayLock(u), try_lock_shared(u), object' = object
    PROVE  LocksKept'
<1>1. Shared /\ depth[u] = 0
  BY OneClass DEF try_lock_shared, MayLock
<1>2. LockTypeOK'
  BY DEF try_lock_shared, LocksKept, LockTypeOK
<1>3. SharedKept'
  BY <1>1, Marks DEF try_lock_shared, LocksKept, SharedKept
<1> QED BY <1>1, <1>2, <1>3, OneClass DEF LocksKept, Plain, Recursive, Shared

(* Whoever is alone inside *)
LEMMA Alone ==
    ASSUME LockTypeOK, NEW u \in Users, Inside = {u}
    PROVE  /\ readers \subseteq {u}
           /\ \A v \in Users : v # u => depth[v] = 0
BY DEF Inside, Holds, LockTypeOK

(* unlock by whoever has the lock *)
LEMMA UnlockStep ==
    ASSUME TurnsOK, LocksKept, NEW u \in Users, unlock(u), object' = object
    PROVE  LocksKept'
<1>1. depth[u] > 0 /\ UNCHANGED readers /\ depth' = [depth EXCEPT ![u] = depth[u] - 1]
  BY DEF unlock, Holds
<1>2. depth'[u] = depth[u] - 1 /\ \A v \in Users : v # u => depth'[v] = depth[v]
  BY <1>1 DEF LocksKept, LockTypeOK
<1>3. voided' \in BOOLEAN /\ (~voided => ~voided') /\ (voided' <=> voided /\ Inside # {u})
  BY DEF unlock, LocksKept, LockTypeOK
<1>4. LockTypeOK'
  <2>1. locked' \in BOOLEAN /\ owner' \in Users \cup {NoOwner, SharedOwner}
    BY DEF unlock, LocksKept, LockTypeOK
  <2>2. count' \in Nat \ {0}
    BY DEF unlock, LocksKept, LockTypeOK
  <2>3. depth[u] - 1 \in Nat /\ depth \in [Users -> Nat]
    BY <1>1 DEF LocksKept, LockTypeOK
  <2>4. depth' \in [Users -> Nat]
    BY <1>1, <2>3
  <2> QED BY <1>1, <1>3, <2>1, <2>2, <2>4 DEF LocksKept, LockTypeOK
<1>5. CASE Plain
  <2>1. PlainKept'
    BY <1>1, <1>2, <1>3, <1>5 DEF LocksKept, PlainKept
  <2> QED BY <1>4, <1>5, <2>1, OneClass DEF LocksKept, Plain, Recursive, Shared
<1>6. CASE Recursive
  <2>1. owner = u /\ depth[u] = count
    BY <1>1, <1>6 DEF LocksKept, RecursiveKept
  <2>2. RecursiveKept'
    BY <1>1, <1>2, <1>3, <1>6, <2>1, Marks, OneClass DEF LocksKept, LockTypeOK, RecursiveKept, unlock
  <2> QED BY <1>4, <1>6, <2>2, OneClass DEF LocksKept, Plain, Recursive, Shared
<1>7. CASE Shared
  <2>1. owner' = NoOwner
    BY <1>7, OneClass DEF unlock
  <2>2. depth[u] = 1 /\ depth'[u] = 0 /\ u \notin readers
    BY <1>1, <1>2, <1>7 DEF LocksKept, SharedKept
  <2>3. ~voided' => readers = {} /\ \A v \in Users : v # u => depth[v] = 0
    <3>1. CASE voided
      BY <1>3, <2>2, <3>1, Alone DEF LocksKept
    <3>2. CASE ~voided
      BY <1>7, <2>2, <3>2, Marks DEF LocksKept, SharedKept
    <3> QED BY <3>1, <3>2
  <2>4. SharedKept'
    BY <1>1, <1>2, <1>7, <2>1, <2>2, <2>3, Marks DEF LocksKept, SharedKept
  <2> QED BY <1>4, <1>7, <2>4, OneClass DEF LocksKept, Plain, Recursive, Shared
<1>8. CASE object \in CountObjects
  BY <1>1, <1>8 DEF LocksKept, Unused
<1> QED BY <1>5, <1>6, <1>7, <1>8 DEF TurnsOK, LockObjects, Plain, Recursive, Shared

(* unlock_shared by a reader *)
LEMMA UnlockSharedStep ==
    ASSUME TurnsOK, LocksKept, NEW u \in Users, unlock_shared(u), object' = object
    PROVE  LocksKept'
<1>1. /\ u \in readers /\ owner' = NoOwner /\ readers' = readers \ {u}
      /\ UNCHANGED <<locked, count, depth>>
      /\ voided' = (Inside # {u})
  BY DEF unlock_shared
<1>2. LockTypeOK'
  BY <1>1 DEF LocksKept, LockTypeOK
<1>3. Shared
  BY <1>1 DEF LocksKept, PlainKept, RecursiveKept, Unused, TurnsOK, LockObjects, Plain, Recursive, Shared
<1>4. depth[u] = 0
  BY <1>1, <1>3 DEF LocksKept, SharedKept
<1>5. ~voided' => readers = {u} /\ \A v \in Users : depth[v] = 0
  BY <1>1, <1>4, Alone DEF LocksKept
<1>6. SharedKept'
  BY <1>1, <1>3, <1>5, Marks DEF LocksKept, SharedKept
<1> QED BY <1>2, <1>3, <1>6, OneClass DEF LocksKept, Plain, Recursive, Shared

(* Every step of the locks *)
LEMMA LocksStep ==
    ASSUME TurnsOK, LocksKept, [Next]_vars
    PROVE  LocksKept'
<1> USE TurnIsFiber
<1>1. CASE UNCHANGED <<object, lockVars>>
  BY <1>1 DEF lockVars, LocksKept, LockTypeOK, PlainKept, RecursiveKept, SharedKept, Unused, Plain, Recursive, Shared
<1>2. CASE Lock
  <2>1. try_lock(turn) /\ MayLock(turn) /\ object' = object
    BY <1>2 DEF Lock, Goto
  <2> QED BY <2>1, TryLockStep
<1>3. CASE LockShared
  <2>1. try_lock_shared(turn) /\ MayLock(turn) /\ object' = object
    BY <1>3 DEF LockShared, Goto
  <2> QED BY <2>1, TryLockSharedStep
<1>4. CASE Unlock \/ WaitUnlock \/ Produce
  <2>1. object' = object /\ (unlock(turn) \/ unlock_shared(turn))
    BY <1>4 DEF Unlock, WaitUnlock, Produce, Goto, turnVars
  <2> QED BY <2>1, UnlockStep, UnlockSharedStep
<1>5. CASE IrqLock
  <2>1. object' = object /\ MayLock(Irq) /\ (try_lock(Irq) \/ try_lock_shared(Irq))
    BY <1>5 DEF IrqLock, turnVars
  <2> QED BY <2>1, TryLockStep, TryLockSharedStep
<1>6. CASE IrqUnlock
  <2>1. object' = object /\ (unlock(Irq) \/ unlock_shared(Irq))
    BY <1>6 DEF IrqUnlock, turnVars
  <2> QED BY <2>1, UnlockStep, UnlockSharedStep
<1>7. CASE LockNext /\ ~(Lock \/ LockShared \/ Unlock \/ WaitUnlock \/ Produce \/ IrqLock \/ IrqUnlock)
  <2>1. UNCHANGED <<object, lockVars>>
    BY <1>7 DEF LockNext, LockLoops, LockWaits, LockSharedWaits, WaitSnapshot, PollWaits, PollWoken,
                GivesUp, PollTimesOut, Consume, Notify, IrqNotify, Goto, WaitIn, turnVars, lockVars
  <2> QED BY <1>1, <2>1
<1>8. CASE CountNext /\ UNCHANGED <<lockVars, condVars>>
  <2>1. object' = object
    BY <1>8 DEF CountNext, CountLoops, Acquire, AcquireWaits, AcquireTimesOut, Release, IrqSemaphore,
                CountDown, WaitLatch, LatchWaits, Arrive, Drop, arrive, Completed, WaitBarrier,
                BarrierWaits, Goto, WaitIn, turnVars
  <2> QED BY <1>1, <1>8, <2>1 DEF lockVars
<1>9. CASE Pauses /\ UNCHANGED <<lockVars, condVars, countVars>>
  BY <1>1, <1>9 DEF Pauses
<1>10. CASE UNCHANGED vars
  BY <1>1, <1>10 DEF vars, turnVars
<1> QED BY <1>2, <1>3, <1>4, <1>5, <1>6, <1>7, <1>8, <1>9, <1>10 DEF Next

-----------------------------------------------------------------------------
(* Turns: a step takes the running fiber from one place to another, or lets  *)
(* the next one run; the others stay where they are.                        *)

LEMMA TurnsStep ==
    ASSUME TurnsOK, [Next]_vars
    PROVE  TurnsOK'
<1> USE TurnIsFiber
<1>1. ASSUME UNCHANGED turnVars PROVE TurnsOK'
  BY <1>1 DEF turnVars, TurnsOK
<1>2. ASSUME NEW there \in Place, Goto(there) PROVE TurnsOK'
  BY <1>2 DEF Goto, TurnsOK
<1>3. ASSUME NEW there \in Place, WaitIn(there) PROVE TurnsOK'
  BY <1>3, YieldsToFiber DEF WaitIn, TurnsOK
<1>4. ASSUME Pauses PROVE TurnsOK'
  BY <1>4, YieldsToFiber DEF Pauses, TurnsOK
<1>5. CASE LockNext
  BY <1>1, <1>2, <1>3, <1>5
     DEF LockNext, LockLoops, Lock, LockShared, Unlock, LockWaits, LockSharedWaits, WaitSnapshot,
         PollWaits, PollWoken, GivesUp, PollTimesOut, WaitUnlock, Produce, Consume, Notify,
         IrqLock, IrqUnlock, IrqNotify, Place
<1>6. CASE CountNext
  <2>1. \A rest : Arrived(rest) \in Place
    BY DEF Arrived, Place
  <2>2. ASSUME NEW of, NEW rest, arrive(of, rest) PROVE TurnsOK'
    <3>1. CASE 1 < barrier_count
      <4>1. Goto(Arrived(rest))
        BY <2>2, <3>1 DEF arrive
      <4> QED BY <4>1, <2>1, <1>2
    <3>2. CASE ~(1 < barrier_count)
      <4>1. Goto("complete")
        BY <2>2, <3>2 DEF arrive
      <4> QED BY <4>1, <1>2 DEF Place
    <3> QED BY <3>1, <3>2
  <2>3. CASE Arrive \/ Drop
    BY <2>2, <2>3 DEF Arrive, Drop
  <2>4. CASE Completed
    BY <2>1, <2>4, <1>2 DEF Completed
  <2>5. CASE CountNext /\ ~(Arrive \/ Drop \/ Completed)
    BY <1>1, <1>2, <1>3, <2>5
       DEF CountNext, CountLoops, Acquire, AcquireWaits, AcquireTimesOut, Release, IrqSemaphore,
           CountDown, WaitLatch, LatchWaits, WaitBarrier, BarrierWaits, Place
  <2> QED BY <1>6, <2>3, <2>4, <2>5
<1>7. CASE UNCHANGED vars
  BY <1>1, <1>7 DEF vars
<1> QED BY <1>4, <1>5, <1>6, <1>7 DEF Next

-----------------------------------------------------------------------------
(* The condition variable *)

CondTypeOK ==
    /\ sequence \in 0..Lap - 1
    /\ seen \in [Fibers -> 0..Lap - 1]
    /\ missed \in SUBSET Fibers
    /\ ready \in BOOLEAN

(* Between the unlock and the reading of the sequence nobody else has had   *)
(* its turn, so the condition is still false unless an interrupt came.      *)
SnapshotAtOnce ==
    \A f \in Fibers : at[f] = "snapshot" => turn = f /\ (ready => f \in missed)

CondKept == CondTypeOK /\ SnapshotAtOnce /\ WakeupNotLost

(* The sequence is another one after a notification *)
LEMMA NotifyChanges ==
    ASSUME CondTypeOK, NoLap, sequence' = (sequence + 1) % Lap
    PROVE  /\ sequence' \in 0..Lap - 1
           /\ \A f \in Fibers : Polling(f) => seen[f] # sequence'
BY LocksAssumption DEF CondTypeOK, NoLap

(* Where the condition and the sequence stay as they are, it is enough that *)
(* nobody comes to wait and nobody who was to notify is gone.               *)
LEMMA CondUndisturbed ==
    ASSUME TurnsOK, TurnsOK', CondKept, UNCHANGED condVars,
           \A f \in Fibers : Polling(f)' => Polling(f),
           \A f \in Fibers : at[f] = "notify" => at'[f] = "notify",
           \A f \in Fibers : at'[f] = "snapshot" => turn' = f /\ (at[f] = "snapshot" \/ ~ready)
    PROVE  CondKept'
<1>1. CondTypeOK'
  BY DEF CondKept, CondTypeOK, condVars
<1>2. SnapshotAtOnce'
  BY DEF CondKept, SnapshotAtOnce, condVars
<1>3. WakeupNotLost'
  BY DEF CondKept, WakeupNotLost, condVars
<1> QED BY <1>1, <1>2, <1>3 DEF CondKept

LEMMA CondStep ==
    ASSUME TurnsOK, TurnsOK', CondKept, [Next]_vars
    PROVE  CondKept'
<1> USE TurnIsFiber
<1> DEFINE Quiet ==
        /\ UNCHANGED condVars
        /\ \A f \in Fibers : Polling(f)' => Polling(f)
        /\ \A f \in Fibers : at[f] = "notify" => at'[f] = "notify"
        /\ \A f \in Fibers : at'[f] = "snapshot" => turn' = f /\ (at[f] = "snapshot" \/ ~ready)
<1>1. Quiet => CondKept'
  BY CondUndisturbed
<1> HIDE DEF Quiet
<1>2. ASSUME UNCHANGED <<condVars, turnVars>> PROVE Quiet
  BY <1>2 DEF Quiet, turnVars, Polling, CondKept, SnapshotAtOnce
<1>3. ASSUME NEW there \in Place \ {"poll", "polls", "snapshot"}, Goto(there), UNCHANGED condVars,
             at[turn] # "notify"
      PROVE  Quiet
  BY <1>3 DEF Quiet, Goto, Polling, TurnsOK, CondKept, SnapshotAtOnce
<1>4. ASSUME NEW loop \in Place \ {"poll", "polls", "snapshot"}, WaitIn(loop), UNCHANGED condVars,
             at[turn] \notin {"notify", "snapshot"}
      PROVE  Quiet
  BY <1>4 DEF Quiet, WaitIn, Polling, TurnsOK, CondKept, SnapshotAtOnce
<1>5. CASE Pauses /\ UNCHANGED condVars
  BY <1>1, <1>5 DEF Quiet, Pauses, At, Polling, CondKept, SnapshotAtOnce
<1>6. CASE CountNext /\ UNCHANGED condVars
  <2>1. ASSUME NEW of, NEW rest, arrive(of, rest), at[turn] \in {"run", "arrived"} PROVE Quiet
    <3>1. CASE 1 < barrier_count
      <4>1. Goto(Arrived(rest))
        BY <2>1, <3>1 DEF arrive
      <4>2. Arrived(rest) \in Place \ {"poll", "polls", "snapshot"}
        BY DEF Arrived, Place
      <4> QED BY <1>3, <1>6, <2>1, <4>1, <4>2
    <3>2. CASE ~(1 < barrier_count)
      <4>1. Goto("complete")
        BY <2>1, <3>2 DEF arrive
      <4> QED BY <1>3, <1>6, <2>1, <4>1 DEF Place
    <3> QED BY <3>1, <3>2
  <2>2. CASE Arrive \/ Drop
    BY <1>1, <2>1, <2>2 DEF Arrive, Drop, At
  <2>3. CASE Completed
    <3>1. Goto(Arrived(members)) /\ at[turn] = "complete"
      BY <2>3 DEF Completed, At
    <3>2. Arrived(members) \in Place \ {"poll", "polls", "snapshot"}
      BY DEF Arrived, Place
    <3> QED BY <1>1, <1>3, <1>6, <3>1, <3>2
  <2>4. CASE ~(Arrive \/ Drop \/ Completed)
    BY <1>1, <1>2, <1>3, <1>4, <1>6, <2>4
       DEF CountNext, CountLoops, Acquire, AcquireWaits, AcquireTimesOut, Release, IrqSemaphore,
           CountDown, WaitLatch, LatchWaits, WaitBarrier, BarrierWaits, Place, At
  <2> QED BY <2>2, <2>3, <2>4
<1>7. CASE Lock \/ LockShared \/ Unlock \/ LockWaits \/ LockSharedWaits \/ GivesUp \/ IrqLock \/ IrqUnlock
  BY <1>1, <1>2, <1>3, <1>4, <1>7
     DEF Lock, LockShared, Unlock, LockWaits, LockSharedWaits, GivesUp, IrqLock, IrqUnlock,
         try_lock, try_lock_shared, Place, At
<1>8. CASE WaitUnlock
  BY <1>1, <1>8 DEF Quiet, WaitUnlock, Goto, At, Polling, TurnsOK, CondKept, SnapshotAtOnce
<1>9. CASE PollWaits
  BY <1>1, <1>9 DEF Quiet, PollWaits, WaitIn, Polling, TurnsOK, CondKept, SnapshotAtOnce
<1>10. CASE WaitSnapshot
  <2>1. CondTypeOK'
    BY <1>10 DEF WaitSnapshot, CondKept, CondTypeOK
  <2>2. SnapshotAtOnce'
    BY <1>10 DEF WaitSnapshot, Goto, TurnsOK, CondKept, SnapshotAtOnce
  <2>3. \A f \in Fibers : Polling(f)' => Polling(f) \/ (f = turn /\ at[f] = "snapshot")
    BY <1>10 DEF WaitSnapshot, Goto, TurnsOK, Polling, At
  <2>4. WakeupNotLost'
    BY <1>10, <2>3 DEF WaitSnapshot, Goto, At, TurnsOK, CondKept, CondTypeOK, SnapshotAtOnce, WakeupNotLost, Polling
  <2> QED BY <2>1, <2>2, <2>4 DEF CondKept
<1>11. CASE PollWoken \/ PollTimesOut
  <2>1. /\ Polling(turn) /\ Goto("lock") /\ missed' = missed \ {turn}
        /\ UNCHANGED <<ready, sequence, seen>>
    BY <1>11 DEF PollWoken, PollTimesOut, Polling, At
  <2>2. CondTypeOK'
    BY <2>1 DEF CondKept, CondTypeOK
  <2>3. SnapshotAtOnce'
    BY <2>1 DEF Goto, Polling, TurnsOK, CondKept, SnapshotAtOnce
  <2>4. WakeupNotLost'
    BY <2>1 DEF Goto, Polling, TurnsOK, CondKept, WakeupNotLost
  <2> QED BY <2>2, <2>3, <2>4 DEF CondKept
<1>12. CASE Produce
  <2>1. CondTypeOK'
    BY <1>12 DEF Produce, CondKept, CondTypeOK
  <2>2. SnapshotAtOnce'
    BY <1>12 DEF Produce, Goto, At, TurnsOK, CondKept, SnapshotAtOnce
  <2>3. at'[turn] = "notify"
    BY <1>12 DEF Produce, Goto, TurnsOK
  <2> QED BY <2>1, <2>2, <2>3 DEF CondKept, WakeupNotLost
<1>13. CASE Consume
  BY <1>13 DEF Consume, turnVars, CondKept, CondTypeOK, SnapshotAtOnce, WakeupNotLost
<1>14. CASE Notify
  <2>1. /\ NoLap /\ sequence' = (sequence + 1) % Lap
        /\ Goto("run") /\ UNCHANGED <<ready, seen, missed>>
    BY <1>14 DEF Notify, notify_one
  <2>2. CondTypeOK'
    BY <2>1, NotifyChanges DEF CondKept, CondTypeOK
  <2>3. SnapshotAtOnce'
    BY <2>1 DEF Goto, TurnsOK, CondKept, SnapshotAtOnce
  <2>4. \A f \in Fibers : Polling(f)' => Polling(f)
    BY <2>1 DEF Goto, Polling, TurnsOK
  <2>5. WakeupNotLost'
    BY <2>1, <2>4, NotifyChanges DEF CondKept, WakeupNotLost
  <2> QED BY <2>2, <2>3, <2>5 DEF CondKept
<1>15. CASE IrqNotify
  <2>1. /\ NoLap /\ sequence' = (sequence + 1) % Lap /\ ready' = TRUE
        /\ missed' = missed \cup {f \in Fibers : at[f] = "snapshot"}
        /\ UNCHANGED <<turn, at, seen>>
    BY <1>15 DEF IrqNotify, notify_one, turnVars
  <2>2. CondTypeOK'
    BY <2>1, NotifyChanges DEF CondKept, CondTypeOK
  <2>3. SnapshotAtOnce'
    BY <2>1 DEF CondKept, SnapshotAtOnce
  <2>4. WakeupNotLost'
    BY <2>1, NotifyChanges DEF CondKept, WakeupNotLost, Polling
  <2> QED BY <2>2, <2>3, <2>4 DEF CondKept
<1>16. CASE UNCHANGED vars
  BY <1>1, <1>2, <1>16 DEF vars
<1> QED BY <1>5, <1>6, <1>7, <1>8, <1>9, <1>10, <1>11, <1>12, <1>13, <1>14, <1>15, <1>16
        DEF Next, LockNext, LockLoops

-----------------------------------------------------------------------------
(* The counters *)

(* With at most one permit too many the counter has wrapped once at most *)
PermitsExact ==
    /\ owed \in 0..CountMax + 1
    /\ permits = IF owed = CountMax + 1 THEN 0 ELSE owed

LatchExact ==
    /\ arrivals \in Nat
    /\ latch = IF arrivals >= Expected THEN 0 ELSE Expected - arrivals
    /\ \A f \in Fibers : at[f] = "passed" => arrivals >= Expected

BarrierTypeOK ==
    /\ barrier_sequence \in 0..Phases - 1
    /\ token \in [Fibers -> 0..Phases - 1]
    /\ members \in SUBSET Fibers /\ missing \in SUBSET members
    /\ awaits \in [Fibers -> SUBSET Fibers]

(* The counts are those of the sets, and a phase without members is over *)
BarrierCounts ==
    /\ expected = Cardinality(members)
    /\ barrier_count = Cardinality(missing)
    /\ missing = {} => members = {}

(* A fiber that has arrived is still awaited by nobody in this phase, or is  *)
(* missing in the next one, which cannot end without it.                    *)
InPhase(f) == token[f] = barrier_sequence /\ f \notin missing /\ awaits[f] = missing
PhaseOver(f) ==
    /\ token[f] # barrier_sequence
    /\ f \in missing /\ awaits[f] = {}
BarrierPhases ==
    \A f \in Fibers :
        /\ at[f] \in {"arrived", "wait"} => f \in members /\ (InPhase(f) \/ PhaseOver(f))
        /\ at[f] = "complete" /\ f \in members => PhaseOver(f)

CountsKept == PermitsExact /\ LatchExact /\ BarrierTypeOK /\ BarrierCounts /\ BarrierPhases

LEMMA FibersFinite == IsFiniteSet(Fibers) /\ Cardinality(Fibers) = N
BY FibersAssumption, FS_Interval DEF Fibers

LEMMA CountConstants ==
    /\ CountMax \in Nat \ {0} /\ Phases \in Nat \ {0, 1}
    /\ Expected \in Nat \ {0} /\ 1..Expected \subseteq Fibers
BY FibersAssumption, CountersAssumption DEF Fibers

LEMMA CountsInit == Init => CountsKept
<1> SUFFICES ASSUME Init PROVE CountsKept
  OBVIOUS
<1> USE CountConstants DEF Init, CountInit
<1>1. PermitsExact /\ LatchExact /\ BarrierTypeOK /\ BarrierPhases
  BY DEF PermitsExact, LatchExact, BarrierTypeOK, BarrierPhases
<1>2. /\ IsFiniteSet(1..Expected) /\ Cardinality(1..Expected) = Expected
      /\ 1 \in 1..Expected
  <2>1. Expected \in Int /\ 1 \in Int /\ ~(1 > Expected) /\ Expected - 1 + 1 = Expected
    OBVIOUS
  <2>2. /\ IsFiniteSet(1..Expected)
        /\ Cardinality(1..Expected) = IF 1 > Expected THEN 0 ELSE Expected - 1 + 1
    BY <2>1, FS_Interval, Zenon
  <2> QED BY <2>1, <2>2
<1>3. BarrierCounts
  BY <1>2 DEF BarrierCounts
<1> QED BY <1>1, <1>3 DEF CountsKept

LEMMA CountsSuffice == TurnsOK /\ CountsKept => Counts
<1> SUFFICES ASSUME TurnsOK, CountsKept PROVE Counts
  OBVIOUS
<1> USE CountConstants
<1>1. owed = CountMax + 1 => owed % (CountMax + 1) = 0
  OBVIOUS
<1>2. owed \in 0..CountMax => owed % (CountMax + 1) = owed
  OBVIOUS
<1>3. PermitsKept
  BY <1>1, <1>2 DEF CountsKept, PermitsExact, PermitsKept
<1>4. LatchOpens
  BY DEF CountsKept, LatchExact, LatchOpens
<1>5. PhasesTogether
  <2> SUFFICES ASSUME NEW f \in Fibers, at[f] \in {"arrived", "wait"}
               PROVE  (token[f] # barrier_sequence) <=> (awaits[f] = {})
    BY DEF PhasesTogether
  <2>1. f \in members /\ (InPhase(f) \/ PhaseOver(f))
    BY DEF CountsKept, BarrierPhases
  <2>2. missing # {}
    BY <2>1 DEF CountsKept, BarrierCounts
  <2> QED BY <2>1, <2>2 DEF InPhase, PhaseOver
<1> QED BY <1>3, <1>4, <1>5 DEF Counts

(* Where the counters stay as they are and nobody gets past a wait *)
LEMMA CountsUndisturbed ==
    ASSUME CountsKept, UNCHANGED countVars,
           \A f \in Fibers :
               /\ at'[f] = "passed" => at[f] = "passed"
               /\ at'[f] \in {"arrived", "wait"} => at[f] \in {"arrived", "wait"}
               /\ at'[f] = "complete" => at[f] = "complete"
    PROVE  CountsKept'
<1> USE DEF countVars, semVars, latchVars, barrierVars
<1>1. PermitsExact' /\ LatchExact' /\ BarrierTypeOK' /\ BarrierCounts'
  BY DEF CountsKept, PermitsExact, LatchExact, BarrierTypeOK, BarrierCounts
<1>2. BarrierPhases'
  BY DEF CountsKept, BarrierPhases, InPhase, PhaseOver
<1> QED BY <1>1, <1>2 DEF CountsKept

(* The sets that an arrival leaves, and their sizes *)
LEMMA Leaves ==
    ASSUME TurnsOK, BarrierTypeOK, BarrierCounts, turn \in missing
    PROVE  /\ Cardinality(missing \ {turn}) = barrier_count - 1
           /\ Cardinality(members \ {turn}) = expected - 1
           /\ expected \in Nat /\ expected > 0
           /\ barrier_count \in Nat /\ barrier_count > 0
           /\ barrier_count = 1 <=> missing \ {turn} = {}
<1>1. IsFiniteSet(members) /\ IsFiniteSet(missing)
  <2>1. members \in SUBSET Fibers
    BY DEF BarrierTypeOK
  <2>2. IsFiniteSet(members)
    BY <2>1, FibersFinite, FS_Subset
  <2>3. missing \in SUBSET members
    BY DEF BarrierTypeOK
  <2> QED BY <2>2, <2>3, FS_Subset
<1>2. /\ Cardinality(missing \ {turn}) = Cardinality(missing) - 1
      /\ Cardinality(members \ {turn}) = Cardinality(members) - 1
      /\ IsFiniteSet(missing \ {turn}) /\ IsFiniteSet(members \ {turn})
  BY <1>1, FS_RemoveElement DEF BarrierTypeOK
<1>3. /\ Cardinality(missing) \in Nat /\ Cardinality(members) \in Nat
      /\ Cardinality(missing \ {turn}) \in Nat /\ Cardinality(members \ {turn}) \in Nat
  BY <1>1, <1>2, FS_CardinalityType
<1>4. Cardinality(missing \ {turn}) = 0 <=> missing \ {turn} = {}
  BY <1>2, FS_EmptySet
<1> QED BY <1>2, <1>3, <1>4 DEF BarrierCounts

(* An arrival, of a fiber that stays (rest has all members) or drops out *)
LEMMA ArriveStep ==
    ASSUME TurnsOK, CountsKept, turn \in missing, UNCHANGED <<semVars, latchVars>>,
           NEW of, NEW rest, rest \in {members, members \ {turn}}, members' = rest,
           of = Cardinality(rest), expected' = of,
           at[turn] \in {"run", "arrived"},
           arrive(of, rest)
    PROVE  CountsKept'
<1> USE TurnIsFiber, CountConstants
<1>1. BarrierTypeOK /\ BarrierCounts /\ BarrierPhases
  BY DEF CountsKept
<1>2. /\ barrier_count \in Nat /\ barrier_count > 0
      /\ Cardinality(missing \ {turn}) = barrier_count - 1
      /\ barrier_count = 1 <=> missing \ {turn} = {}
  BY <1>1, Leaves
<1>3. /\ token' = [token EXCEPT ![turn] = barrier_sequence]
      /\ awaits' = [f \in Fibers |-> IF f = turn THEN missing \ {turn} ELSE awaits[f] \ {turn}]
  BY DEF arrive
<1>4. /\ token'[turn] = barrier_sequence /\ awaits'[turn] = missing \ {turn}
      /\ \A f \in Fibers : f # turn => token'[f] = token[f] /\ awaits'[f] = awaits[f] \ {turn}
      /\ token' \in [Fibers -> 0..Phases - 1]
      /\ awaits' \in [Fibers -> SUBSET Fibers]
  BY <1>1, <1>3 DEF BarrierTypeOK
<1>5. PermitsExact'
  BY DEF CountsKept, PermitsExact, semVars
<1>6. CASE barrier_count > 1
  <2>1. /\ barrier_count' = barrier_count - 1 /\ barrier_sequence' = barrier_sequence
        /\ at' = [at EXCEPT ![turn] = Arrived(rest)]
        /\ missing' = missing \ {turn} /\ missing' # {}
    BY <1>2, <1>6 DEF arrive, Goto
  <2>2. LatchExact'
    BY <2>1 DEF CountsKept, LatchExact, latchVars, Arrived, TurnsOK
  <2>3. BarrierTypeOK' /\ BarrierCounts'
    BY <1>1, <1>2, <1>4, <2>1 DEF BarrierTypeOK, BarrierCounts
  <2>4. BarrierPhases'
    <3> SUFFICES ASSUME NEW f \in Fibers
                 PROVE  /\ at'[f] \in {"arrived", "wait"} => f \in members' /\ (InPhase(f)' \/ PhaseOver(f)')
                        /\ at'[f] = "complete" /\ f \in members' => PhaseOver(f)'
      BY DEF BarrierPhases
    <3>1. CASE f = turn
      BY <1>4, <2>1, <3>1 DEF InPhase, Arrived, TurnsOK
    <3>2. CASE f # turn
      <4>1. at'[f] = at[f] /\ (f \in members <=> f \in members')
        BY <2>1, <3>2 DEF TurnsOK
      <4>2. InPhase(f) => InPhase(f)'
        BY <1>4, <2>1, <3>2 DEF InPhase
      <4>3. PhaseOver(f) => PhaseOver(f)'
        BY <1>4, <2>1, <3>2 DEF PhaseOver
      <4> QED BY <1>1, <4>1, <4>2, <4>3 DEF BarrierPhases
    <3> QED BY <3>1, <3>2
  <2> QED BY <1>5, <2>2, <2>3, <2>4 DEF CountsKept
<1>7. CASE barrier_count = 1
  <2>1. /\ missing = {turn} /\ missing' = rest
        /\ barrier_count' = of /\ barrier_sequence' = (barrier_sequence + 1) % Phases
        /\ at' = [at EXCEPT ![turn] = "complete"]
    BY <1>2, <1>7 DEF arrive, Goto
  <2>2. LatchExact'
    BY <2>1 DEF CountsKept, LatchExact, latchVars, TurnsOK
  <2>3. barrier_sequence' \in 0..Phases - 1 /\ barrier_sequence' # barrier_sequence
    BY <1>1, <2>1 DEF BarrierTypeOK
  <2>4. BarrierTypeOK' /\ BarrierCounts'
    BY <1>1, <1>4, <2>1, <2>3 DEF BarrierTypeOK, BarrierCounts
  <2>5. BarrierPhases'
    <3> SUFFICES ASSUME NEW f \in Fibers
                 PROVE  /\ at'[f] \in {"arrived", "wait"} => f \in members' /\ (InPhase(f)' \/ PhaseOver(f)')
                        /\ at'[f] = "complete" /\ f \in members' => PhaseOver(f)'
      BY DEF BarrierPhases
    <3>1. CASE f = turn
      BY <1>4, <2>1, <2>3, <3>1 DEF PhaseOver, TurnsOK
    <3>2. CASE f # turn
      <4>1. at'[f] = at[f] /\ (f \in members <=> f \in missing') /\ members' = missing'
        BY <2>1, <3>2 DEF TurnsOK
      <4>2. ~PhaseOver(f)
        BY <2>1, <3>2 DEF PhaseOver
      <4>3. f \in members /\ InPhase(f) => PhaseOver(f)'
        BY <1>4, <2>1, <2>3, <3>2, <4>1 DEF InPhase, PhaseOver
      <4> QED BY <1>1, <4>1, <4>2, <4>3 DEF BarrierPhases
    <3> QED BY <3>1, <3>2
  <2> QED BY <1>5, <2>2, <2>4, <2>5 DEF CountsKept
<1> QED BY <1>2, <1>6, <1>7

LEMMA CountsStep ==
    ASSUME TurnsOK, CountsKept, [Next]_vars
    PROVE  CountsKept'
<1> USE TurnIsFiber, CountConstants
<1> DEFINE Waiting == {"passed", "arrived", "wait", "complete"}
<1>1. ASSUME UNCHANGED <<turnVars, countVars>> PROVE CountsKept'
  BY <1>1, CountsUndisturbed DEF turnVars
<1>2. ASSUME NEW there \in Place \ Waiting, Goto(there) \/ WaitIn(there), UNCHANGED countVars
      PROVE  CountsKept'
  BY <1>2, CountsUndisturbed DEF Goto, WaitIn, TurnsOK
<1>3. CASE Pauses /\ UNCHANGED countVars
  BY <1>3, CountsUndisturbed DEF Pauses
<1>4. CASE LockNext /\ UNCHANGED countVars
  BY <1>1, <1>2, <1>4
     DEF LockNext, LockLoops, Lock, LockShared, Unlock, LockWaits, LockSharedWaits, WaitSnapshot,
         PollWaits, PollWoken, GivesUp, PollTimesOut, WaitUnlock, Produce, Consume, Notify,
         IrqLock, IrqUnlock, IrqNotify, Place
<1>5. CASE AcquireWaits \/ AcquireTimesOut \/ LatchWaits
  BY <1>2, <1>5 DEF AcquireWaits, AcquireTimesOut, LatchWaits, Place
<1>6. CASE WaitBarrier
  BY <1>2, <1>6 DEF WaitBarrier, Place
<1>7. CASE BarrierWaits
  BY <1>7, CountsUndisturbed DEF BarrierWaits, WaitIn, At, TurnsOK
<1>8. CASE Completed
  <2>1. UNCHANGED countVars /\ at[turn] = "complete" /\ at' = [at EXCEPT ![turn] = Arrived(members)]
    BY <1>8 DEF Completed, Goto, At
  <2>2. PermitsExact' /\ LatchExact' /\ BarrierTypeOK' /\ BarrierCounts'
    BY <2>1 DEF CountsKept, PermitsExact, LatchExact, BarrierTypeOK, BarrierCounts, countVars,
                semVars, latchVars, barrierVars, Arrived, TurnsOK
  <2>3. BarrierPhases'
    BY <2>1 DEF CountsKept, BarrierPhases, InPhase, PhaseOver, countVars, barrierVars, Arrived, TurnsOK
  <2> QED BY <2>2, <2>3 DEF CountsKept
<1>9. CASE Acquire \/ Release \/ IrqSemaphore
  <2>1. PermitsExact'
    BY <1>9 DEF Acquire, Release, IrqSemaphore, release, try_acquire, CountsKept, PermitsExact
  <2>2. /\ UNCHANGED <<latchVars, barrierVars>>
        /\ \A f \in Fibers : at'[f] = at[f] \/ at'[f] = "run"
    BY <1>9 DEF Acquire, Release, IrqSemaphore, Goto, turnVars, TurnsOK
  <2>3. LatchExact' /\ BarrierTypeOK' /\ BarrierCounts'
    BY <2>2 DEF CountsKept, LatchExact, BarrierTypeOK, BarrierCounts, latchVars, barrierVars
  <2>4. BarrierPhases'
    BY <2>2 DEF CountsKept, BarrierPhases, InPhase, PhaseOver, barrierVars
  <2> QED BY <2>1, <2>3, <2>4 DEF CountsKept
<1>10. CASE CountDown
  <2>1. LatchExact'
    BY <1>10 DEF CountDown, count_down, CountsKept, LatchExact, turnVars
  <2>2. UNCHANGED <<semVars, barrierVars, at>>
    BY <1>10 DEF CountDown, turnVars
  <2>3. PermitsExact' /\ BarrierTypeOK' /\ BarrierCounts' /\ BarrierPhases'
    BY <2>2 DEF CountsKept, PermitsExact, BarrierTypeOK, BarrierCounts, BarrierPhases, InPhase,
                PhaseOver, semVars, barrierVars
  <2> QED BY <2>1, <2>3 DEF CountsKept
<1>11. CASE WaitLatch
  <2>1. latch = 0 /\ UNCHANGED countVars /\ at' = [at EXCEPT ![turn] = "passed"]
    BY <1>11 DEF WaitLatch, Goto
  <2>2. LatchExact'
    BY <2>1 DEF CountsKept, LatchExact, TurnsOK, countVars, latchVars
  <2>3. PermitsExact' /\ BarrierTypeOK' /\ BarrierCounts' /\ BarrierPhases'
    BY <2>1 DEF CountsKept, PermitsExact, BarrierTypeOK, BarrierCounts, BarrierPhases, InPhase,
                PhaseOver, countVars, semVars, barrierVars, TurnsOK
  <2> QED BY <2>2, <2>3 DEF CountsKept
<1>12. CASE Arrive
  <2>1. /\ turn \in missing /\ at[turn] \in {"run", "arrived"}
        /\ arrive(expected, members) /\ UNCHANGED <<expected, members, semVars, latchVars>>
    BY <1>12 DEF Arrive, At
  <2>2. expected = Cardinality(members)
    BY DEF CountsKept, BarrierCounts
  <2> QED BY <2>1, <2>2, ArriveStep
<1>13. CASE Drop
  <2>1. /\ turn \in missing /\ at[turn] \in {"run", "arrived"}
        /\ members' = members \ {turn}
        /\ expected' = (IF expected > 0 THEN expected - 1 ELSE 0)
        /\ arrive(expected', members') /\ UNCHANGED <<semVars, latchVars>>
    BY <1>13 DEF Drop, At
  <2>2. expected' = Cardinality(members \ {turn})
    BY <2>1, Leaves DEF CountsKept
  <2> QED BY <2>1, <2>2, ArriveStep
<1>14. CASE UNCHANGED vars
  BY <1>1, <1>14 DEF vars
<1> QED BY <1>3, <1>4, <1>5, <1>6, <1>7, <1>8, <1>9, <1>10, <1>11, <1>12, <1>13, <1>14
        DEF Next, CountNext, CountLoops

-----------------------------------------------------------------------------
(* The theorems *)

IInv == TurnsOK /\ LocksKept /\ CondKept /\ CountsKept

LEMMA InitInv == Init => IInv
<1> SUFFICES ASSUME Init PROVE IInv
  OBVIOUS
<1>1. TurnsOK
  BY FibersAssumption DEF Init, TurnsOK, Fibers, Place
<1>2. LocksKept
  <2>1. /\ locked = FALSE /\ owner = NoOwner /\ count = 1
        /\ depth = [u \in Users |-> 0] /\ readers = {} /\ voided = FALSE
    BY DEF Init, LockInit
  <2>2. LockTypeOK
    <3>1. count \in Nat \ {0}
      BY <2>1
    <3>2. depth \in [Users -> Nat]
      BY <2>1
    <3> QED BY <2>1, <3>1, <3>2, Zenon DEF LockTypeOK
  <2>3. PlainKept
    BY <2>1 DEF PlainKept
  <2>4. RecursiveKept
    BY <2>1, Marks DEF RecursiveKept
  <2>5. SharedKept
    BY <2>1, Marks DEF SharedKept
  <2>6. Unused
    BY <2>1 DEF Unused
  <2> QED BY <2>2, <2>3, <2>4, <2>5, <2>6 DEF LocksKept
<1>3. CondKept
  <2>1. /\ ready = FALSE /\ sequence = 0 /\ seen = [f \in Fibers |-> 0] /\ missed = {}
        /\ at = [f \in Fibers |-> "run"]
    BY DEF Init, LockInit
  <2>2. CondTypeOK
    <3>1. 0 \in 0..Lap - 1
      BY LocksAssumption
    <3>2. [f \in Fibers |-> 0] \in [Fibers -> 0..Lap - 1]
      BY <3>1
    <3> QED BY <2>1, <3>1, <3>2, Zenon DEF CondTypeOK
  <2>3. SnapshotAtOnce /\ WakeupNotLost
    BY <2>1 DEF SnapshotAtOnce, WakeupNotLost
  <2> QED BY <2>2, <2>3 DEF CondKept
<1> QED BY <1>1, <1>2, <1>3, CountsInit DEF IInv

LEMMA Inductive == Spec => []IInv
<1>1. IInv /\ [Next]_vars => IInv'
  BY TurnsStep, LocksStep, CondStep, CountsStep DEF IInv
<1> QED BY InitInv, <1>1, PTL DEF Spec

(* Nobody is inside while another one, fiber or interrupt, has the lock for  *)
(* itself: in every kind of mutex, with timeouts and interrupts, until two    *)
(* readers of a shared_mutex leave it one by one.                           *)
THEOREM LocksExclude == Spec => []Exclusion
<1>1. IInv => Exclusion
  <2> SUFFICES ASSUME IInv, ~voided
               PROVE  /\ \A u, v \in Users : Holds(u) /\ Holds(v) => u = v
                      /\ readers # {} => \A u \in Users : ~Holds(u)
    BY DEF Exclusion
  <2>1. CASE Plain
    BY <2>1 DEF IInv, LocksKept, PlainKept, Holds
  <2>2. CASE Recursive
    BY <2>2 DEF IInv, LocksKept, RecursiveKept, Holds
  <2>3. CASE Shared
    BY <2>3, Marks DEF IInv, LocksKept, SharedKept, Holds
  <2>4. CASE object \in CountObjects
    BY <2>4 DEF IInv, LocksKept, Unused, Holds
  <2> QED BY <2>1, <2>2, <2>3, <2>4 DEF IInv, TurnsOK, LockObjects, Plain, Recursive, Shared
<1> QED BY <1>1, Inductive, PTL

(* Whoever waits for a condition that has become true is about to be woken,  *)
(* or was overtaken by an interrupt before it read the sequence.            *)
THEOREM WakeupsArrive == Spec => []WakeupNotLost
<1>1. IInv => WakeupNotLost
  BY DEF IInv, CondKept
<1> QED BY <1>1, Inductive, PTL

(* Semaphores keep their permits, latches open in time and not before, and  *)
(* a barrier lets a fiber go on exactly when all members have arrived.      *)
THEOREM CountsExact == Spec => []Counts
<1>1. IInv => Counts
  BY CountsSuffice DEF IInv
<1> QED BY <1>1, Inductive, PTL
=============================================================================
