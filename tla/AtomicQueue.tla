---------------------------- MODULE AtomicQueue ----------------------------
(***************************************************************************)
(* atomic::Queue, a ring of N + 1 slots between one writer, who alone moves  *)
(* head, and one reader, who alone moves tail.  push is two steps for its     *)
(* reader, and pop comes after get for its writer: the modules that extend   *)
(* this one say who is interrupted where.                                    *)
(***************************************************************************)
EXTENDS Integers, Sequences, SequencesExt

CONSTANTS
    Byte,
    N,      \* capacity of the queue
    Zero    \* what a slot, register or word holds where there is no data

ASSUME QueueAssumption == N \in Nat \ {0} /\ Zero \notin Byte

VARIABLES head, tail, ring

queueVars == <<head, tail, ring>>

Slots == 0..N

QueueInit ==
    /\ head = 0 /\ tail = 0
    /\ ring = [i \in Slots |-> Zero]

After(i) == IF i + 1 >= N + 1 THEN 0 ELSE i + 1

isEmpty == head = tail

(* push refuses: the slot behind the next one is the oldest *)
isFull  == After(head) = tail

getSize == IF head >= tail THEN head - tail ELSE (N + 1) - tail + head

(* The slot that is k places behind the oldest byte *)
SlotOf(k) == IF tail + k < N + 1 THEN tail + k ELSE tail + k - (N + 1)

(* The bytes in the queue, oldest first *)
Stored == [k \in 1..getSize |-> ring[SlotOf(k - 1)]]

get == ring[tail]

(* The two halves of push, and pop *)
store(value) == ring' = [ring EXCEPT ![head] = value] /\ UNCHANGED <<head, tail>>
publish      == head' = After(head) /\ UNCHANGED <<tail, ring>>
pop          == tail' = After(tail) /\ UNCHANGED <<head, ring>>

QueueOK == head \in Slots /\ tail \in Slots /\ ring \in [Slots -> Byte \cup {Zero}]
=============================================================================
