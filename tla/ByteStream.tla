----------------------------- MODULE ByteStream -----------------------------
(***************************************************************************)
(* What a log device promises: the bytes written come out in their order,   *)
(* in frames of one, two or four, each once.  While nobody traces they are   *)
(* lost from the front; between its calls a caller may delete the newest.   *)
(***************************************************************************)
EXTENDS Sequences, SequencesExt, Naturals

CONSTANT Byte

VARIABLES
    pending,    \* written and not yet sent, oldest first
    writing,    \* a call of write is under way
    sent,       \* the last frame sent
    traced      \* somebody listens

vars == <<pending, writing, sent, traced>>

Init == pending = <<>> /\ ~writing /\ sent = <<>> /\ traced \in BOOLEAN

Drop(n) == n <= Len(pending) /\ pending' = SubSeq(pending, n + 1, Len(pending))

Write ==
    /\ ~writing /\ writing'
    /\ \E b \in Byte : pending' = Append(pending, b)
    /\ UNCHANGED <<sent, traced>>
Written == writing /\ ~writing' /\ UNCHANGED <<pending, sent, traced>>
Send ==
    \E n \in {1, 2, 4} :
        /\ traced /\ Drop(n)
        /\ sent' = SubSeq(pending, 1, n)
        /\ UNCHANGED <<writing, traced>>
Lose   == ~traced /\ (\E n \in 1..4 : Drop(n)) /\ UNCHANGED <<writing, sent, traced>>
Delete == ~writing /\ IsPrefix(pending', pending) /\ UNCHANGED <<writing, sent, traced>>
Listen == traced' = ~traced /\ UNCHANGED <<pending, writing, sent>>

Next == Write \/ Written \/ Send \/ Lose \/ Delete \/ Listen

Spec == Init /\ [][Next]_vars
=============================================================================
