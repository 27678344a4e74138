---------------------------- MODULE ByteTransfer ----------------------------
(***************************************************************************)
(* What transferBlocking(tx, nullptr, length) promises its caller: between   *)
(* the call and the return the bytes of the buffer are read one after the    *)
(* other, each exactly once, and the call returns after the last.  It says   *)
(* nothing of when a byte is read, so the buffer may change in between.      *)
(***************************************************************************)
EXTENDS Naturals

CONSTANT Length

VARIABLES
    phase,  \* "idle", or "busy" during the call
    read    \* bytes read in this call

vars == <<phase, read>>

Init == phase = "idle" /\ read \in 0..Length

Call   == phase = "idle" /\ phase' = "busy" /\ read' = 0
Read   == phase = "busy" /\ read < Length /\ read' = read + 1 /\ UNCHANGED phase
Return == phase = "busy" /\ read = Length /\ phase' = "idle" /\ UNCHANGED read

Next == Call \/ Read \/ Return

Spec == Init /\ [][Next]_vars /\ WF_vars(Next)
=============================================================================
