-------------------------------- MODULE Itm --------------------------------
(***************************************************************************)
(* platform/itm/itm.cpp under the wrapper of LogDevice, the log device of the *)
(* program.  Bytes go through the ring txBuffer into a 32-bit                *)
(* word, and from there to the stimulus port, which the trace hardware       *)
(* empties.  There is no interrupt: only a caller of write or flush moves    *)
(* bytes on, and it does not yield meanwhile, so fibers take turns between   *)
(* calls only.                                                               *)
(***************************************************************************)
EXTENDS AtomicQueue

VARIABLES
    word, size,         \* the static variables of update, top byte last
    port,               \* the frame last written to the stimulus port
    busy,               \* the port has not taken that frame yet
    enabled,            \* a debugger has enabled the ITM and the port
    pc,                 \* "idle", or in "push", "update" or "flush"
    char                \* the byte in the call

wordVars  == <<word, size>>
portVars  == <<port, busy>>
callVars  == <<pc, char>>
vars == <<queueVars, wordVars, portVars, enabled, callVars>>

NoWord == <<Zero, Zero, Zero, Zero>>

DeviceInit ==
    /\ word = NoWord /\ size = 0
    /\ port = <<>> /\ busy = FALSE
    /\ enabled \in BOOLEAN
    /\ pc = "idle" /\ char = Zero

-----------------------------------------------------------------------------
(* Itm::update *)

(* Mutant: the word is filled one byte too far *)
Moved_OneMore == IF getSize <= 5 - size THEN getSize ELSE 5 - size

(* Bytes that the loop takes from the ring: the word has room for four *)
Moved == IF getSize <= 4 - size THEN getSize ELSE 4 - size

(* The word after the loop: each byte comes in at the top and shifts the    *)
(* others down, buffer >>= 8; buffer |= data << 24.                          *)
Filled     == SubSeq(word \o Stored, Moved + 1, Moved + 4)
FilledSize == size + Moved

(* What is sent: of three bytes the two oldest *)
Frame == IF FilledSize = 3 THEN SubSeq(Filled, 2, 3) ELSE SubSeq(Filled, 5 - FilledSize, 4)

(* Mutant: four bytes are no size that the port takes *)
write_itm_NoFour == ~enabled \/ (~busy /\ Len(Frame) \in {1, 2})
(* write_itm's result; a disabled ITM takes everything, and loses it *)
write_itm == ~enabled \/ (~busy /\ Len(Frame) \in {1, 2, 4})

update ==
    /\ tail' = SlotOf(Moved)
    /\ IF ~write_itm
       THEN word' = Filled /\ size' = FilledSize
       ELSE IF FilledSize = 3
       THEN word' = <<Zero, Zero, Zero, Filled[4]>> /\ size' = 1
       ELSE word' = NoWord /\ size' = 0
    /\ IF write_itm /\ enabled
       THEN port' = Frame /\ busy' = TRUE
       ELSE UNCHANGED portVars
    /\ UNCHANGED <<head, ring, enabled>>

-----------------------------------------------------------------------------
(* The calls *)

(* IODeviceWrapper::write, as every << of a log statement ends in it *)
Write ==
    /\ pc = "idle"
    /\ char' \in Byte
    /\ pc' = "push"
    /\ UNCHANGED <<queueVars, wordVars, portVars, enabled>>

(* Itm::write: push, and after an update push again.  BlockIfFull repeats  *)
(* the call until it succeeds.                                              *)
Push ==
    /\ pc = "push" /\ ~isFull
    /\ ring' = [ring EXCEPT ![head] = char]
    /\ head' = After(head)
    /\ pc' = "idle" /\ char' = Zero
    /\ UNCHANGED <<tail, wordVars, portVars, enabled>>
PushFails ==
    /\ pc = "push" /\ isFull
    /\ pc' = "update"
    /\ UNCHANGED <<queueVars, wordVars, portVars, enabled, char>>
Update ==
    /\ pc = "update"
    /\ update
    /\ pc' = "push"
    /\ UNCHANGED char

(* flushWriteBuffer *)
isWriteFinished == isEmpty
Flush ==
    /\ pc = "idle"
    /\ pc' = "flush"
    /\ UNCHANGED <<queueVars, wordVars, portVars, enabled, char>>
FlushUpdate ==
    /\ pc = "flush" /\ ~isWriteFinished
    /\ update
    /\ UNCHANGED callVars
FlushEnds ==
    /\ pc = "flush" /\ isWriteFinished
    /\ pc' = "idle"
    /\ UNCHANGED <<queueVars, wordVars, portVars, enabled, char>>

(* Every byte in the ring is popped, those in the word stay *)
discardTransmitBuffer ==
    /\ pc = "idle"
    /\ tail' = head
    /\ UNCHANGED <<head, ring, wordVars, portVars, enabled, callVars>>

InCall == Push \/ PushFails \/ Update \/ FlushUpdate \/ FlushEnds

-----------------------------------------------------------------------------
(* The trace hardware sends the frame; a debugger comes and goes *)
Drain  == busy /\ busy' = FALSE /\ UNCHANGED <<queueVars, wordVars, port, enabled, callVars>>
Attach == enabled' = ~enabled /\ UNCHANGED <<queueVars, wordVars, portVars, callVars>>

Next == Write \/ Flush \/ discardTransmitBuffer \/ InCall \/ Drain \/ Attach

-----------------------------------------------------------------------------
TypeOK ==
    /\ QueueOK
    /\ size \in 0..4
    /\ DOMAIN word = 1..4 /\ Range(word) \subseteq Byte \cup {Zero}
    /\ busy \in BOOLEAN /\ enabled \in BOOLEAN
    /\ pc \in {"idle", "push", "update", "flush"}
    /\ char \in Byte \cup {Zero}

(* Written and not sent: the word, the ring, and the byte in the call *)
writing == pc \in {"push", "update"}
Pending == SubSeq(word, 5 - size, 4) \o Stored \o (IF writing THEN <<char>> ELSE <<>>)
=============================================================================
