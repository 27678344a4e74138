-------------------------------- MODULE Uart --------------------------------
(***************************************************************************)
(* BufferedUart<UsartHal3, UartTxBuffer>, the transmitting half of the       *)
(* serial port (platform/uart/uart_buffer.hpp), under the wrapper that        *)
(* repeats a write until it succeeds.  A call looks at the queue and at the   *)
(* data register and then acts on what it saw; the transmit interrupt may    *)
(* come between any two of its statements, and the transmitter empties the   *)
(* register whenever it likes.                                                *)
(***************************************************************************)
EXTENDS AtomicQueue

VARIABLES
    dr,     \* the data register, Zero while the flag TXE is set
    line,   \* the byte last taken into the shift register
    txie,   \* the transmit interrupt is enabled
    pc,     \* "idle", or the next statement of the call
    char    \* the byte in the call

regVars  == <<dr, line, txie>>
callVars == <<pc, char>>
vars == <<queueVars, regVars, callVars>>

DeviceInit ==
    /\ dr = Zero /\ line = <<>> /\ txie = FALSE
    /\ pc = "idle" /\ char = Zero

isTransmitRegisterEmpty == dr = Zero

Goto(next) == pc' = next /\ UNCHANGED char
Returns    == pc' = "idle" /\ char' = Zero

-----------------------------------------------------------------------------
(* BufferedUart::write *)

Write ==
    /\ pc = "idle"
    /\ char' \in Byte
    /\ pc' = "queue"
    /\ UNCHANGED <<queueVars, regVars>>

(* Mutant: whoever finds the register empty writes to it, queue or not *)
LookAtQueue_NotLooked == pc = "queue" /\ Goto("register") /\ UNCHANGED <<queueVars, regVars>>
isWriteFinished == isEmpty /\ isTransmitRegisterEmpty

(* write asks isWriteFinished(), in the order of its two reads *)
LookAtQueue ==
    /\ pc = "queue"
    /\ Goto(IF isEmpty THEN "register" ELSE "push")
    /\ UNCHANGED <<queueVars, regVars>>
LookAtRegister ==
    /\ pc = "register"
    /\ Goto(IF isTransmitRegisterEmpty THEN "direct" ELSE "push")
    /\ UNCHANGED <<queueVars, regVars>>

WriteDirect ==
    /\ pc = "direct"
    /\ dr' = char
    /\ Returns
    /\ UNCHANGED <<queueVars, line, txie>>

(* push: it fails, and the wrapper calls write again *)
PushFull ==
    /\ pc = "push" /\ isFull
    /\ Goto("queue")
    /\ UNCHANGED <<queueVars, regVars>>
PushStore ==
    /\ pc = "push" /\ ~isFull
    /\ store(char)
    /\ Goto("publish")
    /\ UNCHANGED regVars
PushPublish ==
    /\ pc = "publish"
    /\ publish
    /\ Goto("enable")
    /\ UNCHANGED regVars

(* Mutant: the interrupt is left as it is *)
EnableTxEmpty_Forgotten == pc = "enable" /\ Returns /\ UNCHANGED <<queueVars, regVars>>
EnableTxEmpty ==
    /\ pc = "enable"
    /\ txie' = TRUE
    /\ Returns
    /\ UNCHANGED <<queueVars, dr, line>>

-----------------------------------------------------------------------------
(* flushWriteBuffer: isWriteFinished() again and again *)

Flush ==
    /\ pc = "idle"
    /\ Goto("flush")
    /\ UNCHANGED <<queueVars, regVars>>
FlushQueue ==
    /\ pc = "flush" /\ isEmpty
    /\ Goto("flushed")
    /\ UNCHANGED <<queueVars, regVars>>
FlushRegister ==
    /\ pc = "flushed"
    /\ Goto(IF isTransmitRegisterEmpty THEN "idle" ELSE "flush")
    /\ UNCHANGED <<queueVars, regVars>>

-----------------------------------------------------------------------------
(* discardTransmitBuffer: the interrupt is off before the first pop, since   *)
(* it would pop, too                                                         *)

discardTransmitBuffer ==
    /\ pc = "idle"
    /\ txie' = FALSE
    /\ Goto("discard")
    /\ UNCHANGED <<queueVars, dr, line>>
DiscardPop ==
    /\ pc = "discard" /\ ~isEmpty
    /\ pop
    /\ UNCHANGED <<regVars, callVars>>
DiscardEnds ==
    /\ pc = "discard" /\ isEmpty
    /\ Goto("idle")
    /\ UNCHANGED <<queueVars, regVars>>

InCall ==
    \/ LookAtQueue \/ LookAtRegister \/ WriteDirect
    \/ PushFull \/ PushStore \/ PushPublish \/ EnableTxEmpty
    \/ FlushQueue \/ FlushRegister
    \/ DiscardPop \/ DiscardEnds

-----------------------------------------------------------------------------
(* The interrupt, pending as long as it is enabled and the register empty *)
Pended == txie /\ isTransmitRegisterEmpty

TransmitNext ==
    /\ Pended /\ ~isEmpty
    /\ dr' = get
    /\ pop
    /\ UNCHANGED <<line, txie, callVars>>
TransmitEnds ==
    /\ Pended /\ isEmpty
    /\ txie' = FALSE
    /\ UNCHANGED <<queueVars, dr, line, callVars>>

(* The transmitter takes the next byte *)
Shift ==
    /\ dr # Zero
    /\ line' = <<dr>> /\ dr' = Zero
    /\ UNCHANGED <<queueVars, txie, callVars>>

Interrupt == TransmitNext \/ TransmitEnds

Next == Write \/ Flush \/ discardTransmitBuffer \/ InCall \/ Interrupt \/ Shift

-----------------------------------------------------------------------------
TypeOK ==
    /\ QueueOK
    /\ dr \in Byte \cup {Zero} /\ txie \in BOOLEAN
    /\ line = <<>> \/ \E b \in Byte : line = <<b>>
    /\ pc \in {"idle", "queue", "register", "direct", "push", "publish", "enable",
               "flush", "flushed", "discard"}
    /\ char \in Byte \cup {Zero}

(* No byte is left behind: between two calls, whatever the interrupt did    *)
(* during them, a byte in the queue has an interrupt coming that sends it.   *)
NoneStranded == pc \in {"idle", "queue", "register", "flush"} /\ ~isEmpty => txie

(* Written and not yet in the shift register; what is being discarded counts *)
(* as gone at once.                                                         *)
writing == pc \in {"queue", "register", "direct", "push", "publish", "enable"}
Pending ==
    (IF dr = Zero THEN <<>> ELSE <<dr>>)
        \o (IF pc = "discard" THEN <<>> ELSE Stored)
        \o (IF writing /\ pc # "enable" THEN <<char>> ELSE <<>>)
=============================================================================
