----------------------------- MODULE LogDevice -----------------------------
(***************************************************************************)
(* io/iodevice_wrapper.hpp: the log streams write through a wrapper that      *)
(* makes an IODevice of a peripheral and repeats a write that the peripheral *)
(* refused.  The peripheral is a template parameter: the program takes Itm,  *)
(* and its board also sets up the UART, which takes the same place.  Which   *)
(* one it is does not change while the program runs.                        *)
(***************************************************************************)
EXTENDS AtomicQueue

CONSTANT ItmSize    \* capacity of the queue of Itm; N is the one of Uart

ASSUME ItmAssumption == ItmSize \in Nat \ {0}

VARIABLES
    Device,                             \* the template parameter
    pc, char,                           \* the call, as in Itm and Uart
    word, size, port, busy, enabled,    \* of Itm
    dr, line, txie                      \* of Uart

itmVars  == <<word, size, port, busy, enabled>>
uartVars == <<dr, line, txie>>
logVars  == <<queueVars, pc, char, Device, itmVars, uartVars>>

Itm  == INSTANCE Itm WITH N <- ItmSize
Uart == INSTANCE Uart

LogInit ==
    /\ Device \in {"Itm", "Uart"}
    /\ IF Device = "Itm" THEN Itm!QueueInit ELSE Uart!QueueInit
    /\ Itm!DeviceInit /\ Uart!DeviceInit
    /\ Device = "Uart" => ~enabled

LogNext ==
    /\ UNCHANGED Device
    /\ \/ Device = "Itm" /\ Itm!Next /\ UNCHANGED uartVars
       \/ Device = "Uart" /\ Uart!Next /\ UNCHANGED itmVars

(* In each device a call goes on, and the hardware takes what it is given *)
LogSpec ==
    /\ LogInit /\ [][LogNext]_logVars
    /\ WF_logVars(Device = "Itm" /\ Itm!InCall /\ UNCHANGED <<Device, uartVars>>)
    /\ WF_logVars(Device = "Itm" /\ Itm!Drain /\ UNCHANGED <<Device, uartVars>>)
    /\ WF_logVars(Device = "Uart" /\ Uart!InCall /\ UNCHANGED <<Device, itmVars>>)
    /\ WF_logVars(Device = "Uart" /\ Uart!Interrupt /\ UNCHANGED <<Device, itmVars>>)
    /\ WF_logVars(Device = "Uart" /\ Uart!Shift /\ UNCHANGED <<Device, itmVars>>)

-----------------------------------------------------------------------------
TypeOK == IF Device = "Itm" THEN Itm!TypeOK ELSE Uart!TypeOK

Pending == IF Device = "Itm" THEN Itm!Pending ELSE Uart!Pending

Stream == INSTANCE ByteStream WITH
    pending <- Pending,
    writing <- IF Device = "Itm" THEN Itm!writing ELSE Uart!writing,
    sent    <- IF Device = "Itm" THEN port ELSE line,
    traced  <- Device = "Uart" \/ enabled

(* Whichever device it is, with a debugger that comes and goes or a transmit *)
(* interrupt between any two statements: bytes leave in their order, none    *)
(* twice, none is lost while somebody listens, and no call of write returns  *)
(* before its byte is stored.                                               *)
ImplementsStream == Stream!Spec

(* A log statement returns: the wrapper's loop does not hold up the fibers   *)
(* for ever, as long as the hardware sends what it has.                      *)
CallsReturn == pc # "idle" ~> pc = "idle"

(* The UART leaves no byte behind without an interrupt that will send it *)
NoneStranded == Device = "Uart" => Uart!NoneStranded

(* uart.hpp:105, of isWriteFinished: "`true` if the buffer is empty and    *)
(* the last byte has been sent"                                             *)
FinishedMeansSent ==
    LET finished == IF Device = "Itm" THEN Itm!isWriteFinished ELSE Uart!isWriteFinished
    IN pc = "idle" /\ finished => Pending = <<>>
=============================================================================
