------------------------------- MODULE SpiDma -------------------------------
(***************************************************************************)
(* SpiMaster3_Dma::transfer(tx, rx, length), as controller::update calls it  *)
(* again and again, with the two DMA streams and their interrupts, the SPI   *)
(* and the chip select.  Statements of the fiber, interrupts, DMA beats and  *)
(* the shifting of bytes interleave.  Three orders come from the hardware:   *)
(*   - a pending interrupt runs before the fiber's next statement (transfer  *)
(*     masks none);                                                          *)
(*   - a DMA request waits for at most MaxLag statements of the fiber;       *)
(*   - shifting a byte takes longer than a DMA beat.                         *)
(***************************************************************************)
EXTENDS Integers

CONSTANTS
    Length,     \* controller::buffer_size
    MaxLag,     \* see above
    MaxErrors   \* bound of the bus errors the DMA meets

ASSUME SpiAssumption == Length \in Nat \ {0} /\ MaxLag \in Nat /\ MaxErrors \in Nat

VARIABLES
    pc,         \* next statement of the fiber
    cs,         \* chip select, "high" or "low"
    dmaError, dmaTransmitComplete, dmaReceiveComplete,
    requests,   \* the streams whose requests CR2 of the SPI lets through
    clock,      \* the DMA controller is enabled in the RCC
    stream,     \* the registers of the two DMA streams
    txdr,       \* the transmit register holds a byte
    shift,      \* a byte is being shifted (the Busy flag)
    rxdr,       \* the receive register holds a byte
    sent,       \* bytes shifted out since the chip select fell
    lag,        \* statements executed while a request was waiting
    errors      \* bus errors so far

flags  == <<dmaError, dmaTransmitComplete, dmaReceiveComplete>>
spi    == <<txdr, shift, rxdr, sent>>
spiVars == <<pc, cs, flags, requests, clock, stream, spi, lag, errors>>

Stream == {"rx", "tx"}
Stopped == [en |-> FALSE, left |-> 0, tc |-> FALSE, te |-> FALSE]

Init ==
    /\ pc = "cs_low" /\ cs = "high"
    /\ dmaError = FALSE /\ dmaTransmitComplete = FALSE /\ dmaReceiveComplete = FALSE
    /\ requests = {}
    /\ clock = TRUE
    /\ stream = [s \in Stream |-> Stopped]
    /\ txdr = FALSE /\ shift = FALSE /\ rxdr = FALSE /\ sent = 0
    /\ lag = 0 /\ errors = 0

-----------------------------------------------------------------------------
(* The hardware *)

(* A beat of stream s is due *)
Due(s) ==
    /\ clock /\ s \in requests /\ stream[s].en
    /\ IF s = "tx" THEN ~txdr ELSE rxdr

(* After one unit fewer: at zero the stream disables itself and raises TC *)
Counted(r) == [r EXCEPT !.left = @ - 1, !.en = (r.left # 1), !.tc = (r.left = 1)]

(* The DMA writes the next byte of the buffer to the SPI, which takes it to *)
(* the shift register at once if that is free.                              *)
TxBeat ==
    /\ Due("tx")
    /\ stream' = [stream EXCEPT !["tx"] = Counted(@)]
    /\ shift' = TRUE /\ txdr' = shift
    /\ UNCHANGED <<pc, cs, flags, requests, clock, rxdr, sent, lag, errors>>

RxBeat ==
    /\ Due("rx")
    /\ stream' = [stream EXCEPT !["rx"] = Counted(@)]
    /\ rxdr' = FALSE
    /\ UNCHANGED <<pc, cs, flags, requests, clock, txdr, shift, sent, lag, errors>>

(* A byte is out, another one in its place is in; the next one follows *)
ShiftDone ==
    /\ shift /\ \A s \in Stream : ~Due(s)
    /\ sent' = sent + 1
    /\ rxdr' = TRUE
    /\ shift' = txdr /\ txdr' = FALSE
    /\ UNCHANGED <<pc, cs, flags, requests, clock, stream, lag, errors>>

(* A beat fails: the stream disables itself and raises TE *)
BusError(s) ==
    /\ errors < MaxErrors /\ Due(s)
    /\ errors' = errors + 1
    /\ stream' = [stream EXCEPT ![s].en = FALSE, ![s].te = TRUE]
    /\ UNCHANGED <<pc, cs, flags, requests, clock, spi, lag>>

-----------------------------------------------------------------------------
(* DmaController::Channel::interruptHandler of stream s and the handlers    *)
(* that SpiMaster3_Dma registered with it                                   *)

Pending(s) == clock /\ (stream[s].tc \/ stream[s].te)

(* handleDmaReceiveComplete, handleDmaTransmitComplete *)
TransferComplete(s) ==
    /\ Pending(s) /\ ~stream[s].te
    /\ stream' = [stream EXCEPT ![s].en = FALSE, ![s].tc = FALSE]
    /\ IF s = "tx"
       THEN dmaTransmitComplete' = TRUE /\ UNCHANGED dmaReceiveComplete
       ELSE dmaReceiveComplete' = TRUE /\ UNCHANGED dmaTransmitComplete
    /\ UNCHANGED <<pc, cs, dmaError, requests, clock, spi, lag, errors>>

(* disable() is DmaController::disable(): it takes the clock from the whole *)
(* controller.  What follows, handleDmaTransferError and the clearing of    *)
(* the flags, finds the registers of the DMA without clock: writes are      *)
(* lost, reads give 0, so stop() does not wait.                             *)
TransferError(s) ==
    /\ Pending(s) /\ stream[s].te
    /\ clock' = FALSE
    /\ requests' = {}
    /\ dmaError' = TRUE
    /\ UNCHANGED <<pc, cs, dmaTransmitComplete, dmaReceiveComplete, stream, spi, lag, errors>>

Interrupt == \E s \in Stream : TransferComplete(s) \/ TransferError(s)

-----------------------------------------------------------------------------
(* The fiber *)

(* The statement at `from` runs, and the fiber goes on at `to` *)
Statement(from, to) ==
    /\ pc = from /\ pc' = to
    /\ \A s \in Stream : ~Pending(s)
    /\ IF \E s \in Stream : Due(s) THEN lag < MaxLag /\ lag' = lag + 1 ELSE lag' = 0
    /\ UNCHANGED <<txdr, shift, rxdr, errors>>

(* CS::reset() and dmaError = false; no stream runs *)
Begin ==
    /\ Statement("cs_low", "enable")
    /\ cs' = "low" /\ sent' = 0
    /\ dmaError' = FALSE
    /\ UNCHANGED <<dmaTransmitComplete, dmaReceiveComplete, requests, clock, stream>>

(* Mutant: only the transmitting stream gets its requests *)
EnableRequests_TxOnly ==
    /\ Statement("enable", "rx_length")
    /\ requests' = {"tx"}
    /\ UNCHANGED <<cs, flags, clock, stream, sent>>

EnableRequests ==
    /\ Statement("enable", "rx_length")
    /\ requests' = Stream
    /\ UNCHANGED <<cs, flags, clock, stream, sent>>

(* Mutants: the length is one short; one too long *)
SetDataLength_Short(s, from, to) ==
    /\ Statement(from, to)
    /\ stream' = [stream EXCEPT ![s].left = IF clock /\ ~stream[s].en THEN Length - 1 ELSE @]
    /\ UNCHANGED <<cs, flags, requests, clock, sent>>
SetDataLength_Long(s, from, to) ==
    /\ Statement(from, to)
    /\ stream' = [stream EXCEPT ![s].left = IF clock /\ ~stream[s].en THEN Length + 1 ELSE @]
    /\ UNCHANGED <<cs, flags, requests, clock, sent>>

(* setDataLength: NDTR cannot be written while the stream is enabled *)
SetDataLength(s, from, to) ==
    /\ Statement(from, to)
    /\ stream' = [stream EXCEPT ![s].left = IF clock /\ ~stream[s].en THEN Length ELSE @]
    /\ UNCHANGED <<cs, flags, requests, clock, sent>>

ClearReceive ==
    /\ Statement("rx_clear", "rx_start")
    /\ dmaReceiveComplete' = FALSE
    /\ UNCHANGED <<cs, dmaError, dmaTransmitComplete, requests, clock, stream, sent>>

ClearTransmit ==
    /\ Statement("tx_clear", "tx_start")
    /\ dmaTransmitComplete' = FALSE
    /\ UNCHANGED <<cs, dmaError, dmaReceiveComplete, requests, clock, stream, sent>>

(* Channel::start: the flags are cleared and the stream is enabled *)
StartStream(s, from, to) ==
    /\ Statement(from, to)
    /\ stream' = IF clock
                 THEN [stream EXCEPT ![s].tc = FALSE, ![s].te = FALSE, ![s].en = (stream[s].left > 0)]
                 ELSE stream
    /\ UNCHANGED <<cs, flags, requests, clock, sent>>

(* The loop; where it yields it goes back to its first condition *)
LoopError_Ignored == FALSE                      \* mutant: no break on an error
LoopDone_NotBusy  == Statement("busy", "disable") \* mutant: Busy is not looked at
LoopError  == dmaError /\ Statement("loop", "disable")
LoopYield  == ~dmaError /\ ~dmaTransmitComplete /\ ~dmaReceiveComplete /\ Statement("loop", "loop")
LoopFlags  == ~dmaError /\ (dmaTransmitComplete \/ dmaReceiveComplete) /\ Statement("loop", "busy")
LoopBusy   == shift /\ Statement("busy", "loop")
LoopDone   == ~shift /\ Statement("busy", "disable")
Loop ==
    /\ LoopError \/ LoopYield \/ LoopFlags \/ LoopBusy \/ LoopDone
    /\ UNCHANGED <<cs, flags, requests, clock, stream, sent>>

DisableRequests ==
    /\ Statement("disable", "cs_high")
    /\ requests' = {}
    /\ UNCHANGED <<cs, flags, clock, stream, sent>>

(* CS::set(); the sleep until the next frame is not modelled *)
End ==
    /\ Statement("cs_high", "cs_low")
    /\ cs' = "high"
    /\ UNCHANGED <<flags, requests, clock, stream, sent>>

Fiber ==
    \/ Begin \/ EnableRequests
    \/ SetDataLength("rx", "rx_length", "rx_clear") \/ ClearReceive
    \/ StartStream("rx", "rx_start", "tx_length")
    \/ SetDataLength("tx", "tx_length", "tx_clear") \/ ClearTransmit
    \/ StartStream("tx", "tx_start", "loop")
    \/ Loop \/ DisableRequests \/ End

Hardware == TxBeat \/ RxBeat \/ ShiftDone

Next == Fiber \/ Interrupt \/ Hardware \/ (\E s \in Stream : BusError(s))

Spec ==
    /\ Init /\ [][Next]_spiVars
    /\ WF_spiVars(Fiber) /\ WF_spiVars(Interrupt) /\ WF_spiVars(Hardware)

-----------------------------------------------------------------------------
Labels == {"cs_low", "enable", "rx_length", "rx_clear", "rx_start", "tx_length", "tx_clear",
           "tx_start", "loop", "busy", "disable", "cs_high"}

TypeOK ==
    /\ pc \in Labels
    /\ cs \in {"high", "low"}
    /\ dmaError \in BOOLEAN /\ dmaTransmitComplete \in BOOLEAN /\ dmaReceiveComplete \in BOOLEAN
    /\ requests \subseteq Stream
    /\ clock \in BOOLEAN
    /\ stream \in [Stream -> [en : BOOLEAN, left : 0..Length, tc : BOOLEAN, te : BOOLEAN]]
    /\ txdr \in BOOLEAN /\ shift \in BOOLEAN /\ rxdr \in BOOLEAN
    /\ sent \in 0..Length
    /\ lag \in 0..MaxLag
    /\ errors \in 0..MaxErrors

(* The chip select rises, and so the boards latch, only when every byte of *)
(* the frame has been shifted out, although the loop waits for one of the   *)
(* two streams only; and no byte is left over for the next frame.           *)
FrameComplete ==
    (pc \in {"disable", "cs_high"} /\ ~dmaError) => sent = Length /\ ~shift /\ ~txdr

(* When a transfer returns, both of its streams have run to their end and   *)
(* no received byte waits: nothing is left that could raise the completion  *)
(* flags of the next transfer early.                                        *)
NothingLeftOver ==
    (pc \in {"cs_low", "enable"} /\ errors = 0) =>
        ~rxdr /\ \A s \in Stream : ~stream[s].en /\ stream[s].left = 0 /\ ~stream[s].tc

(* Every transfer returns until a bus error happens, and the one that is    *)
(* hit returns too.  (The next one does not: its streams have no clock.)    *)
ErrorEndsTransfer ==
    /\ dmaError ~> cs = "high"
    /\ cs = "low" ~> (cs = "high" \/ errors > 0)

(* "In case of error the DMA channel will be disabled" (dma.hpp:259): the   *)
(* channel, so that the next transfer finds a controller that works.        *)
ErrorDisablesChannelOnly == dmaError => clock

(* Bytes that the DMA has read and that are not out yet *)
InFlight == (IF shift THEN 1 ELSE 0) + (IF txdr THEN 1 ELSE 0)

(* Until a bus error happens the transfer keeps the contract that           *)
(* Expander.tla builds on: each byte is read once, and the call returns     *)
(* after the last.                                                          *)
Contract == INSTANCE ByteTransfer WITH
    phase <- IF pc = "cs_low" THEN "idle" ELSE "busy",
    read <- sent + InFlight
KeepsContract ==
    /\ Contract!Init
    /\ [][(errors' = 0) => (Contract!Next \/ UNCHANGED Contract!vars)]_spiVars
=============================================================================
