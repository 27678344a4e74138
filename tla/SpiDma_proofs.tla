---------------------------- MODULE SpiDma_proofs ----------------------------
(* Theorems about the transfers over DMA, for any number of bytes and any    *)
(* number of bus errors, where a request of the DMA waits for at most one     *)
(* statement of the fiber                                                    *)
EXTENDS SpiDma, TLAPS

Bit(b) == IF b THEN 1 ELSE 0

rx == stream["rx"]
tx == stream["tx"]

Idle(r) == ~r.en /\ r.left = 0 /\ ~r.tc /\ ~r.te
Quiet   == ~shift /\ ~txdr /\ ~rxdr

(* Before the frame: all is as the transfer before has left it *)
Before ==
    pc \in {"cs_low", "enable", "rx_length"} =>
        Idle(rx) /\ Idle(tx) /\ Quiet

(* The receiving stream is set up and started first, and waits *)
ReceiveSetUp ==
    pc \in {"rx_clear", "rx_start", "tx_length", "tx_clear", "tx_start"} =>
        /\ Quiet /\ sent = 0
        /\ rx.left = Length /\ ~rx.tc /\ ~rx.te
        /\ rx.en <=> pc \notin {"rx_clear", "rx_start"}
        /\ pc # "rx_clear" => ~dmaReceiveComplete
TransmitSetUp ==
    /\ pc \in {"rx_clear", "rx_start", "tx_length"} => Idle(tx)
    /\ pc \in {"tx_clear", "tx_start"} => tx.left = Length /\ ~tx.en /\ ~tx.tc /\ ~tx.te
    /\ pc = "tx_start" => ~dmaTransmitComplete

(* While the frame runs every byte is either to be read, in flight or out,   *)
(* and every byte that is out is either received or in the receive register, *)
(* unless an error has stopped the receiver.                                 *)
Conserved == sent + Bit(shift) + Bit(txdr) + tx.left = Length /\ (txdr => shift)
Received  == ~rx.te => sent + rx.left = Length + Bit(rxdr)

(* A stream runs as long as it has something to do, and a completion flag   *)
(* means that it has counted down to its end.                               *)
Counting ==
    \A q \in Stream : /\ stream[q].tc => stream[q].left = 0
                      /\ stream[q].en => stream[q].left > 0
                      /\ ~stream[q].te /\ stream[q].left > 0 => stream[q].en
Flagged == (dmaReceiveComplete => rx.left = 0) /\ (dmaTransmitComplete => tx.left = 0)

(* The loop ends with the last byte out; it may still have to be received *)
Leaving ==
    /\ pc = "busy" => dmaReceiveComplete \/ dmaTransmitComplete
    /\ pc = "disable" => tx.left = 0 /\ ~shift /\ (Due("rx") => lag >= MaxLag)

Running ==
    pc \in {"loop", "busy", "disable"} => Conserved /\ Received /\ Counting /\ Flagged /\ Leaving

After == pc = "cs_high" => Idle(rx) /\ Idle(tx) /\ Quiet /\ sent = Length

Alive ==
    clock =>
        /\ ~dmaError
        /\ requests = IF pc \in {"cs_low", "enable", "cs_high"} THEN {} ELSE Stream
        /\ sent = 0 \/ pc \notin {"enable", "rx_length"}
        /\ Before /\ ReceiveSetUp /\ TransmitSetUp /\ Running /\ After

(* Without clock no stream ever runs again: the transfer that was hit ends,  *)
(* and the next one stays in its loop.                                       *)
Dead ==
    ~clock =>
        /\ errors > 0
        /\ sent + Bit(shift) + Bit(txdr) + tx.left <= Length
        /\ dmaError => pc \in {"loop", "busy", "disable", "cs_high", "cs_low"}
        /\ ~dmaError =>
              /\ pc \notin {"busy", "disable", "cs_high", "cs_low"}
              /\ pc \in {"rx_start", "tx_length", "tx_clear", "tx_start", "loop"} => ~dmaReceiveComplete
              /\ pc \in {"tx_start", "loop"} => ~dmaTransmitComplete

IInv == TypeOK /\ Alive /\ Dead /\ (\A s \in Stream : stream[s].te => errors > 0)

-----------------------------------------------------------------------------
StreamType == [en : BOOLEAN, left : 0..Length, tc : BOOLEAN, te : BOOLEAN]

LEMMA Fields ==
    ASSUME TypeOK
    PROVE  /\ Length \in Nat \ {0} /\ MaxLag \in Nat /\ MaxErrors \in Nat
           /\ rx \in StreamType /\ tx \in StreamType
           /\ rx.left \in 0..Length /\ tx.left \in 0..Length
           /\ stream \in [Stream -> StreamType]
BY SpiAssumption DEF TypeOK, rx, tx, Stream, StreamType

LEMMA InitInv == Init => IInv
<1> SUFFICES ASSUME Init PROVE IInv
  OBVIOUS
<1>1. rx = Stopped /\ tx = Stopped /\ stream \in [Stream -> StreamType]
  BY SpiAssumption DEF Init, rx, tx, Stream, Stopped, StreamType
<1>2. TypeOK
  <2>1. stream \in [Stream -> [en : BOOLEAN, left : 0..Length, tc : BOOLEAN, te : BOOLEAN]]
    BY <1>1 DEF StreamType
  <2>2. sent \in 0..Length /\ lag \in 0..MaxLag /\ errors \in 0..MaxErrors
    BY SpiAssumption DEF Init
  <2>3. pc \in Labels /\ cs \in {"high", "low"} /\ requests \subseteq Stream
    BY DEF Init, Labels
  <2> QED  BY <2>1, <2>2, <2>3 DEF Init, TypeOK
<1>3. \A s \in Stream : stream[s].te => errors > 0
  BY DEF Init, Stopped
<1>4. Alive
  BY <1>1 DEF Init, Alive, Before, ReceiveSetUp, TransmitSetUp, Running, Conserved, Received, Counting, Flagged, Leaving, After, Idle, Quiet, Stopped
<1>5. Dead
  BY DEF Init, Dead
<1> QED  BY <1>2, <1>3, <1>4, <1>5 DEF IInv

(* A step that writes the registers of one stream *)
LEMMA OneStream ==
    ASSUME TypeOK, NEW s \in Stream, NEW r \in StreamType, stream' = [stream EXCEPT ![s] = r]
    PROVE  /\ stream' \in [Stream -> StreamType]
           /\ stream'[s] = r
           /\ \A q \in Stream : q # s => stream'[q] = stream[q]
BY Fields

LEMMA CountedFields ==
    ASSUME NEW r \in StreamType, r.left > 0, Length \in Nat
    PROVE  /\ Counted(r) \in StreamType
           /\ Counted(r).left = r.left - 1
           /\ Counted(r).en = (r.left # 1) /\ Counted(r).tc = (r.left = 1)
           /\ Counted(r).te = r.te
<1>1. r.left - 1 \in 0..Length /\ (r.left # 1) \in BOOLEAN /\ (r.left = 1) \in BOOLEAN /\ r.te \in BOOLEAN
  BY DEF StreamType
<1>2. Counted(r).left = r.left - 1
  BY DEF Counted, StreamType
<1>3. Counted(r).en = (r.left # 1)
  BY DEF Counted, StreamType
<1>4. Counted(r).tc = (r.left = 1)
  BY DEF Counted, StreamType
<1>5. Counted(r).te = r.te
  BY DEF Counted, StreamType
<1>6. Counted(r) \in StreamType
  BY <1>1 DEF Counted, StreamType
<1> QED  BY <1>2, <1>3, <1>4, <1>5, <1>6

(* The hardware *)

LEMMA TxBeatInv == IInv /\ TxBeat => IInv'
<1> SUFFICES ASSUME IInv, TxBeat PROVE IInv'
  OBVIOUS
<1>0. /\ TypeOK /\ Length \in Nat \ {0} /\ rx \in StreamType /\ tx \in StreamType
      /\ rx.left \in 0..Length /\ tx.left \in 0..Length
  BY Fields DEF IInv
<1>1. clock /\ tx.en /\ ~txdr /\ requests # {} /\ stream' = [stream EXCEPT !["tx"] = Counted(tx)]
  BY DEF TxBeat, Due, tx
<1>2. pc \in {"loop", "busy", "disable"}
  BY <1>0, <1>1 DEF IInv, TypeOK, Alive, Before, TransmitSetUp, After, Idle, Labels
<1>3. tx.left > 0 /\ pc # "disable"
  BY <1>0, <1>1, <1>2 DEF IInv, Alive, Running, Conserved, Received, Counting, Flagged, Leaving, tx, Stream
<1>4. /\ Counted(tx) \in StreamType /\ Counted(tx).left = tx.left - 1
      /\ Counted(tx).en = (tx.left # 1) /\ Counted(tx).tc = (tx.left = 1) /\ Counted(tx).te = tx.te
  BY <1>0, <1>3, CountedFields
<1>5. /\ stream' \in [Stream -> StreamType]
      /\ tx' = Counted(tx) /\ rx' = rx
  BY <1>0, <1>1, <1>4, OneStream DEF Stream, tx, rx
<1>6. /\ shift' = TRUE /\ txdr' = shift
      /\ UNCHANGED <<pc, cs, flags, requests, clock, rxdr, sent, lag, errors>>
  BY DEF TxBeat
<1>7. TypeOK'
  BY <1>0, <1>5, <1>6 DEF flags, TypeOK, StreamType
<1>8. Running'
  BY <1>0, <1>1, <1>2, <1>3, <1>4, <1>5, <1>6 DEF IInv, Alive, Running, Conserved, Received, Counting, Flagged, Leaving, flags, Bit, tx, rx, Stream, TypeOK, StreamType
<1>9. Alive'
  BY <1>1, <1>2, <1>6, <1>8 DEF IInv, Alive, Before, ReceiveSetUp, TransmitSetUp, After, flags
<1>10. Dead'
  BY <1>1, <1>6 DEF Dead
<1>11. \A s \in Stream : stream'[s].te => errors' > 0
  BY <1>4, <1>5, <1>6 DEF IInv, Stream, tx, rx
<1> QED  BY <1>7, <1>9, <1>10, <1>11 DEF IInv

LEMMA RxBeatInv == IInv /\ RxBeat => IInv'
<1> SUFFICES ASSUME IInv, RxBeat PROVE IInv'
  OBVIOUS
<1>0. /\ TypeOK /\ Length \in Nat \ {0} /\ rx \in StreamType /\ tx \in StreamType
      /\ rx.left \in 0..Length /\ tx.left \in 0..Length
  BY Fields DEF IInv
<1>1. clock /\ rx.en /\ rxdr /\ requests # {} /\ stream' = [stream EXCEPT !["rx"] = Counted(rx)]
  BY DEF RxBeat, Due, rx
<1>2. pc \in {"loop", "busy", "disable"}
  BY <1>0, <1>1 DEF IInv, TypeOK, Alive, Before, ReceiveSetUp, After, Idle, Quiet, Labels
<1>3. rx.left > 0
  BY <1>0, <1>1, <1>2 DEF IInv, Alive, Running, Conserved, Received, Counting, Flagged, Leaving, rx, Stream
<1>4. /\ Counted(rx) \in StreamType /\ Counted(rx).left = rx.left - 1
      /\ Counted(rx).en = (rx.left # 1) /\ Counted(rx).tc = (rx.left = 1) /\ Counted(rx).te = rx.te
  BY <1>0, <1>3, CountedFields
<1>5. /\ stream' \in [Stream -> StreamType]
      /\ rx' = Counted(rx) /\ tx' = tx
  BY <1>0, <1>1, <1>4, OneStream DEF Stream, tx, rx
<1>6. /\ rxdr' = FALSE
      /\ UNCHANGED <<pc, cs, flags, requests, clock, txdr, shift, sent, lag, errors>>
  BY DEF RxBeat
<1>7. TypeOK'
  BY <1>0, <1>5, <1>6 DEF flags, TypeOK, StreamType
<1>8. Running'
  BY <1>0, <1>1, <1>2, <1>3, <1>4, <1>5, <1>6
     DEF IInv, Alive, Running, Conserved, Received, Counting, Flagged, Leaving, flags, Bit, tx, rx, Stream, TypeOK, StreamType, Due
<1>9. Alive'
  BY <1>1, <1>2, <1>6, <1>8 DEF IInv, Alive, Before, ReceiveSetUp, TransmitSetUp, After, flags
<1>10. Dead'
  BY <1>1, <1>6 DEF Dead
<1>11. \A s \in Stream : stream'[s].te => errors' > 0
  BY <1>4, <1>5, <1>6 DEF IInv, Stream, tx, rx
<1> QED  BY <1>7, <1>9, <1>10, <1>11 DEF IInv

LEMMA ShiftDoneInv == IInv /\ ShiftDone => IInv'
<1> SUFFICES ASSUME IInv, ShiftDone PROVE IInv'
  OBVIOUS
<1>0. /\ TypeOK /\ Length \in Nat \ {0} /\ rx \in StreamType /\ tx \in StreamType
      /\ rx.left \in 0..Length /\ tx.left \in 0..Length
  BY Fields DEF IInv
<1>1. /\ shift /\ sent' = sent + 1 /\ rxdr' = TRUE /\ shift' = txdr /\ txdr' = FALSE
      /\ ~Due("rx")
      /\ UNCHANGED <<pc, cs, flags, requests, clock, stream, lag, errors>>
  BY DEF ShiftDone, Stream
<1>2. UNCHANGED <<rx, tx>>
  BY <1>1 DEF rx, tx
<1>3. CASE clock
  <2>1. pc \in {"loop", "busy"}
    BY <1>0, <1>1, <1>3 DEF IInv, TypeOK, Alive, Before, ReceiveSetUp, After, Quiet, Labels, Running, Conserved, Received, Counting, Flagged, Leaving
  <2>2. sent + 1 + Bit(txdr) + tx.left = Length
    BY <1>1, <1>3, <2>1 DEF IInv, Alive, Running, Conserved, Received, Counting, Flagged, Leaving, Bit
  <2>3. ~rx.te => ~rxdr
    <3> SUFFICES ASSUME ~rx.te, rxdr PROVE FALSE
      OBVIOUS
    <3>1. ~rx.en
      BY <1>1, <1>3, <2>1 DEF IInv, Alive, Due, rx, Stream
    <3>2. rx.left = 0
      <4>1. ~rx.te /\ rx.left > 0 => rx.en
        BY <1>3, <2>1 DEF IInv, Alive, Running, Conserved, Received, Counting, Flagged, Leaving, rx, Stream
      <4> QED  BY <1>0, <3>1, <4>1
    <3>3. sent = Length + 1
      BY <1>0, <1>3, <2>1, <3>2 DEF IInv, Alive, Running, Conserved, Received, Counting, Flagged, Leaving, Bit, TypeOK
    <3> QED  BY <1>0, <3>3 DEF TypeOK
  <2>4. TypeOK'
    <3>1. sent + 1 \in 0..Length
      BY <1>0, <2>2 DEF TypeOK, Bit
    <3> QED  BY <1>0, <1>1, <3>1 DEF TypeOK, flags
  <2>5. Running'
    BY <1>0, <1>1, <1>2, <1>3, <2>1, <2>2, <2>3 DEF IInv, Alive, Running, Conserved, Received, Counting, Flagged, Leaving, Bit, flags, TypeOK, StreamType
  <2>6. Alive'
    BY <1>1, <1>3, <2>1, <2>5 DEF IInv, Alive, Before, ReceiveSetUp, TransmitSetUp, After, flags
  <2> QED  BY <1>1, <1>3, <2>4, <2>6 DEF IInv, Dead, flags
<1>4. CASE ~clock
  <2>1. sent + 1 + Bit(txdr) + tx.left <= Length
    BY <1>1, <1>4 DEF IInv, Dead, Bit
  <2>2. TypeOK'
    <3>1. sent + 1 \in 0..Length
      BY <1>0, <2>1 DEF TypeOK, Bit
    <3> QED  BY <1>0, <1>1, <3>1 DEF TypeOK, flags
  <2>3. Dead'
    BY <1>0, <1>1, <1>2, <1>4, <2>1 DEF IInv, Dead, flags, Bit, TypeOK, StreamType
  <2> QED  BY <1>1, <1>4, <2>2, <2>3 DEF IInv, Alive
<1> QED  BY <1>3, <1>4

LEMMA BusErrorInv == ASSUME NEW s \in Stream PROVE IInv /\ BusError(s) => IInv'
<1> SUFFICES ASSUME IInv, BusError(s) PROVE IInv'
  OBVIOUS
<1>0. /\ TypeOK /\ Length \in Nat \ {0} /\ MaxErrors \in Nat
      /\ rx \in StreamType /\ tx \in StreamType /\ stream[s] \in StreamType
      /\ rx.left \in 0..Length /\ tx.left \in 0..Length
  BY Fields DEF IInv
<1> DEFINE r == [stream[s] EXCEPT !.en = FALSE, !.te = TRUE]
<1>1. /\ clock /\ stream[s].en /\ requests # {} /\ errors < MaxErrors /\ errors' = errors + 1
      /\ stream' = [stream EXCEPT ![s] = r]
      /\ UNCHANGED <<pc, cs, flags, requests, clock, spi, lag>>
      /\ s = "rx" => rxdr
  BY DEF BusError, Due, Stream
<1>2. pc \in {"loop", "busy", "disable"}
  BY <1>0, <1>1 DEF IInv, TypeOK, Alive, Before, ReceiveSetUp, TransmitSetUp, After, Idle, Quiet, Labels, Stream, rx, tx
<1>3. r \in StreamType /\ ~r.en /\ r.te /\ r.left = stream[s].left /\ r.tc = stream[s].tc
  BY <1>0 DEF StreamType
<1>4. /\ stream' \in [Stream -> StreamType] /\ stream'[s] = r
      /\ \A q \in Stream : q # s => stream'[q] = stream[q]
  <2> HIDE DEF r
  <2> QED  BY <1>0, <1>1, <1>3, OneStream
<1> HIDE DEF r
<1>5. TypeOK'
  BY <1>0, <1>1, <1>4 DEF TypeOK, flags, spi, StreamType
<1>6. tx'.left = tx.left /\ rx'.left = rx.left /\ (rx'.te \/ rx' = rx) /\ (rx'.en => rx' = rx)
  BY <1>3, <1>4 DEF tx, rx, Stream
<1>7. Running'
  BY <1>0, <1>1, <1>2, <1>3, <1>4, <1>6 DEF IInv, Alive, Running, Conserved, Received, Counting, Flagged, Leaving, Due, flags, spi, rx, tx, Stream
<1>8. Alive'
  BY <1>1, <1>2, <1>7 DEF IInv, Alive, Before, ReceiveSetUp, TransmitSetUp, After, flags, spi
<1>9. errors' > 0
  BY <1>0, <1>1 DEF TypeOK
<1> QED  BY <1>1, <1>5, <1>8, <1>9 DEF IInv, Dead

(* The interrupts *)

LEMMA CompleteInv == ASSUME NEW s \in Stream PROVE IInv /\ TransferComplete(s) => IInv'
<1> SUFFICES ASSUME IInv, TransferComplete(s) PROVE IInv'
  OBVIOUS
<1>0. /\ TypeOK /\ Length \in Nat \ {0}
      /\ rx \in StreamType /\ tx \in StreamType /\ stream[s] \in StreamType
      /\ rx.left \in 0..Length /\ tx.left \in 0..Length
  BY Fields DEF IInv
<1> DEFINE r == [stream[s] EXCEPT !.en = FALSE, !.tc = FALSE]
<1>1. /\ clock /\ stream[s].tc /\ ~stream[s].te
      /\ stream' = [stream EXCEPT ![s] = r]
      /\ UNCHANGED <<pc, cs, dmaError, requests, clock, spi, lag, errors>>
      /\ s = "tx" => dmaTransmitComplete' = TRUE /\ UNCHANGED dmaReceiveComplete
      /\ s = "rx" => dmaReceiveComplete' = TRUE /\ UNCHANGED dmaTransmitComplete
  BY DEF TransferComplete, Pending, Stream
<1>2. pc \in {"loop", "busy", "disable"}
  BY <1>0, <1>1 DEF IInv, TypeOK, Alive, Before, ReceiveSetUp, TransmitSetUp, After, Idle, Quiet, Labels, Stream, rx, tx
<1>3. r \in StreamType /\ ~r.en /\ ~r.te /\ r.left = stream[s].left /\ ~r.tc
  BY <1>0, <1>1 DEF StreamType
<1>4. /\ stream' \in [Stream -> StreamType] /\ stream'[s] = r
      /\ \A q \in Stream : q # s => stream'[q] = stream[q]
  <2> HIDE DEF r
  <2> QED  BY <1>0, <1>1, <1>3, OneStream
<1> HIDE DEF r
<1>5. TypeOK'
  BY <1>0, <1>1, <1>4 DEF TypeOK, spi, StreamType, Stream
<1>6. stream[s].left = 0
  BY <1>1, <1>2 DEF IInv, Alive, Running, Conserved, Received, Counting, Flagged, Leaving
<1>7. tx'.left = tx.left /\ rx'.left = rx.left /\ (rx.te => rx'.te) /\ (rx'.en => rx.en)
  BY <1>1, <1>3, <1>4 DEF tx, rx, Stream
<1>8. Counting'
  BY <1>0, <1>1, <1>2, <1>3, <1>4, <1>6 DEF IInv, Alive, Running, Counting, Stream
<1>9. Flagged'
  BY <1>1, <1>2, <1>6, <1>7 DEF IInv, Alive, Running, Conserved, Received, Counting, Flagged, Leaving, rx, tx, Stream
<1>10. pc = "busy" => dmaReceiveComplete' \/ dmaTransmitComplete'
  BY <1>1, <1>2 DEF IInv, Alive, Running, Conserved, Received, Counting, Flagged, Leaving, Stream
<1>11. Due("rx")' => Due("rx")
  BY <1>1, <1>7 DEF Due, rx, spi
<1>12. Running'
  <2>1. Conserved'
    BY <1>1, <1>2, <1>7 DEF IInv, Alive, Running, Conserved, spi, Bit
  <2>2. Received'
    BY <1>1, <1>2, <1>7 DEF IInv, Alive, Running, Received, spi, Bit
  <2>4. Leaving'
    BY <1>1, <1>2, <1>7, <1>10, <1>11 DEF IInv, Alive, Running, Leaving, spi
  <2> QED  BY <2>1, <2>2, <2>4, <1>8, <1>9 DEF Running
<1>13. Alive'
  BY <1>1, <1>2, <1>12 DEF IInv, Alive, Before, ReceiveSetUp, TransmitSetUp, After, spi
<1>14. \A q \in Stream : stream'[q].te => errors' > 0
  BY <1>1, <1>3, <1>4 DEF IInv
<1> QED  BY <1>1, <1>5, <1>13, <1>14 DEF IInv, Dead

LEMMA ErrorInv == ASSUME NEW s \in Stream PROVE IInv /\ TransferError(s) => IInv'
<1> SUFFICES ASSUME IInv, TransferError(s) PROVE IInv'
  OBVIOUS
<1>0. /\ TypeOK /\ Length \in Nat \ {0} /\ rx \in StreamType /\ tx \in StreamType
      /\ rx.left \in 0..Length /\ tx.left \in 0..Length
  BY Fields DEF IInv
<1>1. /\ clock /\ stream[s].te /\ clock' = FALSE /\ requests' = {} /\ dmaError' = TRUE
      /\ UNCHANGED <<pc, cs, dmaTransmitComplete, dmaReceiveComplete, stream, spi, lag, errors>>
  BY DEF TransferError, Pending
<1>2. pc \in {"loop", "busy", "disable"}
  BY <1>0, <1>1 DEF IInv, TypeOK, Alive, Before, ReceiveSetUp, TransmitSetUp, After, Idle, Labels, Stream, rx, tx
<1>3. TypeOK'
  BY <1>0, <1>1 DEF TypeOK, spi
<1>4. errors > 0
  BY <1>1 DEF IInv
<1>5. sent + Bit(shift) + Bit(txdr) + tx.left <= Length
  BY <1>0, <1>1, <1>2 DEF IInv, Alive, Running, Conserved, Received, Counting, Flagged, Leaving, TypeOK, Bit, StreamType
<1>6. Dead'
  BY <1>1, <1>2, <1>4, <1>5 DEF Dead, spi, tx
<1> QED  BY <1>1, <1>3, <1>6 DEF IInv, Alive, spi

(* The fiber: a statement runs when no interrupt is pending *)
LEMMA StatementFacts ==
    ASSUME TypeOK, NEW from, NEW to, Statement(from, to)
    PROVE  /\ pc = from /\ pc' = to
           /\ lag' \in 0..MaxLag
           /\ UNCHANGED <<txdr, shift, rxdr, errors>>
           /\ clock => ~rx.tc /\ ~rx.te /\ ~tx.tc /\ ~tx.te
<1>1. lag' \in 0..MaxLag
  BY SpiAssumption DEF Statement, TypeOK
<1>2. clock => \A s \in Stream : ~stream[s].tc /\ ~stream[s].te
  BY DEF Statement, Pending
<1> QED  BY <1>1, <1>2 DEF Statement, rx, tx, Stream

(* What the invariant says depends on these only, but for pc and requests *)
LEMMA BeginInv == IInv /\ Begin => IInv'
<1> SUFFICES ASSUME IInv, Begin PROVE IInv'
  OBVIOUS
<1>0. TypeOK /\ Length \in Nat \ {0} /\ tx.left \in 0..Length
  BY Fields DEF IInv
<1>1. /\ pc = "cs_low" /\ pc' = "enable" /\ lag' \in 0..MaxLag
      /\ UNCHANGED <<txdr, shift, rxdr, errors>>
  BY <1>0, StatementFacts DEF Begin
<1>2. /\ cs' = "low" /\ sent' = 0 /\ dmaError' = FALSE
      /\ UNCHANGED <<dmaTransmitComplete, dmaReceiveComplete, requests, clock, stream, rx, tx>>
  BY DEF Begin, rx, tx
<1>3. TypeOK'
  <2>1. sent' \in 0..Length /\ pc' \in Labels
    BY <1>0, <1>1, <1>2 DEF Labels
  <2> QED  BY <1>0, <1>1, <1>2, <2>1 DEF TypeOK
<1>4. Alive'
  BY <1>1, <1>2 DEF IInv, Alive, Before, ReceiveSetUp, TransmitSetUp, Running, After, Quiet, Idle
<1>5. Dead'
  BY <1>0, <1>1, <1>2 DEF IInv, Dead, Bit, TypeOK
<1> QED  BY <1>1, <1>2, <1>3, <1>4, <1>5 DEF IInv

LEMMA EnableInv == IInv /\ EnableRequests => IInv'
<1> SUFFICES ASSUME IInv, EnableRequests PROVE IInv'
  OBVIOUS
<1>0. TypeOK /\ Length \in Nat \ {0}
  BY Fields DEF IInv
<1>1. /\ pc = "enable" /\ pc' = "rx_length" /\ lag' \in 0..MaxLag
      /\ UNCHANGED <<txdr, shift, rxdr, errors>>
  BY <1>0, StatementFacts DEF EnableRequests
<1>2. /\ requests' = Stream
      /\ UNCHANGED <<cs, flags, sent, clock, stream, rx, tx>>
  BY DEF EnableRequests, rx, tx
<1>3. TypeOK'
  BY <1>0, <1>1, <1>2 DEF TypeOK, Labels, flags
<1>4. Alive'
  BY <1>1, <1>2 DEF IInv, Alive, Before, ReceiveSetUp, TransmitSetUp, Running, After, Quiet, Idle, flags, Stream
<1>5. Dead'
  BY <1>1, <1>2 DEF IInv, Dead, Bit, flags
<1> QED  BY <1>1, <1>2, <1>3, <1>4, <1>5 DEF IInv

LEMMA LengthInv ==
    IInv /\ (SetDataLength("rx", "rx_length", "rx_clear") \/ SetDataLength("tx", "tx_length", "tx_clear")) => IInv'
<1> SUFFICES ASSUME IInv, NEW s \in Stream, NEW p, NEW q, SetDataLength(s, p, q),
                    \/ s = "rx" /\ p = "rx_length" /\ q = "rx_clear"
                    \/ s = "tx" /\ p = "tx_length" /\ q = "tx_clear"
             PROVE  IInv'
  BY DEF Stream
<1>0. /\ TypeOK /\ Length \in Nat \ {0} /\ stream \in [Stream -> StreamType]
      /\ rx \in StreamType /\ tx \in StreamType /\ stream[s] \in StreamType
  BY Fields DEF IInv
<1>1. /\ pc = p /\ pc' = q /\ lag' \in 0..MaxLag
      /\ UNCHANGED <<txdr, shift, rxdr, errors>>
  BY <1>0, StatementFacts DEF SetDataLength
<1>2. UNCHANGED <<cs, flags, requests, clock, sent>>
  BY DEF SetDataLength
<1>3. CASE clock
  <2> DEFINE r == [stream[s] EXCEPT !.left = Length]
  <2>1. ~stream[s].en
    BY <1>1, <1>3 DEF IInv, Alive, Before, TransmitSetUp, Idle, rx, tx, Stream
  <2>2. stream' = [stream EXCEPT ![s] = r]
    BY <1>0, <1>3, <2>1 DEF SetDataLength
  <2>3. /\ r \in StreamType /\ r.left = Length
        /\ r.en = stream[s].en /\ r.tc = stream[s].tc /\ r.te = stream[s].te
    BY <1>0 DEF StreamType
  <2>4. /\ stream' \in [Stream -> StreamType] /\ stream'[s] = r
        /\ \A z \in Stream : z # s => stream'[z] = stream[z]
    <3> HIDE DEF r
    <3> QED  BY <1>0, <2>2, <2>3, OneStream
  <2> HIDE DEF r
  <2>5. TypeOK'
    BY <1>0, <1>1, <1>2, <2>4 DEF TypeOK, Labels, flags, StreamType
  <2>6. Alive'
    <3>1. CASE s = "rx"
      <4>1. rx' = r /\ tx' = tx
        BY <2>4, <3>1 DEF rx, tx, Stream
      <4> QED
        BY <1>1, <1>2, <1>3, <2>3, <3>1, <4>1
           DEF IInv, Alive, Before, ReceiveSetUp, TransmitSetUp, Running, After, Quiet, Idle, flags, Stream, rx
    <3>2. CASE s = "tx"
      <4>1. tx' = r /\ rx' = rx
        BY <2>4, <3>2 DEF rx, tx, Stream
      <4> QED
        BY <1>1, <1>2, <1>3, <2>3, <3>2, <4>1
           DEF IInv, Alive, Before, ReceiveSetUp, TransmitSetUp, Running, After, Quiet, Idle, flags, Stream, tx
    <3> QED  BY <3>1, <3>2 DEF Stream
  <2>7. \A z \in Stream : stream'[z].te => errors' > 0
    BY <1>1, <2>3, <2>4 DEF IInv
  <2> QED  BY <1>2, <1>3, <2>5, <2>6, <2>7 DEF IInv, Dead
<1>4. CASE ~clock
  <2>1. stream' = stream
    <3>1. stream[s].left = stream[s].left /\ [stream[s] EXCEPT !.left = stream[s].left] = stream[s]
      BY <1>0 DEF StreamType
    <3>2. stream' = [stream EXCEPT ![s] = [stream[s] EXCEPT !.left = stream[s].left]]
      BY <1>4 DEF SetDataLength
    <3> QED  BY <1>0, <3>1, <3>2
  <2>2. TypeOK'
    BY <1>0, <1>1, <1>2, <2>1 DEF TypeOK, Labels, flags
  <2>3. Dead'
    BY <1>1, <1>2, <1>4, <2>1 DEF IInv, Dead, Bit, flags, tx
  <2> QED  BY <1>1, <1>2, <1>4, <2>1, <2>2, <2>3 DEF IInv, Alive
<1> QED  BY <1>3, <1>4

LEMMA ClearInv == IInv /\ (ClearReceive \/ ClearTransmit) => IInv'
<1> SUFFICES ASSUME IInv, ClearReceive \/ ClearTransmit PROVE IInv'
  OBVIOUS
<1>0. TypeOK
  BY DEF IInv
<1>1. /\ \/ pc = "rx_clear" /\ pc' = "rx_start" /\ dmaReceiveComplete' = FALSE /\ UNCHANGED dmaTransmitComplete
         \/ pc = "tx_clear" /\ pc' = "tx_start" /\ dmaTransmitComplete' = FALSE /\ UNCHANGED dmaReceiveComplete
      /\ lag' \in 0..MaxLag
      /\ UNCHANGED <<txdr, shift, rxdr, errors>>
  BY <1>0, StatementFacts DEF ClearReceive, ClearTransmit
<1>2. UNCHANGED <<cs, dmaError, requests, clock, stream, sent, rx, tx>>
  BY DEF ClearReceive, ClearTransmit, rx, tx
<1>3. TypeOK'
  BY <1>0, <1>1, <1>2 DEF TypeOK, Labels
<1>4. Alive'
  BY <1>1, <1>2 DEF IInv, Alive, Before, ReceiveSetUp, TransmitSetUp, Running, After, Quiet, Idle
<1>5. Dead'
  BY <1>1, <1>2 DEF IInv, Dead, Bit
<1> QED  BY <1>1, <1>2, <1>3, <1>4, <1>5 DEF IInv

LEMMA StartInv ==
    IInv /\ (StartStream("rx", "rx_start", "tx_length") \/ StartStream("tx", "tx_start", "loop")) => IInv'
<1> SUFFICES ASSUME IInv, NEW s \in Stream, NEW p, NEW q, StartStream(s, p, q),
                    \/ s = "rx" /\ p = "rx_start" /\ q = "tx_length"
                    \/ s = "tx" /\ p = "tx_start" /\ q = "loop"
             PROVE  IInv'
  BY DEF Stream
<1>0. /\ TypeOK /\ Length \in Nat \ {0} /\ stream \in [Stream -> StreamType]
      /\ rx \in StreamType /\ tx \in StreamType /\ stream[s] \in StreamType
  BY Fields DEF IInv
<1>1. /\ pc = p /\ pc' = q /\ lag' \in 0..MaxLag
      /\ UNCHANGED <<txdr, shift, rxdr, errors>>
  BY <1>0, StatementFacts DEF StartStream
<1>2. UNCHANGED <<cs, flags, requests, clock, sent>>
  BY DEF StartStream
<1>3. CASE clock
  <2> DEFINE r == [stream[s] EXCEPT !.tc = FALSE, !.te = FALSE, !.en = (stream[s].left > 0)]
  <2>1. stream[s].left = Length
    BY <1>1, <1>3 DEF IInv, Alive, ReceiveSetUp, TransmitSetUp, rx, tx, Stream
  <2>2. stream' = [stream EXCEPT ![s] = r]
    BY <1>0, <1>3 DEF StartStream
  <2>3. r \in StreamType /\ r.left = Length /\ r.en /\ ~r.tc /\ ~r.te
    <3>1. (stream[s].left > 0) \in BOOLEAN /\ stream[s].left > 0
      BY <1>0, <2>1
    <3>2. r.left = stream[s].left
      BY <1>0 DEF StreamType
    <3>3. r.en = (stream[s].left > 0)
      BY <1>0 DEF StreamType
    <3>4. ~r.tc /\ ~r.te
      BY <1>0 DEF StreamType
    <3>5. r \in StreamType
      BY <1>0, <3>1 DEF StreamType
    <3> HIDE DEF r
    <3> QED  BY <2>1, <3>1, <3>2, <3>3, <3>4, <3>5
  <2>4. /\ stream' \in [Stream -> StreamType] /\ stream'[s] = r
        /\ \A z \in Stream : z # s => stream'[z] = stream[z]
    <3> HIDE DEF r
    <3> QED  BY <1>0, <2>2, <2>3, OneStream
  <2> HIDE DEF r
  <2>5. TypeOK'
    BY <1>0, <1>1, <1>2, <2>4 DEF TypeOK, Labels, flags, StreamType
  <2>6. Alive'
    <3>1. CASE s = "rx"
      <4>1. rx' = r /\ tx' = tx
        BY <2>4, <3>1 DEF rx, tx, Stream
      <4> QED
        BY <1>1, <1>2, <1>3, <2>3, <3>1, <4>1
           DEF IInv, Alive, Before, ReceiveSetUp, TransmitSetUp, Running, After, Quiet, Idle, flags, Stream
    <3>2. CASE s = "tx"
      <4>1. tx' = r /\ rx' = rx
        BY <2>4, <3>2 DEF rx, tx, Stream
      <4>2. /\ pc = "tx_start" /\ pc' = "loop" /\ Quiet /\ sent = 0 /\ rx.left = Length
            /\ rx.en /\ ~rx.tc /\ ~rx.te /\ ~dmaReceiveComplete /\ ~dmaTransmitComplete
        BY <1>1, <1>3, <3>2 DEF IInv, Alive, ReceiveSetUp, TransmitSetUp
      <4>3. Counting'
        BY <1>0, <2>3, <4>1, <4>2 DEF Counting, Stream, rx, tx
      <4>4. Conserved' /\ Received' /\ Flagged' /\ Leaving'
        BY <1>0, <1>1, <1>2, <2>3, <4>1, <4>2 DEF Conserved, Received, Flagged, Leaving, Bit, Quiet, flags, TypeOK
      <4> QED
        BY <1>1, <1>2, <1>3, <4>2, <4>3, <4>4
           DEF IInv, Alive, Before, ReceiveSetUp, TransmitSetUp, Running, After, flags, Stream
    <3> QED  BY <3>1, <3>2 DEF Stream
  <2>7. \A z \in Stream : stream'[z].te => errors' > 0
    BY <1>1, <2>3, <2>4 DEF IInv
  <2> QED  BY <1>2, <1>3, <2>5, <2>6, <2>7 DEF IInv, Dead
<1>4. CASE ~clock
  <2>1. stream' = stream
    BY <1>4 DEF StartStream
  <2>2. TypeOK'
    BY <1>0, <1>1, <1>2, <2>1 DEF TypeOK, Labels, flags
  <2>3. Dead'
    BY <1>1, <1>2, <1>4, <2>1 DEF IInv, Dead, Bit, flags, tx
  <2> QED  BY <1>1, <1>2, <1>4, <2>1, <2>2, <2>3 DEF IInv, Alive
<1> QED  BY <1>3, <1>4

(* The loop ends with the last byte out: a completion flag says that one of *)
(* the streams is at its end, and then the transmitting one is, too.         *)
LEMMA LoopInv == ASSUME MaxLag <= 1 PROVE IInv /\ Loop => IInv'
<1> SUFFICES ASSUME IInv, Loop PROVE IInv'
  OBVIOUS
<1>0. /\ TypeOK /\ Length \in Nat \ {0} /\ MaxLag \in Nat
      /\ rx \in StreamType /\ tx \in StreamType
      /\ rx.left \in 0..Length /\ tx.left \in 0..Length
  BY Fields DEF IInv
<1>1. UNCHANGED <<cs, flags, requests, clock, stream, sent, rx, tx>>
  BY DEF Loop, rx, tx
<1>2. PICK p, q :
         /\ Statement(p, q)
         /\ \/ p = "loop" /\ q = "disable" /\ dmaError
            \/ p = "loop" /\ q = "loop" /\ ~dmaError
            \/ p = "loop" /\ q = "busy" /\ ~dmaError /\ (dmaTransmitComplete \/ dmaReceiveComplete)
            \/ p = "busy" /\ q = "loop"
            \/ p = "busy" /\ q = "disable" /\ ~shift
  BY DEF Loop, LoopError, LoopYield, LoopFlags, LoopBusy, LoopDone
<1>3. /\ pc = p /\ pc' = q /\ lag' \in 0..MaxLag
      /\ UNCHANGED <<txdr, shift, rxdr, errors>>
      /\ clock => ~rx.tc /\ ~rx.te /\ ~tx.tc /\ ~tx.te
  BY <1>0, <1>2, StatementFacts
<1>4. TypeOK'
  BY <1>0, <1>1, <1>2, <1>3 DEF TypeOK, Labels, flags
<1>5. ASSUME clock PROVE Alive'
  <2>1. ~dmaError /\ Conserved /\ Received /\ Counting /\ Flagged /\ Leaving
    BY <1>2, <1>3, <1>5 DEF IInv, Alive, Running
  <2>2. Conserved' /\ Received' /\ Counting' /\ Flagged'
    BY <1>1, <1>3, <2>1 DEF Conserved, Received, Counting, Flagged, Bit, flags
  <2>3. ASSUME pc' = "disable" PROVE tx.left = 0 /\ ~shift /\ (Due("rx") => lag' >= MaxLag)
    <3>1. pc = "busy" /\ ~shift /\ ~txdr
      BY <1>2, <1>3, <2>1, <2>3 DEF Conserved
    <3>2. tx.left = 0
      <4>1. CASE dmaTransmitComplete
        BY <2>1, <4>1 DEF Flagged
      <4>2. CASE dmaReceiveComplete
        <5>1. sent = Length + Bit(rxdr) /\ sent + tx.left = Length
          BY <1>0, <1>3, <1>5, <2>1, <3>1, <4>2 DEF Flagged, Received, Conserved, Bit, TypeOK
        <5> QED  BY <1>0, <5>1 DEF Bit, TypeOK
      <4> QED  BY <2>1, <3>1, <4>1, <4>2 DEF Leaving
    <3>3. Due("rx") => lag' = lag + 1
      BY <1>2 DEF Statement, Stream
    <3> QED  BY <1>0, <3>1, <3>2, <3>3 DEF TypeOK
  <2>4. Due("rx")' = Due("rx")
    BY <1>1, <1>3 DEF Due
  <2>5. Leaving'
    BY <1>1, <1>2, <1>3, <2>3, <2>4 DEF Leaving, flags
  <2> QED
    BY <1>1, <1>2, <1>3, <1>5, <2>1, <2>2, <2>5
       DEF IInv, Alive, Before, ReceiveSetUp, TransmitSetUp, Running, After, flags
<1>6. Dead'
  BY <1>1, <1>2, <1>3 DEF IInv, Dead, Bit, flags
<1> QED  BY <1>1, <1>3, <1>4, <1>5, <1>6 DEF IInv, Alive

(* Before the requests are stopped the last byte has been received *)
LEMMA DisableInv == ASSUME MaxLag <= 1 PROVE IInv /\ DisableRequests => IInv'
<1> SUFFICES ASSUME IInv, DisableRequests PROVE IInv'
  OBVIOUS
<1>0. /\ TypeOK /\ Length \in Nat \ {0} /\ MaxLag \in Nat
      /\ rx \in StreamType /\ tx \in StreamType
      /\ rx.left \in 0..Length /\ tx.left \in 0..Length
  BY Fields DEF IInv
<1>1. /\ pc = "disable" /\ pc' = "cs_high" /\ lag' \in 0..MaxLag
      /\ UNCHANGED <<txdr, shift, rxdr, errors>>
      /\ clock => ~rx.tc /\ ~rx.te /\ ~tx.tc /\ ~tx.te
  BY <1>0, StatementFacts DEF DisableRequests
<1>2. requests' = {} /\ UNCHANGED <<cs, flags, clock, stream, sent, rx, tx>>
  BY DEF DisableRequests, rx, tx
<1>3. TypeOK'
  BY <1>0, <1>1, <1>2 DEF TypeOK, Labels, flags
<1>4. ASSUME clock PROVE Alive'
  <2>1. ~dmaError /\ Conserved /\ Received /\ Counting /\ Leaving /\ requests = Stream
    BY <1>1, <1>4 DEF IInv, Alive, Running
  <2>2. tx.left = 0 /\ ~shift /\ ~txdr /\ sent = Length
    BY <1>0, <1>1, <2>1 DEF Leaving, Conserved, Bit, TypeOK
  <2>3. ~Due("rx")
    <3>1. Due("rx") => lag < MaxLag /\ lag >= MaxLag
      BY <1>1, <2>1 DEF DisableRequests, Statement, Leaving, Stream
    <3> QED  BY <1>0, <3>1 DEF TypeOK
  <2>4. ~(rx.en /\ rxdr)
    BY <1>4, <2>1, <2>3 DEF Due, rx, Stream
  <2>5. rx.left = Bit(rxdr)
    BY <1>0, <1>1, <1>4, <2>1, <2>2 DEF Received, Bit, TypeOK
  <2>6. (rx.en => rx.left > 0) /\ (rx.left > 0 => rx.en) /\ (tx.en => tx.left > 0)
    BY <1>1, <1>4, <2>1 DEF Counting, Stream, rx, tx
  <2>7. ~rxdr /\ rx.left = 0 /\ ~rx.en /\ ~tx.en
    BY <1>0, <2>2, <2>4, <2>5, <2>6 DEF Bit
  <2> QED
    BY <1>1, <1>2, <1>4, <2>1, <2>2, <2>7
       DEF Alive, Before, ReceiveSetUp, TransmitSetUp, Running, After, Idle, Quiet, flags
<1>5. Dead'
  BY <1>1, <1>2 DEF IInv, Dead, Bit, flags
<1> QED  BY <1>1, <1>2, <1>3, <1>4, <1>5 DEF IInv, Alive

LEMMA EndInv == IInv /\ End => IInv'
<1> SUFFICES ASSUME IInv, End PROVE IInv'
  OBVIOUS
<1>0. TypeOK
  BY DEF IInv
<1>1. /\ pc = "cs_high" /\ pc' = "cs_low" /\ lag' \in 0..MaxLag
      /\ UNCHANGED <<txdr, shift, rxdr, errors>>
  BY <1>0, StatementFacts DEF End
<1>2. cs' = "high" /\ UNCHANGED <<flags, requests, clock, stream, sent, rx, tx>>
  BY DEF End, rx, tx
<1>3. TypeOK'
  BY <1>0, <1>1, <1>2 DEF TypeOK, Labels, flags
<1>4. Alive'
  BY <1>1, <1>2 DEF IInv, Alive, Before, ReceiveSetUp, TransmitSetUp, Running, After, Quiet, Idle, flags
<1>5. Dead'
  BY <1>1, <1>2 DEF IInv, Dead, Bit, flags
<1> QED  BY <1>1, <1>2, <1>3, <1>4, <1>5 DEF IInv

LEMMA NextInv == ASSUME MaxLag <= 1 PROVE IInv /\ [Next]_spiVars => IInv'
<1> SUFFICES ASSUME IInv, [Next]_spiVars PROVE IInv'
  OBVIOUS
<1>1. CASE UNCHANGED spiVars
  BY <1>1 DEF spiVars, flags, spi, IInv, TypeOK, Alive, Dead, Before, ReceiveSetUp, TransmitSetUp, Running,
              Conserved, Received, Counting, Flagged, Leaving, After, Idle, Quiet, Due, Bit, rx, tx
<1>2. CASE Fiber
  BY <1>2, BeginInv, EnableInv, LengthInv, ClearInv, StartInv, LoopInv, DisableInv, EndInv DEF Fiber
<1>3. CASE Interrupt
  BY <1>3, CompleteInv, ErrorInv DEF Interrupt
<1>4. CASE Hardware
  BY <1>4, TxBeatInv, RxBeatInv, ShiftDoneInv DEF Hardware
<1>5. CASE \E s \in Stream : BusError(s)
  BY <1>5, BusErrorInv
<1> QED  BY <1>1, <1>2, <1>3, <1>4, <1>5 DEF Next

-----------------------------------------------------------------------------
(* What follows from the invariant *)

LEMMA InvType == IInv => TypeOK
BY DEF IInv

LEMMA InvComplete == IInv => FrameComplete
<1> SUFFICES ASSUME IInv, pc \in {"disable", "cs_high"}, ~dmaError
             PROVE  sent = Length /\ ~shift /\ ~txdr
  BY DEF FrameComplete
<1>0. TypeOK
  BY DEF IInv
<1>1. clock
  BY DEF IInv, Dead
<1>2. CASE pc = "disable"
  BY <1>0, <1>1, <1>2, SpiAssumption DEF IInv, Alive, Running, Conserved, Leaving, Bit, TypeOK
<1>3. CASE pc = "cs_high"
  BY <1>1, <1>3 DEF IInv, Alive, After, Quiet
<1> QED  BY <1>2, <1>3

LEMMA InvNothing == IInv => NothingLeftOver
<1> SUFFICES ASSUME IInv, pc \in {"cs_low", "enable"}, errors = 0
             PROVE  ~rxdr /\ \A s \in Stream : ~stream[s].en /\ stream[s].left = 0 /\ ~stream[s].tc
  BY DEF NothingLeftOver
<1>1. Before
  BY DEF IInv, Dead, Alive
<1> QED  BY <1>1 DEF Before, Idle, Quiet, rx, tx, Stream

LEMMA InFlightIs == InFlight = Bit(shift) + Bit(txdr)
BY DEF InFlight, Bit

(* Bytes read in this call *)
ReadSoFar == sent + InFlight

LEMMA ReadIs == TypeOK => ReadSoFar = sent + Bit(shift) + Bit(txdr)
BY InFlightIs DEF TypeOK, ReadSoFar, Bit

(* A step in terms of the contract *)
LEMMA ContractStep ==
    ASSUME IInv, TypeOK', Next, errors = 0
    PROVE  \/ pc = "cs_low" /\ pc' # "cs_low" /\ ReadSoFar' = 0
           \/ pc # "cs_low" /\ pc' # "cs_low" /\ ReadSoFar < Length /\ ReadSoFar' = ReadSoFar + 1
           \/ pc # "cs_low" /\ pc' = "cs_low" /\ ReadSoFar = Length /\ ReadSoFar' = ReadSoFar
           \/ (pc = "cs_low" <=> pc' = "cs_low") /\ ReadSoFar' = ReadSoFar
<1>0. TypeOK /\ clock /\ Length \in Nat \ {0} /\ tx.left \in 0..Length /\ tx \in StreamType
  BY Fields DEF IInv, Dead
<1>a. ReadSoFar = sent + Bit(shift) + Bit(txdr)
  BY <1>0, ReadIs
<1>b. ReadSoFar' = sent' + Bit(shift') + Bit(txdr')
  <2>1. (TypeOK => ReadSoFar = sent + Bit(shift) + Bit(txdr))'
    BY ReadIs, PTL
  <2> QED  BY <2>1 DEF Bit
<1>1. ASSUME UNCHANGED <<sent, shift, txdr>> PROVE ReadSoFar' = ReadSoFar
  BY <1>1, <1>a, <1>b
<1>2. CASE Begin
  <2>1. pc = "cs_low" /\ pc' = "enable" /\ sent' = 0 /\ UNCHANGED <<shift, txdr>>
    BY <1>2 DEF Begin, Statement
  <2>2. ~shift /\ ~txdr
    BY <1>0, <2>1 DEF IInv, Alive, Before, Quiet
  <2> QED  BY <1>b, <2>1, <2>2 DEF Bit
<1>3. CASE End
  <2>1. pc = "cs_high" /\ pc' = "cs_low" /\ UNCHANGED <<sent, shift, txdr>>
    BY <1>3 DEF End, Statement
  <2>2. sent = Length /\ ~shift /\ ~txdr
    BY <1>0, <2>1 DEF IInv, Alive, After, Quiet
  <2> QED  BY <1>0, <1>a, <1>1, <2>1, <2>2 DEF Bit
<1>4. CASE Fiber /\ ~Begin /\ ~End
  <2>1. pc # "cs_low" /\ pc' # "cs_low" /\ UNCHANGED <<sent, shift, txdr>>
    BY <1>4 DEF Fiber, EnableRequests, SetDataLength, ClearReceive, ClearTransmit, StartStream, Loop,
                LoopError, LoopYield, LoopFlags, LoopBusy, LoopDone, DisableRequests, Statement
  <2> QED  BY <1>1, <2>1
<1>5. CASE TxBeat
  <2>1. tx.en /\ ~txdr /\ shift' = TRUE /\ txdr' = shift /\ UNCHANGED <<pc, sent>>
    BY <1>5 DEF TxBeat, Due, tx
  <2>2. pc \in {"loop", "busy", "disable"}
    BY <1>0, <2>1 DEF IInv, TypeOK, Alive, Before, TransmitSetUp, After, Idle, Labels
  <2>3. tx.left > 0 /\ sent + Bit(shift) + Bit(txdr) + tx.left = Length
    BY <1>0, <2>1, <2>2 DEF IInv, Alive, Running, Conserved, Counting, Stream, tx
  <2>4. ReadSoFar < Length
    BY <1>0, <1>a, <2>3 DEF TypeOK, Bit
  <2>5. ReadSoFar' = ReadSoFar + 1
    BY <1>0, <1>a, <1>b, <2>1 DEF TypeOK, Bit
  <2> QED  BY <2>1, <2>2, <2>4, <2>5
<1>6. CASE ShiftDone
  <2>1. shift /\ sent' = sent + 1 /\ shift' = txdr /\ txdr' = FALSE /\ UNCHANGED pc
    BY <1>6 DEF ShiftDone
  <2>2. ReadSoFar' = ReadSoFar
    BY <1>0, <1>a, <1>b, <2>1 DEF TypeOK, Bit
  <2> QED  BY <2>1, <2>2
<1>7. CASE RxBeat \/ Interrupt \/ (\E s \in Stream : BusError(s))
  <2>1. UNCHANGED <<pc, sent, shift, txdr>>
    BY <1>7 DEF RxBeat, Interrupt, TransferComplete, TransferError, BusError, spi
  <2> QED  BY <1>1, <2>1
<1> QED  BY <1>2, <1>3, <1>4, <1>5, <1>6, <1>7 DEF Next, Hardware

-----------------------------------------------------------------------------
(* The theorems *)

(* The frame's counters stay inside the frame, after any number of errors *)
THEOREM TypeCorrect == ASSUME MaxLag <= 1 PROVE Spec => []TypeOK
BY InitInv, NextInv, InvType, PTL DEF Spec

(* The chip select never rises before every byte of the frame is out *)
THEOREM FramesComplete == ASSUME MaxLag <= 1 PROVE Spec => []FrameComplete
BY InitInv, NextInv, InvComplete, PTL DEF Spec

(* A transfer leaves nothing that the next one could take for its own *)
THEOREM NothingStays == ASSUME MaxLag <= 1 PROVE Spec => []NothingLeftOver
BY InitInv, NextInv, InvNothing, PTL DEF Spec

(* The transfer is the one that the expansion controller is modelled with *)
THEOREM ContractKept == ASSUME MaxLag <= 1 PROVE Spec => KeepsContract
<1>1. Init => Contract!Init
  <2> SUFFICES ASSUME Init PROVE Contract!Init
    OBVIOUS
  <2>1. TypeOK /\ sent = 0 /\ ~shift /\ ~txdr /\ pc = "cs_low"
    BY InitInv DEF Init, IInv
  <2>2. ReadSoFar = 0
    BY <2>1, ReadIs DEF Bit
  <2> QED  BY <2>1, <2>2, SpiAssumption DEF Contract!Init, ReadSoFar
<1>2. IInv /\ IInv' /\ [Next]_spiVars => [(errors' = 0) => (Contract!Next \/ UNCHANGED Contract!vars)]_spiVars
  <2> SUFFICES ASSUME IInv, IInv', Next, errors' = 0
               PROVE  Contract!Next \/ UNCHANGED Contract!vars
    OBVIOUS
  <2>1. TypeOK /\ TypeOK'
    BY DEF IInv
  <2>2. errors = 0
    <3>1. errors' = errors \/ errors' = errors + 1
      BY DEF Next, Fiber, Interrupt, Hardware, BusError, Begin, EnableRequests, SetDataLength, ClearReceive,
             ClearTransmit, StartStream, Loop, LoopError, LoopYield, LoopFlags, LoopBusy, LoopDone,
             DisableRequests, End, Statement, TxBeat, RxBeat, ShiftDone, TransferComplete, TransferError
    <3> QED  BY <2>1, <3>1 DEF TypeOK
  <2>3. CASE pc = "cs_low" /\ pc' # "cs_low" /\ ReadSoFar' = 0
    BY <2>3 DEF Contract!Next, Contract!Call, ReadSoFar
  <2>4. CASE pc # "cs_low" /\ pc' # "cs_low" /\ ReadSoFar < Length /\ ReadSoFar' = ReadSoFar + 1
    BY <2>4 DEF Contract!Next, Contract!Read, ReadSoFar
  <2>5. CASE pc # "cs_low" /\ pc' = "cs_low" /\ ReadSoFar = Length /\ ReadSoFar' = ReadSoFar
    BY <2>5 DEF Contract!Next, Contract!Return, ReadSoFar
  <2>6. CASE (pc = "cs_low" <=> pc' = "cs_low") /\ ReadSoFar' = ReadSoFar
    BY <2>6 DEF Contract!vars, ReadSoFar
  <2> QED  BY <2>1, <2>2, <2>3, <2>4, <2>5, <2>6, ContractStep
<1> QED  BY <1>1, <1>2, InitInv, NextInv, PTL DEF Spec, KeepsContract
=============================================================================
