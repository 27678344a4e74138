-------------------------- MODULE LogDevice_proofs --------------------------
(* Theorems about the queue and about the log device over the UART and over  *)
(* the ITM, for any capacity of the queues and any set of bytes             *)
EXTENDS LogDevice, SequenceTheorems, TLAPS

-----------------------------------------------------------------------------
(* Sequences *)

(* A sequence that begins another, element by element *)
LEMMA PrefixIs ==
    ASSUME NEW S, NEW p \in Seq(S), NEW q \in Seq(S), Len(q) <= Len(p),
           \A i \in 1..Len(q) : q[i] = p[i]
    PROVE  IsPrefix(q, p)
<1>1. /\ Len(q) \in Nat /\ Len(p) \in Nat
      /\ \A i \in 1..Len(q) : q[i] \in S /\ p[i] \in S
  BY LenProperties, ElementOfSeq
<1>2. /\ SubSeq(q, 1, Len(q)) \in Seq(S) /\ Len(SubSeq(q, 1, Len(q))) = Len(q)
      /\ \A i \in 1..Len(q) : SubSeq(q, 1, Len(q))[i] = q[i]
  BY <1>1, SubSeqFull
<1>3. /\ SubSeq(p, 1, Len(q)) \in Seq(S)
      /\ Len(SubSeq(p, 1, Len(q))) = (IF 1 <= Len(q) THEN Len(q) - 1 + 1 ELSE 0)
      /\ \A i \in 1..Len(q) - 1 + 1 : SubSeq(p, 1, Len(q))[i] = p[1 + i - 1]
  BY <1>1, SubSeqProperties
<1>4. Len(SubSeq(p, 1, Len(q))) = Len(q) /\ \A i \in 1..Len(q) : SubSeq(p, 1, Len(q))[i] = p[i]
  BY <1>1, <1>3
<1>5. SubSeq(q, 1, Len(q)) = SubSeq(p, 1, Len(q))
  BY <1>2, <1>3, <1>4, SeqEqual
<1> QED BY <1>1, <1>5 DEF IsPrefix

(* The oldest n are gone *)
LEMMA Dropped ==
    ASSUME NEW S, NEW p \in Seq(S), NEW q \in Seq(S), NEW n \in 0..Len(p),
           Len(q) = Len(p) - n, \A i \in 1..Len(q) : q[i] = p[i + n]
    PROVE  q = SubSeq(p, n + 1, Len(p))
<1>1. Len(p) \in Nat /\ \A i \in 1..Len(p) : p[i] \in S
  BY LenProperties, ElementOfSeq
<1>2. \A i \in n + 1..Len(p) : p[i] \in S
  BY <1>1
<1>3. n + 1 \in Int /\ Len(p) \in Int
  BY <1>1
<1>4. /\ SubSeq(p, n + 1, Len(p)) \in Seq(S)
      /\ Len(SubSeq(p, n + 1, Len(p))) = (IF n + 1 <= Len(p) THEN Len(p) - (n + 1) + 1 ELSE 0)
      /\ \A i \in 1..Len(p) - (n + 1) + 1 : SubSeq(p, n + 1, Len(p))[i] = p[(n + 1) + i - 1]
  BY <1>2, <1>3, SubSeqProperties
<1>5. Len(SubSeq(p, n + 1, Len(p))) = Len(q)
  BY <1>1, <1>4
<1>6. \A i \in 1..Len(q) : SubSeq(p, n + 1, Len(p))[i] = q[i]
  BY <1>1, <1>4
<1> QED BY <1>4, <1>5, <1>6, SeqEqual

-----------------------------------------------------------------------------
(* The queue *)

BytesStored == \A k \in 1..getSize : ring[SlotOf(k - 1)] \in Byte

QueueKept == QueueOK /\ BytesStored

(* The slots in use are a part of the ring, from tail up to before head *)
LEMMA Slotting ==
    ASSUME QueueOK
    PROVE  /\ N \in Nat \ {0}
           /\ getSize \in 0..N
           /\ isEmpty <=> getSize = 0
           /\ isFull <=> getSize = N
           /\ \A k \in 1..getSize : SlotOf(k - 1) \in Slots /\ SlotOf(k - 1) # head
           /\ SlotOf(0) = tail
           /\ getSize < N => SlotOf(getSize) = head
BY QueueAssumption DEF QueueOK, Slots, getSize, isEmpty, isFull, After, SlotOf

StoredOK ==
    /\ Stored \in Seq(Byte)
    /\ Len(Stored) = getSize
    /\ \A k \in 1..getSize : Stored[k] = ring[SlotOf(k - 1)]
    /\ isEmpty => Stored = <<>>

LEMMA StoredShape == QueueKept => StoredOK
<1> SUFFICES ASSUME QueueKept PROVE StoredOK
  OBVIOUS
<1>1. getSize \in Nat /\ (isEmpty <=> getSize = 0)
  BY Slotting DEF QueueKept
<1>2. Stored \in Seq(Byte) /\ Len(Stored) = getSize
  BY <1>1 DEF Stored, QueueKept, BytesStored
<1>3. \A k \in 1..getSize : Stored[k] = ring[SlotOf(k - 1)]
  BY DEF Stored
<1>4. isEmpty => Stored = <<>>
  BY <1>1, <1>2, EmptySeq
<1> QED  BY <1>2, <1>3, <1>4 DEF StoredOK

(* Two queues with the same slots in the same places hold the same bytes *)
LEMMA SameStored ==
    ASSUME QueueKept, QueueKept', getSize' = getSize,
           \A k \in 1..getSize : ring'[SlotOf(k - 1)'] = ring[SlotOf(k - 1)]
    PROVE  Stored' = Stored
<1>1. StoredOK /\ StoredOK'
  BY StoredShape, PTL
<1> QED  BY <1>1, SeqEqual DEF StoredOK

(* The first half of push is not seen by the reader *)
LEMMA StoreKeepsStored ==
    ASSUME QueueKept, NEW value \in Byte, store(value)
    PROVE  QueueKept' /\ Stored' = Stored /\ ring'[head] = value
<1>1. QueueOK' /\ ring'[head] = value
  BY DEF QueueKept, QueueOK, store, Slots
<1>2. getSize' = getSize /\ \A k \in Int : SlotOf(k)' = SlotOf(k)
  BY DEF store, getSize, SlotOf
<1>3. \A k \in 1..getSize : ring'[SlotOf(k - 1)'] = ring[SlotOf(k - 1)]
  BY <1>2, Slotting DEF QueueKept, QueueOK, store
<1>4. BytesStored'
  BY <1>2, <1>3 DEF QueueKept, BytesStored
<1> QED  BY <1>1, <1>2, <1>3, <1>4, SameStored DEF QueueKept

(* The second half appends the byte *)
LEMMA PublishAppends ==
    ASSUME QueueKept, ~isFull, ring[head] \in Byte, publish
    PROVE  QueueKept' /\ ~isEmpty' /\ Stored' = Append(Stored, ring[head])
<1>1. QueueOK' /\ getSize' = getSize + 1 /\ ~isEmpty'
  BY QueueAssumption DEF QueueKept, QueueOK, Slots, publish, getSize, isFull, isEmpty, After
<1>2. ring' = ring /\ \A k \in Int : SlotOf(k)' = SlotOf(k)
  BY DEF publish, SlotOf
<1>3. getSize < N /\ SlotOf(getSize) = head /\ getSize \in Nat
  BY Slotting DEF QueueKept
<1>4. BytesStored'
  BY <1>1, <1>2, <1>3 DEF QueueKept, BytesStored
<1>5. QueueKept'
  BY <1>1, <1>4 DEF QueueKept
<1>6. StoredOK /\ StoredOK'
  BY <1>5, StoredShape, PTL
<1>7. /\ Append(Stored, ring[head]) \in Seq(Byte)
      /\ Len(Append(Stored, ring[head])) = getSize + 1
      /\ \A k \in 1..getSize : Append(Stored, ring[head])[k] = ring[SlotOf(k - 1)]
      /\ Append(Stored, ring[head])[getSize + 1] = ring[head]
  BY <1>6, AppendProperties DEF StoredOK
<1>8. \A k \in 1..getSize + 1 : Stored'[k] = Append(Stored, ring[head])[k]
  BY <1>1, <1>2, <1>3, <1>6, <1>7 DEF StoredOK
<1> QED  BY <1>1, <1>5, <1>6, <1>7, <1>8, SeqEqual DEF StoredOK

(* pop takes the oldest byte *)
LEMMA PopTakesOldest ==
    ASSUME QueueKept, ~isEmpty, pop
    PROVE  QueueKept' /\ get \in Byte /\ Stored = <<get>> \o Stored'
<1>1. QueueOK' /\ getSize' = getSize - 1
  BY QueueAssumption DEF QueueKept, QueueOK, Slots, pop, getSize, isEmpty, After
<1>2. getSize \in 1..N /\ SlotOf(0) = tail
  BY Slotting DEF QueueKept
<1>3. ring' = ring /\ \A k \in 0..N : SlotOf(k)' = SlotOf(k + 1)
  BY QueueAssumption DEF QueueKept, QueueOK, Slots, pop, SlotOf, After
<1>4. get \in Byte
  BY <1>2 DEF QueueKept, BytesStored, get
<1>5. \A k \in 1..getSize - 1 : ring'[SlotOf(k - 1)'] = ring[SlotOf(k)]
  <2> SUFFICES ASSUME NEW k \in 1..getSize - 1 PROVE ring'[SlotOf(k - 1)'] = ring[SlotOf(k)]
    OBVIOUS
  <2>1. k - 1 \in 0..N /\ (k - 1) + 1 = k
    BY <1>2, QueueAssumption
  <2> QED  BY <2>1, <1>3
<1>6. BytesStored'
  <2> SUFFICES ASSUME NEW k \in 1..getSize' PROVE ring'[SlotOf(k - 1)'] \in Byte
    BY DEF BytesStored
  <2>1. k + 1 \in 1..getSize /\ (k + 1) - 1 = k /\ k \in 1..getSize - 1
    BY <1>1, <1>2
  <2>2. ring[SlotOf(k)] \in Byte
    BY <2>1 DEF QueueKept, BytesStored
  <2> QED  BY <2>1, <2>2, <1>5
<1>7. QueueKept'
  BY <1>1, <1>6 DEF QueueKept
<1>8. StoredOK /\ StoredOK'
  BY <1>7, StoredShape, PTL
<1>9. /\ <<get>> \in Seq(Byte) /\ Len(<<get>>) = 1 /\ <<get>>[1] = get
  BY <1>4
<1>10. /\ <<get>> \o Stored' \in Seq(Byte)
       /\ Len(<<get>> \o Stored') = 1 + Len(Stored')
       /\ \A k \in 1..1 + Len(Stored') : (<<get>> \o Stored')[k] = IF k <= 1 THEN <<get>>[k] ELSE Stored'[k - 1]
  BY <1>8, <1>9, ConcatProperties DEF StoredOK
<1>11. \A k \in 1..getSize : Stored[k] = (<<get>> \o Stored')[k]
  <2> SUFFICES ASSUME NEW k \in 1..getSize PROVE Stored[k] = (<<get>> \o Stored')[k]
    OBVIOUS
  <2>1. Stored[k] = ring[SlotOf(k - 1)]
    BY <1>8 DEF StoredOK
  <2>2. CASE k = 1
    BY <2>1, <2>2, <1>1, <1>2, <1>8, <1>9, <1>10 DEF get, StoredOK
  <2>3. CASE k > 1
    <3>1. k - 1 \in 1..getSize - 1
      BY <2>3, <1>2
    <3>2. Stored'[k - 1] = ring[SlotOf(k - 1)]
      BY <3>1, <1>1, <1>5, <1>8 DEF StoredOK
    <3>3. (<<get>> \o Stored')[k] = Stored'[k - 1]
      <4>1. Len(Stored') = getSize - 1 /\ k \in 1..1 + Len(Stored')
        BY <1>1, <1>2, <1>8 DEF StoredOK
      <4> QED  BY <4>1, <2>3, <1>2, <1>10
    <3> QED  BY <2>1, <2>3, <3>2, <3>3
  <2>4. k \in Int /\ (k = 1 \/ k > 1)
    BY <1>2, QueueAssumption
  <2> QED  BY <2>2, <2>3, <2>4
<1> QED  BY <1>1, <1>2, <1>4, <1>7, <1>8, <1>10, <1>11, SeqEqual DEF StoredOK

-----------------------------------------------------------------------------
(* The log device over the UART *)

Writing == pc \in {"queue", "register", "direct", "push", "publish", "enable"}

(* What a call has seen is still so when it acts on it: nobody but the call  *)
(* fills the queue or the register, and the interrupt is off while the call  *)
(* empties the queue itself.                                                 *)
CallKept ==
    /\ pc \in {"idle", "flush", "flushed", "discard"} \/ Writing
    /\ Writing /\ pc # "enable" => char \in Byte
    /\ pc \in {"register", "direct"} => isEmpty
    /\ pc = "direct" => dr = Zero
    /\ pc = "publish" => ring[head] = char /\ ~isFull
    /\ pc = "discard" => ~txie

(* Bytes in the queue have an interrupt coming, but where a call is about to *)
(* enable it or throws them away.                                           *)
Armed == ~isEmpty /\ pc \notin {"enable", "discard"} => txie

UartInv ==
    /\ QueueKept
    /\ dr \in Byte \cup {Zero} /\ txie \in BOOLEAN
    /\ CallKept /\ Armed

Inv == Device = "Uart" => UartInv

(* The queue of the instance is the queue of this module *)
LEMMA SameQueue ==
    /\ Uart!isEmpty = isEmpty /\ Uart!isFull = isFull /\ Uart!get = get
    /\ Uart!publish = publish /\ Uart!pop = pop
    /\ \A b : Uart!store(b) = store(b)
    /\ Uart!queueVars = queueVars
    /\ Uart!Stored = Stored
BY DEF Uart!isEmpty, Uart!isFull, Uart!After, Uart!get, Uart!publish, Uart!pop, Uart!store,
       Uart!queueVars, Uart!Stored, Uart!getSize, Uart!SlotOf,
       isEmpty, isFull, After, get, publish, pop, store, queueVars, Stored, getSize, SlotOf

LEMMA InitUart == LogInit => Inv
<1> SUFFICES ASSUME LogInit, Device = "Uart" PROVE UartInv
  BY DEF Inv
<1>1. /\ head = 0 /\ tail = 0 /\ ring = [i \in Slots |-> Zero]
      /\ dr = Zero /\ txie = FALSE /\ pc = "idle"
  BY DEF LogInit, Uart!QueueInit, Uart!DeviceInit, Uart!Slots, Slots
<1>2. QueueKept
  <2>1. QueueOK
    BY <1>1, QueueAssumption DEF QueueOK, Slots
  <2>2. getSize = 0
    BY <1>1 DEF getSize
  <2> QED  BY <2>1, <2>2 DEF QueueKept, BytesStored
<1>3. CallKept /\ Armed
  BY <1>1 DEF CallKept, Writing, Armed, isEmpty
<1> QED  BY <1>1, <1>2, <1>3 DEF UartInv

(* The three parts of what is written and not yet sent *)
Reg  == IF dr = Zero THEN <<>> ELSE <<dr>>
Kept == IF pc = "discard" THEN <<>> ELSE Stored
Held == IF Writing /\ pc # "enable" THEN <<char>> ELSE <<>>
Waiting == (Reg \o Kept) \o Held

Parts == Reg \in Seq(Byte) /\ Kept \in Seq(Byte) /\ Held \in Seq(Byte)

LEMMA PartsAreBytes == UartInv => Parts /\ StoredOK
<1> SUFFICES ASSUME UartInv PROVE Parts /\ StoredOK
  OBVIOUS
<1>1. StoredOK
  BY StoredShape DEF UartInv
<1>2. Reg \in Seq(Byte)
  BY DEF Reg, UartInv
<1>3. Kept \in Seq(Byte)
  BY <1>1 DEF Kept, StoredOK
<1>4. Held \in Seq(Byte)
  BY DEF Held, UartInv, CallKept
<1> QED  BY <1>1, <1>2, <1>3, <1>4 DEF Parts

(* A step of the stream, in terms of this module *)
Unseen    == Waiting' = Waiting /\ Writing' = Writing /\ line' = line
Appends   == ~Writing /\ Writing' /\ (\E b \in Byte : Waiting' = Append(Waiting, b)) /\ line' = line
Finishes  == Writing /\ ~Writing' /\ Waiting' = Waiting /\ line' = line
SendsOne  == /\ 1 <= Len(Waiting) /\ Waiting' = SubSeq(Waiting, 2, Len(Waiting))
             /\ line' = SubSeq(Waiting, 1, 1) /\ Writing' = Writing
Forgets   == ~Writing /\ Writing' = Writing /\ IsPrefix(Waiting', Waiting) /\ line' = line
StreamStep == Unseen \/ Appends \/ Finishes \/ SendsOne \/ Forgets

LEMMA QueueSame == UNCHANGED queueVars => UNCHANGED <<QueueKept, Stored, isEmpty, isFull>>
BY DEF queueVars, QueueKept, QueueOK, BytesStored, getSize, SlotOf, Slots, Stored, isEmpty, isFull, After

(* The steps of a call that touch neither queue nor register *)
LEMMA LookStep ==
    ASSUME UartInv, UNCHANGED <<queueVars, dr, line, txie, char>>,
           \/ pc = "queue" /\ pc' = (IF isEmpty THEN "register" ELSE "push")
           \/ pc = "register" /\ pc' = (IF dr = Zero THEN "direct" ELSE "push")
           \/ pc = "push" /\ pc' = "queue"
    PROVE  UartInv' /\ Unseen
<1>2. UNCHANGED <<QueueKept, Stored, isEmpty, isFull>>
  BY QueueSame
<1>3. UartInv'
  BY <1>2 DEF UartInv, CallKept, Armed, Writing
<1>4. UNCHANGED <<Reg, Kept, Held, Writing>>
  BY <1>2 DEF Reg, Kept, Held, Writing
<1> QED  BY <1>3, <1>4 DEF Unseen, Waiting

LEMMA UartStep ==
    ASSUME UartInv, Uart!Next
    PROVE  UartInv' /\ StreamStep
<1> USE DEF Uart!callVars, Uart!regVars, queueVars, Uart!queueVars, Uart!Goto, Uart!Returns, Uart!isTransmitRegisterEmpty
<1> DEFINE Base == Reg \o Kept
<1>0. Parts /\ StoredOK /\ Base \in Seq(Byte)
  BY PartsAreBytes, ConcatProperties DEF Parts
<1>w. Waiting \in Seq(Byte)
  BY <1>0, ConcatProperties DEF Parts, Waiting
<1>1. CASE Uart!Write
  <2>1. /\ pc = "idle" /\ pc' = "queue" /\ char' \in Byte
        /\ UNCHANGED <<queueVars, dr, line, txie>>
    BY <1>1, SameQueue DEF Uart!Write
  <2>2. UNCHANGED <<QueueKept, Stored, isEmpty, isFull>>
    BY <2>1, QueueSame
  <2>3. UartInv'
    BY <2>1, <2>2 DEF UartInv, CallKept, Armed, Writing
  <2>4. Base' = Base /\ Held = <<>> /\ Held' = <<char'>>
    BY <2>1, <2>2 DEF Reg, Kept, Held, Writing
  <2>5. Waiting = Base /\ Waiting' = Base \o <<char'>>
    BY <1>0, <2>4, ConcatEmptySeq DEF Waiting
  <2>6. Waiting' = Append(Waiting, char')
    BY <1>0, <2>1, <2>5, AppendIsConcat
  <2> QED  BY <2>1, <2>3, <2>6 DEF StreamStep, Appends, Writing
<1>2. CASE Uart!LookAtQueue \/ Uart!LookAtRegister \/ Uart!PushFull
  BY <1>2, LookStep, SameQueue
     DEF Uart!LookAtQueue, Uart!LookAtRegister, Uart!PushFull, StreamStep
<1>3. CASE Uart!WriteDirect
  <2>1. /\ pc = "direct" /\ pc' = "idle" /\ dr' = char /\ char' = Zero
        /\ UNCHANGED <<queueVars, line, txie>>
    BY <1>3, SameQueue DEF Uart!WriteDirect
  <2>2. UNCHANGED <<QueueKept, Stored, isEmpty, isFull>>
    BY <2>1, QueueSame
  <2>3. isEmpty /\ dr = Zero /\ char \in Byte /\ char # Zero
    BY <2>1, QueueAssumption DEF UartInv, CallKept, Writing
  <2>4. UartInv'
    BY <2>1, <2>2, <2>3 DEF UartInv, CallKept, Armed, Writing
  <2>5. Reg = <<>> /\ Kept = <<>> /\ Held = <<char>>
    BY <1>0, <2>1, <2>3 DEF Reg, Kept, Held, Writing, StoredOK
  <2>6. Reg' = <<char>> /\ Kept' = <<>> /\ Held' = <<>>
    BY <1>0, <2>1, <2>2, <2>3 DEF Reg, Kept, Held, Writing, StoredOK
  <2>7. <<char>> \in Seq(Byte) /\ <<>> \in Seq(Byte)
    BY <2>3
  <2>8. Waiting' = Waiting
    BY <2>5, <2>6, <2>7, ConcatEmptySeq DEF Waiting
  <2> QED  BY <2>1, <2>4, <2>8 DEF StreamStep, Finishes, Writing
<1>4. CASE Uart!PushStore
  <2>1. /\ pc = "push" /\ pc' = "publish" /\ ~isFull /\ store(char)
        /\ UNCHANGED <<dr, line, txie, char>>
    BY <1>4, SameQueue DEF Uart!PushStore
  <2>2. QueueKept /\ char \in Byte
    BY <2>1 DEF UartInv, CallKept, Writing
  <2>3. QueueKept' /\ Stored' = Stored /\ ring'[head] = char
    BY <2>1, <2>2, StoreKeepsStored
  <2>4. UNCHANGED <<isEmpty, isFull, head>>
    BY <2>1 DEF store, isEmpty, isFull, After
  <2>5. UartInv'
    BY <2>1, <2>2, <2>3, <2>4 DEF UartInv, CallKept, Armed, Writing
  <2>6. Waiting' = Waiting
    BY <2>1, <2>3 DEF Waiting, Reg, Kept, Held, Writing
  <2> QED  BY <2>1, <2>5, <2>6 DEF StreamStep, Unseen, Writing
<1>5. CASE Uart!PushPublish
  <2>1. /\ pc = "publish" /\ pc' = "enable" /\ publish
        /\ UNCHANGED <<dr, line, txie, char>>
    BY <1>5, SameQueue DEF Uart!PushPublish
  <2>2. QueueKept /\ ~isFull /\ ring[head] = char /\ char \in Byte
    BY <2>1 DEF UartInv, CallKept, Writing
  <2>3. QueueKept' /\ Stored' = Append(Stored, char)
    BY <2>1, <2>2, PublishAppends
  <2>4. UartInv'
    BY <2>1, <2>3 DEF UartInv, CallKept, Armed, Writing
  <2>5. Reg' = Reg /\ Kept = Stored /\ Kept' = Stored \o <<char>> /\ Held = <<char>> /\ Held' = <<>>
    BY <1>0, <2>1, <2>2, <2>3, AppendIsConcat DEF Reg, Kept, Held, Writing, StoredOK
  <2>6. <<char>> \in Seq(Byte) /\ Stored \o <<char>> \in Seq(Byte)
    BY <1>0, <2>2, ConcatProperties DEF StoredOK
  <2>7. Waiting' = Reg \o (Stored \o <<char>>)
    BY <1>0, <2>5, <2>6, ConcatProperties, ConcatEmptySeq DEF Waiting, Parts
  <2>8. Waiting' = Waiting
    BY <1>0, <2>5, <2>6, <2>7, ConcatAssociative DEF Waiting, Parts, StoredOK
  <2> QED  BY <2>1, <2>4, <2>8 DEF StreamStep, Unseen, Writing
<1>6. CASE Uart!EnableTxEmpty
  <2>1. /\ pc = "enable" /\ pc' = "idle" /\ txie' = TRUE /\ char' = Zero
        /\ UNCHANGED <<queueVars, dr, line>>
    BY <1>6, SameQueue DEF Uart!EnableTxEmpty
  <2>2. UNCHANGED <<QueueKept, Stored, isEmpty, isFull>>
    BY <2>1, QueueSame
  <2>3. UartInv'
    BY <2>1, <2>2 DEF UartInv, CallKept, Armed, Writing
  <2>4. Waiting' = Waiting
    BY <2>1, <2>2 DEF Waiting, Reg, Kept, Held, Writing
  <2> QED  BY <2>1, <2>3, <2>4 DEF StreamStep, Finishes, Writing
<1>7. CASE Uart!Flush \/ Uart!FlushQueue \/ Uart!FlushRegister \/ Uart!DiscardEnds
  <2>1. /\ pc \in {"idle", "flush", "flushed", "discard"}
        /\ pc' \in {"idle", "flush", "flushed"}
        /\ pc = "discard" => isEmpty
        /\ UNCHANGED <<queueVars, dr, line, txie, char>>
    BY <1>7, SameQueue DEF Uart!Flush, Uart!FlushQueue, Uart!FlushRegister, Uart!DiscardEnds
  <2>2. UNCHANGED <<QueueKept, Stored, isEmpty, isFull>>
    BY <2>1, QueueSame
  <2>3. UartInv'
    BY <2>1, <2>2 DEF UartInv, CallKept, Armed, Writing
  <2>4. UNCHANGED <<Reg, Kept, Held>>
    BY <1>0, <2>1, <2>2 DEF Reg, Kept, Held, Writing, StoredOK
  <2> QED  BY <2>1, <2>3, <2>4 DEF StreamStep, Unseen, Waiting, Writing
<1>8. CASE Uart!discardTransmitBuffer
  <2>1. /\ pc = "idle" /\ pc' = "discard" /\ txie' = FALSE
        /\ UNCHANGED <<queueVars, dr, line, char>>
    BY <1>8, SameQueue DEF Uart!discardTransmitBuffer
  <2>2. UNCHANGED <<QueueKept, Stored, isEmpty, isFull>>
    BY <2>1, QueueSame
  <2>3. UartInv'
    BY <2>1, <2>2 DEF UartInv, CallKept, Armed, Writing
  <2>4. Reg' = Reg /\ Kept' = <<>> /\ Held = <<>> /\ Held' = <<>>
    BY <2>1 DEF Reg, Kept, Held, Writing
  <2>5. Waiting' = Reg
    BY <1>0, <2>4, ConcatEmptySeq DEF Waiting, Parts
  <2>6. Waiting = Base
    BY <1>0, <2>4, ConcatEmptySeq DEF Waiting
  <2>7. Len(Reg) \in Nat /\ Len(Reg) <= Len(Base) /\ \A i \in 1..Len(Reg) : Base[i] = Reg[i]
    BY <1>0, ConcatProperties, LenProperties DEF Parts
  <2>8. IsPrefix(Reg, Base)
    <3> HIDE DEF Base
    <3> QED  BY <1>0, <2>7, PrefixIs DEF Parts
  <2>9. IsPrefix(Waiting', Waiting)
    BY <2>5, <2>6, <2>8
  <2> QED  BY <2>1, <2>3, <2>9 DEF StreamStep, Forgets, Writing
<1>9. CASE Uart!DiscardPop
  <2>1. /\ pc = "discard" /\ ~isEmpty /\ pop
        /\ UNCHANGED <<pc, dr, line, txie, char>>
    BY <1>9, SameQueue DEF Uart!DiscardPop
  <2>2. QueueKept'
    BY <2>1, PopTakesOldest DEF UartInv
  <2>3. UartInv'
    BY <2>1, <2>2 DEF UartInv, CallKept, Armed, Writing
  <2>4. UNCHANGED <<Reg, Kept, Held>>
    BY <2>1 DEF Reg, Kept, Held, Writing
  <2> QED  BY <2>1, <2>3, <2>4 DEF StreamStep, Unseen, Waiting, Writing
<1>10. CASE Uart!TransmitNext
  <2>1. /\ txie /\ dr = Zero /\ ~isEmpty /\ dr' = get /\ pop
        /\ UNCHANGED <<pc, line, txie, char>>
    BY <1>10, SameQueue DEF Uart!TransmitNext, Uart!Pended
  <2>2. pc \notin {"register", "direct", "discard"}
    BY <2>1 DEF UartInv, CallKept
  <2>3. QueueKept' /\ get \in Byte /\ Stored = <<get>> \o Stored'
    BY <2>1, PopTakesOldest DEF UartInv
  <2>4. ASSUME ~isFull PROVE ~isFull'
    BY <2>1, <2>4, QueueAssumption
       DEF UartInv, QueueKept, QueueOK, Slots, pop, isFull, isEmpty, After
  <2>5. UartInv'
    <3>1. ring' = ring /\ head' = head
      BY <2>1 DEF pop
    <3>2. CallKept'
      BY <2>1, <2>2, <2>4, <3>1 DEF UartInv, CallKept, Writing
    <3> QED  BY <2>1, <2>3, <3>2 DEF UartInv, Armed
  <2>6. Reg = <<>> /\ Reg' = <<get>> /\ Kept = Stored /\ Kept' = Stored' /\ Held' = Held
    BY <2>1, <2>2, <2>3, QueueAssumption DEF Reg, Kept, Held, Writing
  <2>7. Reg \o Kept = Reg' \o Kept'
    BY <1>0, <2>3, <2>6, ConcatEmptySeq DEF StoredOK
  <2> QED  BY <2>1, <2>5, <2>6, <2>7 DEF StreamStep, Unseen, Waiting, Writing
<1>11. CASE Uart!TransmitEnds
  <2>1. isEmpty /\ txie' = FALSE /\ UNCHANGED <<queueVars, pc, dr, line, char>>
    BY <1>11, SameQueue DEF Uart!TransmitEnds
  <2>2. UNCHANGED <<QueueKept, Stored, isEmpty, isFull>>
    BY <2>1, QueueSame
  <2>3. UartInv'
    BY <2>1, <2>2 DEF UartInv, CallKept, Armed, Writing, queueVars
  <2>4. UNCHANGED <<Reg, Kept, Held>>
    BY <2>1, <2>2 DEF Reg, Kept, Held, Writing
  <2> QED  BY <2>1, <2>3, <2>4 DEF StreamStep, Unseen, Waiting, Writing
<1>12. CASE Uart!Shift
  <2>1. dr # Zero /\ line' = <<dr>> /\ dr' = Zero /\ UNCHANGED <<queueVars, pc, txie, char>>
    BY <1>12, SameQueue DEF Uart!Shift
  <2>2. UNCHANGED <<QueueKept, Stored, isEmpty, isFull>>
    BY <2>1, QueueSame
  <2>3. UartInv'
    BY <2>1, <2>2 DEF UartInv, CallKept, Armed, Writing, queueVars
  <2>4. Reg = <<dr>> /\ Reg' = <<>> /\ Kept' = Kept /\ Held' = Held /\ dr \in Byte
    BY <2>1, <2>2 DEF Reg, Kept, Held, Writing, UartInv
  <2>5. <<dr>> \in Seq(Byte) /\ Kept \o Held \in Seq(Byte)
    BY <1>0, <2>4, ConcatProperties DEF Parts
  <2>6. Waiting' = Kept \o Held
    BY <1>0, <2>4, ConcatEmptySeq DEF Waiting, Parts
  <2>7. Waiting = <<dr>> \o Waiting'
    BY <1>0, <2>4, <2>6, ConcatAssociative DEF Waiting, Parts
  <2>8. Len(Waiting) = 1 + Len(Waiting') /\ Waiting[1] = dr /\ Waiting' \in Seq(Byte)
    BY <2>5, <2>6, <2>7, ConcatProperties, LenProperties
  <2>9. SubSeq(Waiting, 1, 1) = <<dr>>
    <3>1. /\ SubSeq(Waiting, 1, 1) \in Seq(Byte) /\ Len(SubSeq(Waiting, 1, 1)) = 1
          /\ SubSeq(Waiting, 1, 1)[1] = dr
      BY <2>4, <2>8, SubSeqProperties
    <3>2. <<dr>> \in Seq(Byte) /\ Len(<<dr>>) = 1 /\ <<dr>>[1] = dr
      BY <2>4
    <3>3. \A i \in 1..Len(SubSeq(Waiting, 1, 1)) : SubSeq(Waiting, 1, 1)[i] = <<dr>>[i]
      BY <3>1, <3>2
    <3> QED  BY <3>1, <3>2, <3>3, SeqEqual
  <2>10. Waiting' = SubSeq(Waiting, 2, Len(Waiting))
    <3> DEFINE W == Waiting
               R == Waiting'
    <3>1. /\ R \in Seq(Byte) /\ W \in Seq(Byte) /\ Len(W) = 1 + Len(R) /\ Len(R) \in Nat
          /\ \A i \in 1..Len(R) : R[i] = W[i + 1]
      BY <1>w, <2>5, <2>7, <2>8, ConcatProperties, LenProperties
    <3> HIDE DEF W, R
    <3>2. 1 \in 0..Len(W) /\ Len(R) = Len(W) - 1
      BY <3>1
    <3>3. R = SubSeq(W, 1 + 1, Len(W))
      BY <3>1, <3>2, Dropped
    <3> QED  BY <3>3 DEF W, R
  <2>11. 1 <= Len(Waiting)
    BY <2>8, LenProperties
  <2> QED  BY <2>1, <2>3, <2>9, <2>10, <2>11 DEF StreamStep, SendsOne, Writing
<1> QED
  BY <1>1, <1>2, <1>3, <1>4, <1>5, <1>6, <1>7, <1>8, <1>9, <1>10, <1>11, <1>12
     DEF Uart!Next, Uart!InCall, Uart!Interrupt

-----------------------------------------------------------------------------
(* The stream of ByteStream, where the device is the UART *)

OnUart == Device = "Uart"
Mapped == Pending = Waiting /\ Uart!writing = Writing

LEMMA MappedIs == OnUart => Mapped
BY SameQueue DEF OnUart, Mapped, Pending, Uart!Pending, Uart!writing, Waiting, Reg, Kept, Held, Writing

LEMMA LogNextInv == Inv /\ [LogNext]_logVars => Inv'
<1> SUFFICES ASSUME Inv, [LogNext]_logVars, Device' = "Uart" PROVE UartInv'
  BY DEF Inv
<1>1. Device = "Uart" /\ UartInv
  BY DEF Inv, LogNext, logVars
<1>2. CASE Uart!Next
  BY <1>1, <1>2, UartStep
<1>3. CASE UNCHANGED logVars
  BY <1>1, <1>3, QueueSame DEF logVars, uartVars, queueVars, UartInv, CallKept, Armed, Writing
<1> QED  BY <1>1, <1>2, <1>3 DEF LogNext

(* No byte is left in the queue without an interrupt that will send it,     *)
(* wherever the transmit interrupt falls between the statements of a call.   *)
THEOREM UartStrandsNone == LogSpec => []NoneStranded
<1>1. Inv => NoneStranded
  BY SameQueue DEF Inv, UartInv, Armed, NoneStranded, Uart!NoneStranded
<1> QED  BY <1>1, InitUart, LogNextInv, PTL DEF LogSpec

(* The UART is a stream of bytes: what is written leaves in its order, once, *)
(* and no call returns before its byte is stored.                            *)
LEMMA UartStreamInit == LogInit /\ Device = "Uart" => Stream!Init
<1> SUFFICES ASSUME LogInit, Device = "Uart" PROVE Stream!Init
  OBVIOUS
<1>1. dr = Zero /\ pc = "idle" /\ line = <<>> /\ isEmpty /\ UartInv
  BY InitUart DEF LogInit, Uart!DeviceInit, Uart!QueueInit, isEmpty, Inv
<1>2. StoredOK
  BY <1>1, PartsAreBytes
<1>3. Reg = <<>> /\ Kept = <<>> /\ Held = <<>> /\ ~Writing
  BY <1>1, <1>2 DEF Reg, Kept, Held, Writing, StoredOK
<1>4. Waiting = <<>>
  BY <1>3, ConcatEmptySeq, EmptySeq DEF Waiting
<1> QED  BY <1>1, <1>3, <1>4, MappedIs DEF Stream!Init, OnUart, Mapped

LEMMA UartStreamNext ==
    Inv /\ [LogNext]_logVars /\ Device = "Uart" => Stream!Next \/ UNCHANGED Stream!vars
<1> SUFFICES ASSUME Inv, [LogNext]_logVars, Device = "Uart"
             PROVE  Stream!Next \/ UNCHANGED Stream!vars
  OBVIOUS
<1>1. Device' = "Uart" /\ UartInv
  BY DEF Inv, LogNext, logVars
<1>a. OnUart /\ OnUart'
  BY <1>1 DEF OnUart
<1>b. Mapped /\ Mapped'
  BY <1>a, MappedIs, PTL
<1>2. Pending = Waiting /\ Pending' = Waiting' /\ Uart!writing = Writing /\ Uart!writing' = Writing'
  BY <1>b DEF Mapped
<1>3. CASE UNCHANGED logVars
  <2>1. UNCHANGED <<dr, pc, char, line, Writing, Stored>>
    BY <1>3, QueueSame DEF logVars, uartVars, queueVars, Writing
  <2>2. Waiting' = Waiting
    BY <2>1 DEF Waiting, Reg, Kept, Held
  <2> QED  BY <1>1, <1>2, <2>1, <2>2 DEF Stream!vars
<1>4. CASE Uart!Next
  <2>1. StreamStep
    BY <1>1, <1>4, UartStep
  <2>2. CASE Unseen
    BY <1>1, <1>2, <2>2 DEF Unseen, Stream!vars
  <2>3. CASE Appends
    BY <1>1, <1>2, <2>3 DEF Appends, Stream!Next, Stream!Write
  <2>4. CASE Finishes
    BY <1>1, <1>2, <2>4 DEF Finishes, Stream!Next, Stream!Written
  <2>5. CASE SendsOne
    BY <1>1, <1>2, <2>5 DEF SendsOne, Stream!Next, Stream!Send, Stream!Drop
  <2>6. CASE Forgets
    BY <1>1, <1>2, <2>6 DEF Forgets, Stream!Next, Stream!Delete, IsPrefix, Stream!IsPrefix
  <2> QED  BY <2>1, <2>2, <2>3, <2>4, <2>5, <2>6 DEF StreamStep
<1> QED  BY <1>3, <1>4 DEF LogNext

-----------------------------------------------------------------------------
(* The log device over the ITM *)

(* The bytes in the ring and in the used part of the word are bytes that   *)
(* were written, and so is the one in a call.                               *)
ItmInv ==
    /\ Itm!QueueOK
    /\ \A k \in 1..Itm!getSize : ring[Itm!SlotOf(k - 1)] \in Byte
    /\ word \in Seq(Byte \cup {Zero}) /\ Len(word) = 4 /\ size \in 0..4
    /\ \A i \in 1..size : word[4 - size + i] \in Byte
    /\ pc \in {"idle", "push", "update", "flush"}
    /\ Itm!writing => char \in Byte
    /\ enabled \in BOOLEAN

(* The slots in use, as in Slotting *)
LEMMA ItmSlotting ==
    ASSUME Itm!QueueOK
    PROVE  /\ Itm!getSize \in Nat /\ Itm!getSize <= ItmSize /\ ItmSize \in Nat \ {0}
           /\ Itm!isEmpty <=> Itm!getSize = 0
           /\ Itm!isFull <=> Itm!getSize = ItmSize
           /\ \A k \in 1..Itm!getSize : Itm!SlotOf(k - 1) \in Itm!Slots /\ Itm!SlotOf(k - 1) # head
           /\ Itm!getSize < ItmSize => Itm!SlotOf(Itm!getSize) = head
BY ItmAssumption DEF Itm!QueueOK, Itm!Slots, Itm!getSize, Itm!isEmpty, Itm!isFull, Itm!After, Itm!SlotOf

(* What is written and not sent, byte by byte: the used part of the word,   *)
(* the ring, the byte in the call.                                          *)
ItmByte(i) ==
    IF i <= size THEN word[4 - size + i]
    ELSE IF i <= size + Itm!getSize THEN ring[Itm!SlotOf(i - size - 1)]
    ELSE char
ItmCount == size + Itm!getSize + (IF Itm!writing THEN 1 ELSE 0)

LEMMA ItmStored ==
    ASSUME ItmInv
    PROVE  /\ Itm!Stored \in Seq(Byte) /\ Len(Itm!Stored) = Itm!getSize
           /\ \A k \in 1..Itm!getSize : Itm!Stored[k] = ring[Itm!SlotOf(k - 1)]
<1>1. Itm!getSize \in Nat
  BY ItmSlotting DEF ItmInv
<1>2. \A k \in 1..Itm!getSize : ring[Itm!SlotOf(k - 1)] \in Byte
  BY DEF ItmInv
<1> QED BY <1>1, <1>2 DEF Itm!Stored

ItmListed ==
    /\ Itm!Pending \in Seq(Byte) /\ Len(Itm!Pending) = ItmCount /\ ItmCount \in Nat
    /\ \A i \in 1..ItmCount : Itm!Pending[i] = ItmByte(i)

LEMMA ItmWaiting == ItmInv => ItmListed
<1> SUFFICES ASSUME ItmInv PROVE ItmListed
  OBVIOUS
<1> DEFINE g == Itm!getSize
           W == SubSeq(word, 5 - size, 4)
           C == IF Itm!writing THEN <<char>> ELSE << >>
<1>1. g \in Nat /\ size \in 0..4
  BY ItmSlotting DEF ItmInv
<1>2. W \in Seq(Byte) /\ Len(W) = size /\ \A i \in 1..size : W[i] = word[4 - size + i]
  <2>1. \A i \in 5 - size..4 : word[i] \in Byte
    <3>1. \A i \in 5 - size..4 : i - (4 - size) \in 1..size /\ 4 - size + (i - (4 - size)) = i
      BY <1>1
    <3> QED BY <3>1 DEF ItmInv
  <2>2. 5 - size \in Int /\ 4 \in Int
    BY <1>1
  <2>3. /\ W \in Seq(Byte) /\ Len(W) = (IF 5 - size <= 4 THEN 4 - (5 - size) + 1 ELSE 0)
        /\ \A i \in 1..4 - (5 - size) + 1 : W[i] = word[(5 - size) + i - 1]
    BY <2>1, <2>2, SubSeqProperties
  <2> QED BY <1>1, <2>3
<1>3. C \in Seq(Byte) /\ Len(C) = (IF Itm!writing THEN 1 ELSE 0) /\ (Itm!writing => C[1] = char)
  BY DEF ItmInv
<1>4. /\ Itm!Stored \in Seq(Byte) /\ Len(Itm!Stored) = g
      /\ \A k \in 1..g : Itm!Stored[k] = ring[Itm!SlotOf(k - 1)]
  BY ItmStored
<1>5. Itm!Pending = (W \o Itm!Stored) \o C
  BY DEF Itm!Pending
<1> DEFINE V == W \o Itm!Stored
<1>6. /\ V \in Seq(Byte) /\ Len(V) = size + g
      /\ \A i \in 1..size + g : V[i] = IF i <= size THEN W[i] ELSE Itm!Stored[i - size]
  <2> HIDE DEF W, g
  <2> QED BY <1>2, <1>4, ConcatProperties
<1>7. /\ V \o C \in Seq(Byte) /\ Len(V \o C) = size + g + Len(C)
      /\ \A i \in 1..size + g + Len(C) : (V \o C)[i] = IF i <= size + g THEN V[i] ELSE C[i - (size + g)]
  <2> HIDE DEF V, C, g
  <2> QED BY <1>3, <1>6, ConcatProperties
<1>8. \A i \in 1..size + g + Len(C) : (V \o C)[i] = ItmByte(i)
  <2> SUFFICES ASSUME NEW i \in 1..size + g + Len(C) PROVE (V \o C)[i] = ItmByte(i)
    OBVIOUS
  <2>0. Len(C) \in Nat /\ i \in Int
    BY <1>1, <1>3
  <2> HIDE DEF W, V, C
  <2>1. CASE i <= size
    BY <1>1, <1>2, <1>6, <1>7, <2>1 DEF ItmByte
  <2>2. CASE i > size /\ i <= size + g
    <3>1. i - size \in 1..g /\ (i - size) - 1 = i - size - 1
      BY <1>1, <2>2
    <3>2. (V \o C)[i] = Itm!Stored[i - size]
      BY <1>1, <1>6, <1>7, <2>2
    <3> QED BY <1>1, <1>4, <2>2, <3>1, <3>2 DEF ItmByte
  <2>3. CASE i > size + g
    <3>1. Itm!writing /\ i - (size + g) = 1
      BY <1>1, <1>3, <2>3
    <3>2. (V \o C)[i] = C[i - (size + g)]
      BY <1>1, <1>7, <2>0, <2>3
    <3>3. C[i - (size + g)] = char
      BY <1>3, <3>1
    <3>4. ~(i <= size) /\ ~(i <= size + g)
      BY <1>1, <2>3
    <3> QED BY <3>2, <3>3, <3>4 DEF ItmByte
  <2>4. i <= size \/ (i > size /\ i <= size + g) \/ i > size + g
    BY <1>1, <2>0
  <2> QED BY <2>4, <2>1, <2>2, <2>3
<1>9. ItmCount = size + g + Len(C) /\ ItmCount \in Nat
  BY <1>1, <1>3 DEF ItmCount
<1> QED BY <1>5, <1>7, <1>8, <1>9 DEF ItmListed

(* Two ways to compare what is pending with what was *)
LEMMA ItmSame ==
    ASSUME ItmInv, ItmInv', ItmCount' = ItmCount, \A i \in 1..ItmCount : ItmByte(i)' = ItmByte(i)
    PROVE  Itm!Pending' = Itm!Pending
<1>1. ItmListed /\ ItmListed'
  BY ItmWaiting, PTL
<1> QED BY <1>1, SeqEqual DEF ItmListed

(* A call of write begins; it has one byte more *)
LEMMA ItmBegins ==
    ASSUME ItmInv, Itm!Write
    PROVE  ItmInv' /\ ~Itm!writing /\ Itm!writing' /\ Itm!Pending' = Append(Itm!Pending, char') /\ char' \in Byte
<1> USE DEF Itm!queueVars, Itm!wordVars, Itm!portVars
<1>1. /\ pc = "idle" /\ pc' = "push" /\ char' \in Byte
      /\ UNCHANGED <<head, tail, ring, word, size, port, busy, enabled>>
  BY DEF Itm!Write
<1>2. UNCHANGED <<Itm!QueueOK, Itm!getSize>> /\ \A k : Itm!SlotOf(k)' = Itm!SlotOf(k)
  BY <1>1 DEF Itm!QueueOK, Itm!Slots, Itm!getSize, Itm!SlotOf
<1>3. ItmInv' /\ ~Itm!writing /\ Itm!writing'
  BY <1>1, <1>2 DEF ItmInv, Itm!writing
<1>4. ItmListed /\ ItmListed'
  BY <1>3, ItmWaiting, PTL
<1>5. size \in 0..4 /\ Itm!getSize \in Nat
  BY ItmSlotting DEF ItmInv
<1>6. ItmCount' = ItmCount + 1 /\ ItmCount = size + Itm!getSize
  BY <1>1, <1>2, <1>3, <1>5 DEF ItmCount
<1>7. \A i \in 1..ItmCount : ItmByte(i)' = ItmByte(i)
  BY <1>1, <1>2, <1>5, <1>6 DEF ItmByte
<1>8. \A i : i = ItmCount + 1 => ItmByte(i)' = char'
  BY <1>1, <1>2, <1>5, <1>6 DEF ItmByte
<1> DEFINE p == Itm!Pending
           q == Itm!Pending'
<1>9. /\ Append(p, char') \in Seq(Byte) /\ Len(Append(p, char')) = Len(p) + 1
      /\ \A i \in 1..Len(p) : Append(p, char')[i] = p[i]
      /\ Append(p, char')[Len(p) + 1] = char'
  BY <1>1, <1>4, AppendProperties DEF ItmListed
<1>10. /\ q \in Seq(Byte) /\ Len(q) = Len(p) + 1 /\ Len(p) \in Nat
       /\ \A i \in 1..Len(p) : q[i] = p[i]
       /\ q[Len(p) + 1] = char'
  <2>1. Len(p) = ItmCount /\ ItmCount \in Nat /\ Len(q) = ItmCount + 1 /\ q \in Seq(Byte)
    BY <1>4, <1>6 DEF ItmListed
  <2>2. \A i \in 1..ItmCount : i \in 1..ItmCount + 1
    BY <2>1
  <2>3. ItmCount + 1 \in 1..ItmCount + 1
    BY <2>1
  <2>4. \A i \in 1..ItmCount + 1 : q[i] = ItmByte(i)'
    BY <1>4, <1>6 DEF ItmListed
  <2>5. \A i \in 1..ItmCount : p[i] = ItmByte(i)
    BY <1>4 DEF ItmListed
  <2>6. q[ItmCount + 1] = char'
    BY <1>8, <2>3, <2>4
  <2>7. \A i \in 1..ItmCount : q[i] = p[i]
    BY <1>7, <2>2, <2>4, <2>5
  <2> QED BY <2>1, <2>6, <2>7
<1>11. q = Append(p, char')
  <2> HIDE DEF p, q
  <2>1. \A i \in 1..Len(q) : q[i] = Append(p, char')[i]
    BY <1>9, <1>10
  <2> QED BY <1>9, <1>10, <2>1, SeqEqual
<1> QED BY <1>1, <1>3, <1>11

(* push: the byte of the call is the newest in the ring *)
LEMMA ItmPushes ==
    ASSUME ItmInv, Itm!Push
    PROVE  ItmInv' /\ Itm!writing /\ ~Itm!writing' /\ Itm!Pending' = Itm!Pending
<1> USE DEF Itm!wordVars, Itm!portVars
<1>1. /\ pc = "push" /\ pc' = "idle" /\ ~Itm!isFull
      /\ ring' = [ring EXCEPT ![head] = char] /\ head' = Itm!After(head)
      /\ UNCHANGED <<tail, word, size, enabled>>
  BY DEF Itm!Push
<1>2. /\ Itm!getSize \in Nat /\ Itm!getSize < ItmSize /\ Itm!SlotOf(Itm!getSize) = head
      /\ ItmSize \in Nat \ {0} /\ head \in Itm!Slots /\ char \in Byte /\ Itm!QueueOK
      /\ Itm!writing
  BY <1>1, ItmSlotting DEF ItmInv, Itm!QueueOK, Itm!writing
<1>3. Itm!QueueOK' /\ Itm!getSize' = Itm!getSize + 1
  BY <1>1, <1>2 DEF Itm!QueueOK, Itm!Slots, Itm!getSize, Itm!isFull, Itm!After
<1>4. \A k : Itm!SlotOf(k)' = Itm!SlotOf(k)
  BY <1>1 DEF Itm!SlotOf
<1>5. /\ \A k \in 1..Itm!getSize : ring'[Itm!SlotOf(k - 1)] = ring[Itm!SlotOf(k - 1)]
      /\ ring'[head] = char
  BY <1>1, <1>2, ItmSlotting DEF Itm!QueueOK
<1>6. \A k \in 1..Itm!getSize' : k \in 1..Itm!getSize \/ (k = Itm!getSize + 1 /\ k - 1 = Itm!getSize)
  BY <1>2, <1>3
<1>7. ItmInv' /\ ~Itm!writing'
  <2>1. \A k \in 1..Itm!getSize' : ring'[Itm!SlotOf(k - 1)'] \in Byte
    BY <1>2, <1>4, <1>5, <1>6 DEF ItmInv
  <2> QED BY <1>1, <1>3, <2>1 DEF ItmInv, Itm!writing
<1>8. ItmCount' = ItmCount /\ size \in 0..4 /\ ItmCount = size + Itm!getSize + 1
  BY <1>1, <1>2, <1>3, <1>7 DEF ItmCount, ItmInv
<1>9. ASSUME NEW i \in 1..ItmCount PROVE ItmByte(i)' = ItmByte(i)
  <2>1. CASE i <= size
    BY <1>1, <2>1 DEF ItmByte
  <2>2. CASE i > size /\ i <= size + Itm!getSize
    <3>1. i - size \in 1..Itm!getSize /\ i <= size + Itm!getSize' /\ (i - size) - 1 = i - size - 1
      BY <1>2, <1>3, <1>8, <2>2
    <3>2. ring'[Itm!SlotOf(i - size - 1)] = ring[Itm!SlotOf(i - size - 1)]
      BY <1>5, <3>1
    <3>3. ~(i <= size)
      BY <1>8, <2>2
    <3> QED BY <1>1, <1>4, <2>2, <3>1, <3>2, <3>3 DEF ItmByte
  <2>3. CASE i = size + Itm!getSize + 1
    <3>1. /\ ~(i <= size) /\ ~(i <= size + Itm!getSize) /\ i <= size + Itm!getSize'
          /\ i - size - 1 = Itm!getSize
      BY <1>2, <1>3, <1>8, <2>3
    <3> QED BY <1>1, <1>2, <1>4, <1>5, <3>1 DEF ItmByte
  <2>4. i <= size \/ (i > size /\ i <= size + Itm!getSize) \/ i = size + Itm!getSize + 1
    BY <1>2, <1>8
  <2> QED BY <2>1, <2>2, <2>3, <2>4
<1>10. Itm!Pending' = Itm!Pending
  BY <1>7, <1>8, <1>9, ItmSame
<1> QED BY <1>2, <1>7, <1>10

(* All of the ring is thrown away: what is left is the part in the word *)
LEMMA ItmForgets ==
    ASSUME ItmInv, Itm!discardTransmitBuffer
    PROVE  ItmInv' /\ ~Itm!writing /\ Itm!writing' = Itm!writing /\ IsPrefix(Itm!Pending', Itm!Pending)
<1> USE DEF Itm!wordVars, Itm!portVars, Itm!callVars
<1>1. pc = "idle" /\ tail' = head /\ UNCHANGED <<head, ring, word, size, pc, char, enabled>>
  BY DEF Itm!discardTransmitBuffer
<1>2. size \in 0..4 /\ Itm!getSize \in Nat /\ head \in Itm!Slots /\ ItmSize \in Nat
  BY ItmSlotting DEF ItmInv, Itm!QueueOK
<1>3. Itm!getSize' = 0 /\ Itm!QueueOK'
  BY <1>1, <1>2 DEF Itm!getSize, Itm!Slots, Itm!QueueOK, ItmInv
<1>4. ItmInv' /\ ~Itm!writing /\ ~Itm!writing' /\ Itm!writing' = Itm!writing
  BY <1>1, <1>3 DEF ItmInv, Itm!writing
<1>5. ItmListed /\ ItmListed'
  BY <1>4, ItmWaiting, PTL
<1>6. ItmCount' = size /\ ItmCount = size + Itm!getSize /\ size <= ItmCount
  BY <1>1, <1>2, <1>3, <1>4 DEF ItmCount
<1>7. \A i \in 1..size : ItmByte(i)' = ItmByte(i)
  BY <1>1 DEF ItmByte
<1> DEFINE p == Itm!Pending
           q == Itm!Pending'
<1>8. /\ p \in Seq(Byte) /\ q \in Seq(Byte) /\ Len(q) = size /\ Len(q) <= Len(p) /\ Len(p) \in Nat
      /\ \A i \in 1..Len(q) : q[i] = p[i]
  <2>1. \A i \in 1..size : i \in 1..ItmCount
    BY <1>2, <1>6
  <2> QED BY <1>1, <1>5, <1>6, <1>7, <2>1 DEF ItmListed
<1>9. IsPrefix(q, p)
  <2> HIDE DEF p, q
  <2> QED BY <1>8, PrefixIs
<1> QED BY <1>4, <1>9

(* What update() leaves of the queue: the oldest Moved bytes went on *)
LEMMA ItmMoves ==
    ASSUME ItmInv, Itm!update
    PROVE  /\ Itm!Moved \in 0..Itm!getSize /\ size + Itm!Moved \in 0..4
           /\ Itm!QueueOK' /\ Itm!getSize' = Itm!getSize - Itm!Moved
           /\ \A k \in 1..Itm!getSize - Itm!Moved :
                 ring'[Itm!SlotOf(k - 1)'] = ring[Itm!SlotOf(k + Itm!Moved - 1)]
<1> DEFINE m == Itm!Moved
           g == Itm!getSize
<1>1. g \in Nat /\ g <= ItmSize /\ ItmSize \in Nat \ {0} /\ size \in 0..4 /\ Itm!QueueOK
  BY ItmSlotting DEF ItmInv
<1>2. m \in 0..g /\ size + m \in 0..4 /\ m \in 0..ItmSize
  <2> HIDE DEF g
  <2> QED BY <1>1 DEF Itm!Moved, g
<1>3. tail' = Itm!SlotOf(m) /\ head' = head /\ ring' = ring
  BY DEF Itm!update
<1> HIDE DEF m
<1>4. Itm!QueueOK' /\ Itm!getSize' = g - m
  BY <1>1, <1>2, <1>3 DEF Itm!QueueOK, Itm!Slots, Itm!getSize, Itm!SlotOf
<1>5. ASSUME NEW k \in 1..g - m PROVE Itm!SlotOf(k - 1)' = Itm!SlotOf(k + m - 1)
  BY <1>1, <1>2, <1>3 DEF Itm!QueueOK, Itm!Slots, Itm!getSize, Itm!SlotOf
<1> QED BY <1>2, <1>3, <1>4, <1>5 DEF m

(* The word after the loop holds, at its end, the oldest bytes there are *)
LEMMA ItmFills ==
    ASSUME ItmInv, Itm!update
    PROVE  /\ Itm!Filled \in Seq(Byte \cup {Zero}) /\ Len(Itm!Filled) = 4
           /\ \A i \in 1..size + Itm!Moved : Itm!Filled[4 - (size + Itm!Moved) + i] = ItmByte(i)
<1> DEFINE m == Itm!Moved
           g == Itm!getSize
           V == word \o Itm!Stored
<1>1. m \in 0..g /\ size + m \in 0..4 /\ size \in 0..4 /\ g \in Nat
  BY ItmMoves, ItmSlotting DEF ItmInv
<1>2. /\ Itm!Stored \in Seq(Byte) /\ Len(Itm!Stored) = g
      /\ \A k \in 1..g : Itm!Stored[k] = ring[Itm!SlotOf(k - 1)]
  BY ItmStored
<1>3. word \in Seq(Byte \cup {Zero}) /\ Len(word) = 4 /\ Itm!Stored \in Seq(Byte \cup {Zero})
  BY <1>2, SeqMonotonic DEF ItmInv
<1>4. /\ V \in Seq(Byte \cup {Zero}) /\ Len(V) = 4 + g
      /\ \A i \in 1..4 + g : V[i] = IF i <= 4 THEN word[i] ELSE Itm!Stored[i - 4]
  <2> DEFINE T == Byte \cup {Zero}
             S == Itm!Stored
  <2>1. word \in Seq(T) /\ S \in Seq(T) /\ Len(word) = 4 /\ Len(S) = g
    BY <1>2, <1>3
  <2> HIDE DEF T, S, g
  <2>2. /\ word \o S \in Seq(T) /\ Len(word \o S) = Len(word) + Len(S)
        /\ \A i \in 1..Len(word) + Len(S) :
              (word \o S)[i] = IF i <= Len(word) THEN word[i] ELSE S[i - Len(word)]
    BY <2>1, ConcatProperties
  <2> QED BY <2>1, <2>2 DEF S, T
<1> DEFINE T == Byte \cup {Zero}
<1> HIDE DEF m, g, V, T
<1>5. \A i \in m + 1..m + 4 : V[i] \in T
  <2>1. \A i \in m + 1..m + 4 : i \in 1..Len(V)
    BY <1>1, <1>4
  <2> QED BY <1>4, <2>1, ElementOfSeq DEF T
<1>6. /\ SubSeq(V, m + 1, m + 4) \in Seq(T) /\ Len(SubSeq(V, m + 1, m + 4)) = 4
      /\ \A i \in 1..4 : SubSeq(V, m + 1, m + 4)[i] = V[m + i]
  <2>1. /\ SubSeq(V, m + 1, m + 4) \in Seq(T)
        /\ Len(SubSeq(V, m + 1, m + 4)) = (IF m + 1 <= m + 4 THEN (m + 4) - (m + 1) + 1 ELSE 0)
        /\ \A i \in 1..(m + 4) - (m + 1) + 1 : SubSeq(V, m + 1, m + 4)[i] = V[(m + 1) + i - 1]
    <3>1. m + 1 \in Int /\ m + 4 \in Int
      BY <1>1
    <3> QED BY <1>5, <3>1, SubSeqProperties
  <2>2. \A i \in 1..4 : (m + 1) + i - 1 = m + i
    BY <1>1
  <2> QED BY <1>1, <2>1, <2>2
<1>7. Itm!Filled = SubSeq(V, m + 1, m + 4)
  BY DEF Itm!Filled, V, m
<1>8. ASSUME NEW i \in 1..size + m PROVE Itm!Filled[4 - (size + m) + i] = ItmByte(i)
  <2>1. /\ 4 - (size + m) + i \in 1..4 /\ m + (4 - (size + m) + i) = 4 - size + i
        /\ 4 - size + i \in 1..4 + g
    BY <1>1
  <2>2. Itm!Filled[4 - (size + m) + i] = V[4 - size + i]
    BY <1>6, <1>7, <2>1
  <2>3. CASE i <= size
    <3>1. 4 - size + i <= 4
      BY <1>1, <2>3
    <3>2. V[4 - size + i] = word[4 - size + i]
      BY <1>4, <2>1, <3>1
    <3>3. ItmByte(i) = word[4 - size + i]
      BY <2>3 DEF ItmByte
    <3> QED BY <2>2, <3>2, <3>3
  <2>4. CASE i > size
    <3>1. /\ (4 - size + i) - 4 = i - size /\ i - size \in 1..g /\ (i - size) - 1 = i - size - 1
          /\ ~(4 - size + i <= 4) /\ ~(i <= size) /\ i <= size + g
      BY <1>1, <2>4
    <3> QED BY <1>2, <1>4, <2>1, <2>2, <3>1 DEF ItmByte, g
  <2> QED BY <1>1, <2>3, <2>4
<1> QED BY <1>6, <1>7, <1>8 DEF m, T

(* After update(), n bytes are gone from the front: none when the port did  *)
(* not take them, and else the frame.                                       *)
ItmGone == IF ~Itm!write_itm THEN 0 ELSE IF Itm!FilledSize = 3 THEN 2 ELSE Itm!FilledSize

LEMMA ItmUpdates ==
    ASSUME ItmInv, Itm!update, pc' \in {"idle", "push", "update", "flush"}, char' = char,
           Itm!writing' = Itm!writing
    PROVE  /\ ItmInv'
           /\ ItmGone \in 0..4 /\ ItmGone <= Len(Itm!Pending) /\ Itm!Pending \in Seq(Byte)
           /\ Itm!Pending' = SubSeq(Itm!Pending, ItmGone + 1, Len(Itm!Pending))
           /\ Itm!write_itm => Itm!Frame = SubSeq(Itm!Pending, 1, ItmGone)
<1> DEFINE m == Itm!Moved
           g == Itm!getSize
           s == Itm!FilledSize
           n == ItmGone
           F == Itm!Filled
<1>1. /\ m \in 0..g /\ s \in 0..4 /\ s = size + m /\ size \in 0..4 /\ g \in Nat
      /\ Itm!QueueOK' /\ Itm!getSize' = g - m
      /\ \A k \in 1..g - m : ring'[Itm!SlotOf(k - 1)'] = ring[Itm!SlotOf(k + m - 1)]
  BY ItmMoves, ItmSlotting DEF ItmInv, Itm!FilledSize
<1>2. /\ F \in Seq(Byte \cup {Zero}) /\ Len(F) = 4
      /\ \A i \in 1..s : F[4 - s + i] = ItmByte(i)
  BY <1>1, ItmFills
<1>3. /\ Itm!Pending \in Seq(Byte) /\ Len(Itm!Pending) = ItmCount /\ ItmCount \in Nat
      /\ \A i \in 1..ItmCount : Itm!Pending[i] = ItmByte(i)
  BY ItmWaiting DEF ItmListed
<1> DEFINE w == IF Itm!writing THEN 1 ELSE 0
<1>4. w \in 0..1 /\ ItmCount = size + g + w
  BY DEF ItmCount
<1>5. /\ size' = s - n /\ n \in 0..s /\ word' \in Seq(Byte \cup {Zero}) /\ Len(word') = 4
      /\ \A i \in 1..s - n : word'[4 - (s - n) + i] = F[4 - s + (i + n)]
  <2>1. CASE ~Itm!write_itm
    <3>1. n = 0 /\ word' = F /\ size' = s
      BY <2>1 DEF ItmGone, Itm!update
    <3> HIDE DEF n, s, F
    <3>2. \A i \in 1..s : 4 - s + i = 4 - s + (i + 0) /\ 4 - (s - 0) + i = 4 - s + i
      BY <1>1
    <3> QED BY <1>1, <1>2, <3>1, <3>2
  <2>2. CASE Itm!write_itm /\ s = 3
    <3>1. n = 2 /\ word' = <<Zero, Zero, Zero, F[4]>> /\ size' = 1
      BY <2>2 DEF ItmGone, Itm!update
    <3> HIDE DEF n, s, F
    <3>2. F[4] \in Byte \cup {Zero}
      <4> DEFINE T == Byte \cup {Zero}
      <4>1. F \in Seq(T) /\ 4 \in 1..Len(F)
        BY <1>2
      <4> HIDE DEF T
      <4>2. F[4] \in T
        BY <4>1, ElementOfSeq
      <4> QED BY <4>2 DEF T
    <3>3. word' \in Seq(Byte \cup {Zero}) /\ Len(word') = 4 /\ word'[4] = F[4]
      BY <3>1, <3>2
    <3>4. \A i \in 1..s - n : i = 1 /\ 4 - (s - n) + i = 4 /\ 4 - s + (i + n) = 4
      BY <2>2, <3>1
    <3> QED BY <2>2, <3>1, <3>3, <3>4
  <2>3. CASE Itm!write_itm /\ s # 3
    <3>1. n = s /\ word' = <<Zero, Zero, Zero, Zero>> /\ size' = 0
      BY <2>3 DEF ItmGone, Itm!update, Itm!NoWord
    <3> HIDE DEF n, s, F
    <3> QED BY <1>1, <3>1
  <2> QED BY <2>1, <2>2, <2>3
<1> HIDE DEF n, s, F
<1>0. /\ m \in Nat /\ g \in Nat /\ m <= g /\ size \in Nat /\ s = size + m /\ s <= 4
      /\ n \in Nat /\ n <= s
  BY <1>1, <1>5
(* Byte i afterwards is byte i + n before *)
<1>6. ASSUME NEW i \in 1..ItmCount - n PROVE ItmByte(i)' = Itm!Pending[i + n]
  <2>1. i + n \in 1..ItmCount /\ i \in Int
    BY <1>1, <1>3, <1>5
  <2>2. CASE i <= s - n
    <3>1. ItmByte(i)' = F[4 - s + (i + n)]
      BY <1>5, <2>1, <2>2 DEF ItmByte
    <3>2. i + n \in 1..s
      BY <1>1, <1>5, <2>1, <2>2
    <3> QED BY <1>2, <1>3, <2>1, <3>1, <3>2
  <2>3. CASE i > s - n /\ i <= s - n + (g - m)
    <3>1. ASSUME NEW k \in Int, k = i - (s - n) PROVE ItmByte(i)' = ring[Itm!SlotOf(k + m - 1)]
      <4>1. k \in 1..g - m /\ ~(i <= s - n)
        BY <1>0, <2>1, <2>3, <3>1
      <4>2. i - (s - n) - 1 = k - 1
        BY <1>0, <2>1, <3>1
      <4>3. ItmByte(i)' = ring'[Itm!SlotOf(k - 1)']
        <5>1. /\ size' = s - n /\ Itm!getSize' = g - m
          BY <1>1, <1>5
        <5> HIDE DEF g, m
        <5>2. ~(i <= size') /\ i <= size' + Itm!getSize'
          BY <2>3, <4>1, <5>1
        <5> QED BY <4>2, <5>1, <5>2 DEF ItmByte
      <4> QED BY <1>1, <4>1, <4>3
    <3>2. i - (s - n) \in Int
      BY <1>0, <2>1
    <3>3. ItmByte(i)' = ring[Itm!SlotOf((i - (s - n)) + m - 1)]
      BY <3>1, <3>2
    <3>5. /\ (i - (s - n)) + m - 1 = (i + n) - size - 1
          /\ ~(i + n <= size) /\ i + n <= size + g
      BY <1>0, <2>1, <2>3
    <3> QED BY <1>3, <2>1, <3>3, <3>5 DEF ItmByte
  <2>4. CASE i > s - n + (g - m)
    <3>1. ~(i <= s - n) /\ ~(i <= s - n + (g - m)) /\ ~(i + n <= size) /\ ~(i + n <= size + g)
      BY <1>0, <2>1, <2>4
    <3> QED BY <1>1, <1>3, <1>5, <2>1, <3>1 DEF ItmByte
  <2>5. i <= s - n \/ (i > s - n /\ i <= s - n + (g - m)) \/ i > s - n + (g - m)
    BY <1>1, <1>5, <2>1
  <2> QED BY <2>2, <2>3, <2>4, <2>5
<1>7. ItmInv'
  <2>1. \A k \in 1..Itm!getSize' : ring'[Itm!SlotOf(k - 1)'] \in Byte
    <3> SUFFICES ASSUME NEW k \in 1..g - m PROVE ring'[Itm!SlotOf(k - 1)'] \in Byte
      BY <1>1
    <3>1. k + m \in 1..g
      BY <1>1
    <3> QED BY <1>1, <3>1 DEF ItmInv
  <2>2. \A i \in 1..s - n : word'[4 - (s - n) + i] \in Byte
    <3> SUFFICES ASSUME NEW i \in 1..s - n PROVE word'[4 - (s - n) + i] \in Byte
      OBVIOUS
    <3>1. i + n \in 1..s /\ i + n \in 1..ItmCount
      BY <1>1, <1>4, <1>5
    <3>2. word'[4 - (s - n) + i] = Itm!Pending[i + n]
      BY <1>2, <1>3, <1>5, <3>1
    <3> QED BY <1>3, <3>1, <3>2, ElementOfSeq
  <2>3. s - n \in 0..4
    BY <1>1, <1>5
  <2>4. (Itm!writing' => char' \in Byte) /\ enabled' \in BOOLEAN
    BY DEF ItmInv, Itm!update
  <2> QED BY <1>1, <1>5, <2>1, <2>2, <2>3, <2>4 DEF ItmInv
<1>8. ItmListed'
  BY <1>7, ItmWaiting, PTL
<1>9. ItmCount' = ItmCount - n /\ n \in 0..ItmCount /\ n \in 0..4
  BY <1>1, <1>4, <1>5 DEF ItmCount
<1>10. Itm!Pending' = SubSeq(Itm!Pending, n + 1, Len(Itm!Pending))
  <2> DEFINE p == Itm!Pending
             q == Itm!Pending'
  <2>1. /\ p \in Seq(Byte) /\ q \in Seq(Byte) /\ n \in 0..Len(p) /\ Len(q) = Len(p) - n
        /\ \A i \in 1..Len(q) : q[i] = p[i + n]
    BY <1>3, <1>6, <1>8, <1>9 DEF ItmListed
  <2> HIDE DEF p, q
  <2>2. q = SubSeq(p, n + 1, Len(p))
    BY <2>1, Dropped
  <2> QED BY <2>2 DEF p, q
<1>11. Itm!write_itm => Itm!Frame = SubSeq(Itm!Pending, 1, n)
  <2> SUFFICES ASSUME Itm!write_itm PROVE Itm!Frame = SubSeq(Itm!Pending, 1, n)
    OBVIOUS
  <2> DEFINE a == 5 - s
             b == IF s = 3 THEN 3 ELSE 4
  <2>1. n = (IF s = 3 THEN 2 ELSE s) /\ Itm!Frame = SubSeq(F, a, b)
    <3>1. CASE s = 3
      <4>1. n = 2 /\ Itm!Frame = SubSeq(F, 2, 3) /\ 5 - s = 2
        BY <3>1 DEF ItmGone, Itm!Frame, n, s, F
      <4> QED BY <3>1, <4>1
    <3>2. CASE s # 3
      <4>1. n = s /\ Itm!Frame = SubSeq(F, 5 - s, 4)
        BY <3>2 DEF ItmGone, Itm!Frame, n, s, F
      <4> QED BY <3>2, <4>1
    <3> QED BY <3>1, <3>2
  <2>2. /\ a \in Int /\ b \in Int /\ \A i \in a..b : i \in 1..4
        /\ \A i \in 1..n : a + i - 1 = 4 - s + i /\ i \in 1..s /\ i \in 1..ItmCount /\ i \in 1..b - a + 1
        /\ n = IF a <= b THEN b - a + 1 ELSE 0
        /\ \A i \in 1..n : 1 + i - 1 = i
    BY <1>1, <1>4, <2>1
  <2> HIDE DEF a, b
  <2>3. \A i \in 1..4 : F[i] \in Byte \cup {Zero}
    BY <1>2, ElementOfSeq
  <2>4. /\ SubSeq(F, a, b) \in Seq(Byte \cup {Zero}) /\ Len(SubSeq(F, a, b)) = n
        /\ \A i \in 1..n : SubSeq(F, a, b)[i] = Itm!Pending[i]
    <3> DEFINE T == Byte \cup {Zero}
    <3>1. /\ SubSeq(F, a, b) \in Seq(T) /\ Len(SubSeq(F, a, b)) = (IF a <= b THEN b - a + 1 ELSE 0)
          /\ \A i \in 1..b - a + 1 : SubSeq(F, a, b)[i] = F[a + i - 1]
      <4>1. \A i \in a..b : F[i] \in T
        BY <2>2, <2>3
      <4>2. a \in Int /\ b \in Int
        BY <2>2
      <4> HIDE DEF T
      <4> QED BY <4>1, <4>2, SubSeqProperties
    <3>2. Len(SubSeq(F, a, b)) = n
      BY <2>2, <3>1
    <3>3. ASSUME NEW i \in 1..n PROVE SubSeq(F, a, b)[i] = Itm!Pending[i]
      <4>1. /\ i \in 1..b - a + 1 /\ i \in 1..s /\ i \in 1..ItmCount
            /\ a + i - 1 = 4 - s + i
        BY <2>2
      <4>2. SubSeq(F, a, b)[i] = F[4 - s + i]
        BY <3>1, <4>1
      <4> QED BY <1>2, <1>3, <4>1, <4>2
    <3> QED BY <3>1, <3>2, <3>3 DEF T
  <2>5. /\ SubSeq(Itm!Pending, 1, n) \in Seq(Byte \cup {Zero}) /\ Len(SubSeq(Itm!Pending, 1, n)) = n
        /\ \A i \in 1..n : SubSeq(Itm!Pending, 1, n)[i] = Itm!Pending[i]
    <3> DEFINE T == Byte \cup {Zero}
    <3>1. \A i \in 1..n : Itm!Pending[i] \in T
      BY <1>3, <2>2, ElementOfSeq
    <3>2. n \in Int /\ 1 \in Int /\ n \in Nat
      BY <1>1, <1>5
    <3>3. /\ SubSeq(Itm!Pending, 1, n) \in Seq(T)
          /\ Len(SubSeq(Itm!Pending, 1, n)) = (IF 1 <= n THEN n - 1 + 1 ELSE 0)
          /\ \A i \in 1..n - 1 + 1 : SubSeq(Itm!Pending, 1, n)[i] = Itm!Pending[1 + i - 1]
      <4> HIDE DEF T
      <4> QED BY <3>1, <3>2, SubSeqProperties
    <3> QED BY <2>2, <3>2, <3>3
  <2> DEFINE u == SubSeq(F, a, b)
             v == SubSeq(Itm!Pending, 1, n)
             T == Byte \cup {Zero}
  <2>6. u \in Seq(T) /\ v \in Seq(T) /\ Len(u) = Len(v) /\ \A i \in 1..Len(u) : u[i] = v[i]
    BY <2>4, <2>5
  <2> HIDE DEF u, v, T
  <2>7. u = v
    BY <2>6, SeqEqual
  <2> QED BY <2>1, <2>7 DEF u, v
<1>12. n <= Len(Itm!Pending)
  BY <1>3, <1>9
<1> QED BY <1>3, <1>7, <1>9, <1>10, <1>11, <1>12 DEF n

(* What the stream sees of a step of the ITM *)
ItmUnseen == Itm!Pending' = Itm!Pending /\ Itm!writing' = Itm!writing /\ port' = port /\ enabled' = enabled
ItmSends  ==
    /\ Itm!writing' = Itm!writing /\ enabled' = enabled
    /\ ItmGone <= Len(Itm!Pending)
    /\ Itm!Pending' = SubSeq(Itm!Pending, ItmGone + 1, Len(Itm!Pending))
    /\ \/ enabled /\ ItmGone \in {1, 2, 4} /\ port' = SubSeq(Itm!Pending, 1, ItmGone)
       \/ ~enabled /\ ItmGone \in 1..4 /\ port' = port
ItmOther  ==
    /\ port' = port
    /\ \/ /\ ~Itm!writing /\ Itm!writing' /\ enabled' = enabled
          /\ \E b \in Byte : Itm!Pending' = Append(Itm!Pending, b)
       \/ Itm!writing /\ ~Itm!writing' /\ Itm!Pending' = Itm!Pending /\ enabled' = enabled
       \/ /\ ~Itm!writing /\ Itm!writing' = Itm!writing /\ enabled' = enabled
          /\ IsPrefix(Itm!Pending', Itm!Pending)
       \/ enabled' = ~enabled /\ Itm!Pending' = Itm!Pending /\ Itm!writing' = Itm!writing
ItmStreamStep == ItmUnseen \/ ItmSends \/ ItmOther

(* An update() is a frame sent, bytes lost to a debugger that is not there, *)
(* or nothing: an enabled port takes frames of one, two or four bytes.      *)
LEMMA ItmSendsOrWaits ==
    ASSUME ItmInv, Itm!Update \/ Itm!FlushUpdate
    PROVE  ItmInv' /\ ItmStreamStep
<1>1. /\ Itm!update /\ char' = char /\ enabled' = enabled
      /\ pc' \in {"idle", "push", "update", "flush"} /\ Itm!writing' = Itm!writing
  BY DEF Itm!Update, Itm!FlushUpdate, Itm!writing, Itm!update, Itm!callVars
<1>2. /\ ItmInv' /\ ItmGone \in 0..4 /\ ItmGone <= Len(Itm!Pending) /\ Itm!Pending \in Seq(Byte)
      /\ Itm!Pending' = SubSeq(Itm!Pending, ItmGone + 1, Len(Itm!Pending))
      /\ Itm!write_itm => Itm!Frame = SubSeq(Itm!Pending, 1, ItmGone)
  BY <1>1, ItmUpdates
<1>3. port' = IF Itm!write_itm /\ enabled THEN Itm!Frame ELSE port
  BY <1>1 DEF Itm!update, Itm!portVars
<1>4. CASE ItmGone = 0
  <2>1. Itm!Pending' = Itm!Pending
    BY <1>2, <1>4, SubSeqFull
  <2>2. ~(Itm!write_itm /\ enabled)
    <3> SUFFICES ASSUME Itm!write_itm, enabled PROVE FALSE
      OBVIOUS
    <3>1. Len(Itm!Frame) \in {1, 2, 4}
      BY DEF Itm!write_itm
    <3>2. Itm!Frame = SubSeq(Itm!Pending, 1, 0)
      BY <1>2, <1>4
    <3>3. Itm!Frame = << >>
      BY <3>2, SubSeqEmpty
    <3> QED BY <3>1, <3>3
  <2> QED BY <1>1, <1>2, <1>3, <2>1, <2>2 DEF ItmStreamStep, ItmUnseen
<1>5. CASE ItmGone # 0 /\ enabled
  <2>1. Itm!write_itm
    BY <1>5 DEF ItmGone
  <2>2. Len(Itm!Frame) \in {1, 2, 4}
    BY <1>5, <2>1 DEF Itm!write_itm
  <2>3. Len(SubSeq(Itm!Pending, 1, ItmGone)) = ItmGone
    <3> DEFINE p == Itm!Pending
               n == ItmGone
    <3>1. p \in Seq(Byte) /\ n \in 1..4 /\ n <= Len(p)
      BY <1>2, <1>5
    <3> HIDE DEF p, n
    <3>2. \A i \in 1..n : p[i] \in Byte
      <4>1. \A i \in 1..n : i \in 1..Len(p)
        BY <3>1, LenProperties
      <4> QED BY <3>1, <4>1, ElementOfSeq
    <3>3. Len(SubSeq(p, 1, n)) = IF 1 <= n THEN n - 1 + 1 ELSE 0
      BY <3>1, <3>2, SubSeqProperties
    <3>4. Len(SubSeq(p, 1, n)) = n
      BY <3>1, <3>3
    <3> QED BY <3>4 DEF p, n
  <2>4. ItmGone \in {1, 2, 4} /\ port' = SubSeq(Itm!Pending, 1, ItmGone)
    BY <1>2, <1>3, <1>5, <2>1, <2>2, <2>3
  <2> QED BY <1>1, <1>2, <1>5, <2>4 DEF ItmStreamStep, ItmSends
<1>6. CASE ItmGone # 0 /\ ~enabled
  <2>1. ItmGone \in 1..4 /\ port' = port
    BY <1>2, <1>3, <1>6
  <2> QED BY <1>1, <1>2, <1>6, <2>1 DEF ItmStreamStep, ItmSends
<1> QED BY <1>2, <1>4, <1>5, <1>6

(* Steps that leave bytes and word alone *)
LEMMA ItmStays ==
    ASSUME ItmInv, UNCHANGED <<head, tail, ring, word, size, char>>,
           pc' \in {"idle", "push", "update", "flush"}, Itm!writing' = Itm!writing,
           enabled' \in BOOLEAN
    PROVE  ItmInv' /\ Itm!Pending' = Itm!Pending
<1>1. UNCHANGED <<Itm!QueueOK, Itm!getSize>> /\ \A k : Itm!SlotOf(k)' = Itm!SlotOf(k)
  BY DEF Itm!QueueOK, Itm!Slots, Itm!getSize, Itm!SlotOf
<1>2. ItmInv'
  BY <1>1 DEF ItmInv
<1>3. ItmCount' = ItmCount /\ \A i \in 1..ItmCount : ItmByte(i)' = ItmByte(i)
  BY <1>1 DEF ItmCount, ItmByte
<1> QED BY <1>2, <1>3, ItmSame

LEMMA ItmStep ==
    ASSUME ItmInv, Itm!Next
    PROVE  ItmInv' /\ ItmStreamStep
<1> USE DEF Itm!queueVars, Itm!wordVars, Itm!portVars, Itm!callVars
<1>1. CASE Itm!Write
  <2>1. port' = port /\ enabled' = enabled
    BY <1>1 DEF Itm!Write
  <2> QED BY <1>1, <2>1, ItmBegins DEF ItmStreamStep, ItmOther
<1>2. CASE Itm!Push
  <2>1. port' = port /\ enabled' = enabled
    BY <1>2 DEF Itm!Push
  <2> QED BY <1>2, <2>1, ItmPushes DEF ItmStreamStep, ItmOther
<1>3. CASE Itm!Update \/ Itm!FlushUpdate
  BY <1>3, ItmSendsOrWaits
<1>4. CASE Itm!discardTransmitBuffer
  <2>1. port' = port /\ enabled' = enabled
    BY <1>4 DEF Itm!discardTransmitBuffer
  <2> QED BY <1>4, <2>1, ItmForgets DEF ItmStreamStep, ItmOther
<1>5. CASE Itm!PushFails \/ Itm!Flush \/ Itm!FlushEnds \/ Itm!Drain
  <2>1. /\ UNCHANGED <<head, tail, ring, word, size, char, port, enabled>>
        /\ pc' \in {"idle", "push", "update", "flush"} /\ Itm!writing' = Itm!writing
    BY <1>5 DEF Itm!PushFails, Itm!Flush, Itm!FlushEnds, Itm!Drain, Itm!writing, ItmInv
  <2>2. enabled' \in BOOLEAN
    BY <2>1 DEF ItmInv
  <2> QED BY <2>1, <2>2, ItmStays DEF ItmStreamStep, ItmUnseen
<1>6. CASE Itm!Attach
  <2>1. /\ UNCHANGED <<head, tail, ring, word, size, char, port>> /\ enabled' = ~enabled
        /\ enabled' \in BOOLEAN /\ pc' \in {"idle", "push", "update", "flush"} /\ Itm!writing' = Itm!writing
    BY <1>6 DEF Itm!Attach, Itm!writing, ItmInv
  <2> QED BY <2>1, ItmStays DEF ItmStreamStep, ItmOther
<1> QED BY <1>1, <1>2, <1>3, <1>4, <1>5, <1>6 DEF Itm!Next, Itm!InCall

ItmIInv == Device = "Itm" => ItmInv

LEMMA InitItm == LogInit => ItmIInv /\ (Device = "Itm" => Stream!Init)
<1> SUFFICES ASSUME LogInit, Device = "Itm" PROVE ItmInv /\ Stream!Init
  BY DEF ItmIInv
<1>1. /\ head = 0 /\ tail = 0 /\ ring = [i \in Itm!Slots |-> Zero]
      /\ word = <<Zero, Zero, Zero, Zero>> /\ size = 0 /\ port = << >> /\ pc = "idle"
      /\ enabled \in BOOLEAN
  BY DEF LogInit, Itm!QueueInit, Itm!DeviceInit, Itm!NoWord
<1>2. Itm!QueueOK /\ Itm!getSize = 0
  BY <1>1, ItmAssumption DEF Itm!QueueOK, Itm!Slots, Itm!getSize
<1>3. ItmInv /\ ~Itm!writing
  BY <1>1, <1>2 DEF ItmInv, Itm!writing
<1>4. ItmListed
  BY <1>3, ItmWaiting
<1>5. ItmCount = 0
  BY <1>1, <1>2, <1>3 DEF ItmCount
<1>6. Itm!Pending = << >>
  BY <1>4, <1>5, EmptySeq DEF ItmListed
<1> QED BY <1>1, <1>3, <1>6 DEF Stream!Init, Pending

LEMMA ItmLogNext ==
    ItmIInv /\ [LogNext]_logVars =>
        ItmIInv' /\ (Device = "Itm" => Stream!Next \/ UNCHANGED Stream!vars)
<1> SUFFICES ASSUME ItmIInv, [LogNext]_logVars, Device = "Itm" \/ Device' = "Itm"
             PROVE  ItmInv' /\ (Stream!Next \/ UNCHANGED Stream!vars)
  BY DEF ItmIInv
<1>1. Device = "Itm" /\ Device' = "Itm" /\ ItmInv
  BY DEF ItmIInv, LogNext, logVars
<1>2. Pending = Itm!Pending /\ Pending' = Itm!Pending'
  BY <1>1 DEF Pending
<1>3. CASE UNCHANGED logVars
  <2>1. /\ UNCHANGED <<head, tail, ring, word, size, char, port, enabled, pc>>
        /\ pc' \in {"idle", "push", "update", "flush"} /\ Itm!writing' = Itm!writing
    BY <1>1, <1>3 DEF logVars, itmVars, queueVars, Itm!writing, ItmInv
  <2>2. enabled' \in BOOLEAN
    BY <1>1, <2>1 DEF ItmInv
  <2> QED BY <1>1, <1>2, <2>1, <2>2, ItmStays DEF Stream!vars
<1>4. CASE Itm!Next
  <2>1. ItmInv' /\ ItmStreamStep
    BY <1>1, <1>4, ItmStep
  <2>2. CASE ItmUnseen
    BY <1>1, <1>2, <2>1, <2>2 DEF ItmUnseen, Stream!vars
  <2>3. CASE ItmSends
    <3>1. CASE enabled
      BY <1>1, <1>2, <2>1, <2>3, <3>1 DEF ItmSends, Stream!Next, Stream!Send, Stream!Drop
    <3>2. CASE ~enabled
      BY <1>1, <1>2, <2>1, <2>3, <3>2 DEF ItmSends, Stream!Next, Stream!Lose, Stream!Drop
    <3> QED BY <3>1, <3>2
  <2>4. CASE ItmOther
    <3> DEFINE w == IF Device = "Itm" THEN Itm!writing ELSE Uart!writing
               p == IF Device = "Itm" THEN port ELSE line
               t == Device = "Uart" \/ enabled
    <3>1. w = Itm!writing /\ p = port /\ t = enabled
      BY <1>1 DEF ItmInv
    <3>2. w' = Itm!writing' /\ p' = port' /\ t' = enabled'
      BY <1>1, <2>1 DEF ItmInv
    <3>3. CASE ~Itm!writing /\ Itm!writing' /\ \E b \in Byte : Itm!Pending' = Append(Itm!Pending, b)
      <4>1. ~w /\ w' /\ p' = p /\ (\E b \in Byte : Pending' = Append(Pending, b))
        BY <1>2, <2>4, <3>1, <3>2, <3>3 DEF ItmOther
      <4>2. t' = t
        BY <2>4, <3>1, <3>2, <3>3 DEF ItmOther
      <4> QED BY <2>1, <4>1, <4>2 DEF Stream!Next, Stream!Write
    <3>4. CASE Itm!writing /\ ~Itm!writing'
      <4>1. w /\ ~w' /\ p' = p /\ Pending' = Pending /\ t' = t
        BY <1>2, <2>4, <3>1, <3>2, <3>4 DEF ItmOther
      <4> QED BY <2>1, <4>1 DEF Stream!Next, Stream!Written
    <3>5. CASE ~Itm!writing /\ Itm!writing' = Itm!writing /\ enabled' = enabled /\ IsPrefix(Itm!Pending', Itm!Pending)
      <4>1. ~w /\ w' = w /\ p' = p /\ t' = t /\ IsPrefix(Pending', Pending)
        BY <1>2, <2>4, <3>1, <3>2, <3>5 DEF ItmOther
      <4> QED BY <2>1, <4>1 DEF Stream!Next, Stream!Delete, IsPrefix, Stream!IsPrefix
    <3>6. CASE enabled' = ~enabled /\ Itm!Pending' = Itm!Pending /\ Itm!writing' = Itm!writing
      <4>1. t' = ~t /\ Pending' = Pending /\ w' = w /\ p' = p
        BY <1>2, <2>4, <3>1, <3>2, <3>6 DEF ItmOther
      <4> QED BY <2>1, <4>1 DEF Stream!Next, Stream!Listen
    <3> HIDE DEF w, p, t
    <3> QED BY <2>4, <3>3, <3>4, <3>5, <3>6 DEF ItmOther
  <2> QED BY <2>1, <2>2, <2>3, <2>4 DEF ItmStreamStep
<1> QED BY <1>1, <1>3, <1>4 DEF LogNext

-----------------------------------------------------------------------------
(* Both devices, for any capacity of either queue, keep the promise of       *)
(* ByteStream: bytes leave in the order in which they were written, once, in *)
(* frames that the device can send, and are lost only while nobody listens.  *)
THEOREM LogImplementsStream == LogSpec => ImplementsStream
<1> DEFINE I == Device \in {"Itm", "Uart"} /\ ItmIInv /\ Inv
<1>1. LogInit => Stream!Init /\ I
  <2>1. LogInit => Device \in {"Itm", "Uart"}
    BY DEF LogInit
  <2> QED BY <2>1, InitItm, InitUart, UartStreamInit
<1>2. I /\ [LogNext]_logVars => I' /\ [Stream!Next]_Stream!vars
  <2> SUFFICES ASSUME I, [LogNext]_logVars PROVE I' /\ [Stream!Next]_Stream!vars
    OBVIOUS
  <2>1. ItmIInv' /\ Inv' /\ Device' = Device
    BY ItmLogNext, LogNextInv DEF LogNext, logVars
  <2>2. Stream!Next \/ UNCHANGED Stream!vars
    BY ItmLogNext, UartStreamNext
  <2> QED BY <2>1, <2>2
<1> QED BY <1>1, <1>2, PTL DEF LogSpec, ImplementsStream, Stream!Spec
=============================================================================
