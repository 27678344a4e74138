-------------------------- MODULE AdcSampler_proofs --------------------------
(* Theorems about AdcSampler, for every number of channels and oversamples *)
EXTENDS AdcSampler, TLAPS

-----------------------------------------------------------------------------
(* Type correctness, whoever calls startReadout and whoever owns the buffer *)

LEMMA Wraps ==
    ASSUME NEW s \in Nat
    PROVE  (s + 1) % SampleValues \in 0 .. SampleValues - 1
  BY SampleValues \in {256, 65536, 65536 * 65536} DEF SampleValues

LEMMA SomeValues == 0 \in 0 .. SampleValues - 1
  BY SampleValues \in {256, 65536, 65536 * 65536} DEF SampleValues

LEMMA Channels0 == 0 \in Channel /\ Channels - 1 \in Channel
  BY SamplerAssumption DEF Channel

(* The ranges of the members hold in every reachable state; that a channel  *)
(* of the sensors is selected, only as long as the arrays exist.             *)
THEOREM TypeCorrect == Spec => []TypeOK
<1>1. Init => TypeOK
  <2> SUFFICES ASSUME Init PROVE TypeOK
    OBVIOUS
  <2>1. data \in [Channel -> SUBSET ((Channel \X Nat) \cup {Garbage})]
    BY DEF Init
  <2>2. taken \in [Channel -> Nat]
    BY DEF Init
  <2>3. map \in [Channel -> Channel \cup {Foreign}] /\ map = [c \in Channel |-> c]
    BY DEF Init
  <2> QED BY <2>1, <2>2, <2>3, Channels0, SomeValues DEF Init, TypeOK, Statement
<1>2. TypeOK /\ [Next]_vars => TypeOK'
  <2> SUFFICES ASSUME TypeOK, [Next]_vars PROVE TypeOK'
    OBVIOUS
  <2> USE DEF TypeOK, Statement
  <2>1. CASE sampleAdc
    <3>1. Value \in (Channel \X Nat) \cup {Garbage}
      BY DEF Value
    <3>2. taken' \in [Channel -> Nat] /\ pc' \in Statement
      BY <2>1 DEF sampleAdc, Taken
    <3>3. Added \in [Channel -> SUBSET ((Channel \X Nat) \cup {Garbage})]
      BY <3>1 DEF Added
    <3>4. Following \in Channel
      BY SamplerAssumption DEF Following, Channel
    <3>5. NextSamples \in 0 .. SampleValues - 1
      BY Wraps DEF NextSamples
    <3>9. map' = map /\ \A i \in Channel : /\ map[i] \in Channel \cup {Foreign}
                                         /\ BuffersLive => map[i] \in Channel
      BY <2>1 DEF sampleAdc, Oversample, Average, RawSample
    <3>6. CASE Oversample
      BY <3>2, <3>3, <3>4, <3>5, <3>6, <3>9 DEF Oversample, Convert
    <3>7. CASE Average
      BY <3>2, <3>3, <3>7, <3>9, Channels0, SomeValues DEF Average
    <3>8. CASE RawSample
      <4>1. data' \in [Channel -> SUBSET ((Channel \X Nat) \cup {Garbage})]
        BY <3>1, <3>8 DEF RawSample
      <4>2. /\ index' \in Channel /\ selected' \in Channel \cup {Foreign}
            /\ BuffersLive => selected' \in Channel
        <5>1. CASE index + 1 < Channels
          <6>1. index + 1 \in Channel
            BY <5>1, SamplerAssumption DEF Channel
          <6> QED BY <3>8, <3>9, <5>1, <6>1 DEF RawSample, Convert
        <5>2. CASE ~(index + 1 < Channels)
          BY <3>8, <5>2, Channels0 DEF RawSample
        <5> QED BY <5>1, <5>2
      <4>3. converting' \in BOOLEAN /\ newData' \in BOOLEAN /\ samples' = samples
        BY <3>8 DEF RawSample, Convert
      <4> QED BY <3>2, <3>9, <4>1, <4>2, <4>3
    <3> QED BY <2>1, <3>6, <3>7, <3>8 DEF sampleAdc
  <2>2. CASE Start \/ ClearNewData \/ Poll \/ Read
    BY <2>2, Zenon DEF Start, ClearNewData, Poll, Read, members, adc
  <2>5. CASE ClearIndex \/ SetChannel
    BY <2>5, Channels0 DEF ClearIndex, SetChannel, members, adc
  <2>6. CASE StartConversion
    <3>1. taken' \in [Channel -> Nat]
      BY <2>6 DEF StartConversion
    <3> QED BY <2>6, <3>1 DEF StartConversion, members
  <2>3. CASE StackReused
    <3>1. data' \in [Channel -> SUBSET ((Channel \X Nat) \cup {Garbage})]
      BY <2>3 DEF StackReused
    <3>2. map' \in [Channel -> Channel \cup {Foreign}]
      BY <2>3 DEF StackReused
    <3> QED BY <2>3, <3>1, <3>2 DEF StackReused, adc
  <2>4. CASE UNCHANGED vars
    BY <2>4 DEF vars, members, adc
  <2> QED BY <2>1, <2>2, <2>3, <2>4, <2>5, <2>6 DEF Next, Fiber
<1> QED BY <1>1, <1>2, PTL DEF Spec

-----------------------------------------------------------------------------
(* The chain of interrupts, for every caller *)

(* A readout with samples in it is going on: what startReadout refuses is a *)
(* readout that will end.                                                    *)
Going ==
    /\ (samples > 0) => converting
    /\ (Oversamples = 1) => (samples = 0)

(* While the fiber waits for a readout a conversion is under way, even if   *)
(* it called startReadout at any moment before.                              *)
THEOREM ChainUnbroken == Spec => []NeverStalls
<1> DEFINE Inv == NeverStalls /\ Going
<1>1. Init => Inv
  BY DEF Init, NeverStalls, Going
<1>2. TypeOK /\ Inv /\ [Next]_vars => Inv'
  <2> SUFFICES ASSUME TypeOK, Inv, [Next]_vars PROVE Inv'
    OBVIOUS
  <2> USE DEF NeverStalls, Going
  <2>1. CASE sampleAdc
    BY <2>1 DEF sampleAdc, Oversample, Average, RawSample, Convert
  <2>2. CASE Fiber
    BY <2>2 DEF Fiber, Start, Refused, ClearNewData, ClearIndex, SetChannel,
       StartConversion, Poll, Read, members, adc
  <2>3. CASE StackReused
    BY <2>3 DEF StackReused, adc
  <2>4. CASE UNCHANGED vars
    BY <2>4 DEF vars, members, adc
  <2> QED BY <2>1, <2>2, <2>3, <2>4 DEF Next
<1> QED BY <1>1, <1>2, TypeCorrect, PTL DEF Spec

-----------------------------------------------------------------------------
(* The averages, for a caller that polls and a buffer that exists *)

(* The measurement fiber, arrays that outlive initialize(), and a number of *)
(* samples that the counter can count one beyond.                            *)
ProperUse ==
    /\ ~Impatient /\ BuffersLive
    /\ totalSamples \notin {255, 65535} /\ totalSamples < 65536 * 65536 - 1

(* As long as the arrays exist, the mapping is the one that was given *)
LEMMA Mapped ==
    ASSUME ProperUse, TypeOK
    PROVE  map = [c \in Channel |-> c] /\ selected \in Channel
  BY DEF ProperUse, TypeOK

(* Full rounds over the channels so far *)
Turn == taken[Channels - 1]

(* The first of n conversions of channel c that still counts *)
First(c, n) == IF c = 0 /\ n > 1 THEN 2 ELSE 1

(* Where a readout can be while the fiber is where *)
Phase ==
    /\ converting => pc = "poll" /\ ~newData
    /\ ~converting => samples = 0
    /\ (pc \in {"index", "setChannel", "startConversion"}) => ~newData
    /\ (pc \in {"setChannel", "startConversion"}) => index = 0
    /\ (pc = "startConversion") => selected = 0

(* The counter is the number of conversions, which go round the channels *)
Counter ==
    IF Oversamples = 1 THEN samples = 0 /\ Turn = 0
    ELSE samples = Turn * Channels + index /\ samples <= totalSamples

(* What the cells hold in the middle of a readout *)
Progress ==
    /\ selected = index
    /\ \A c \in Channel : taken[c] = Turn + (IF c < index THEN 1 ELSE 0)
    /\ \A c \in Channel : taken[c] > 0 => data[c] = Conversions(c, First(c, taken[c]), taken[c])
    /\ Counter

IInv == Phase /\ (converting => Progress) /\ Averages /\ EnoughSamples

LEMMA NoWrap ==
    ASSUME ProperUse, NEW s \in Nat, s <= totalSamples
    PROVE  (s + 1) % SampleValues = s + 1
<1>1. totalSamples \in Nat
  BY SamplerAssumption DEF totalSamples
<1>2. CASE totalSamples < 256
  BY <1>1, <1>2 DEF ProperUse, SampleValues
<1>3. CASE totalSamples >= 256 /\ totalSamples < 65536
  BY <1>1, <1>3 DEF ProperUse, SampleValues
<1>4. CASE totalSamples >= 65536
  BY <1>1, <1>4 DEF ProperUse, SampleValues
<1> QED BY <1>1, <1>2, <1>3, <1>4

LEMMA MoreTurns ==
    ASSUME NEW a \in Nat, NEW b \in Nat, a < b
    PROVE  a * Channels + Channels <= b * Channels
<1>1. PICK d \in Nat : b = a + 1 + d
  <2> WITNESS b - a - 1 \in Nat
  <2> QED OBVIOUS
<1>2. b * Channels = a * Channels + Channels + d * Channels
  BY <1>1, SamplerAssumption
<1>3. d * Channels \in Nat /\ a * Channels \in Nat
  BY SamplerAssumption
<1> QED BY <1>2, <1>3, SamplerAssumption

LEMMA LastTurn ==
    ASSUME NEW t \in Nat, NEW i \in Channel, t * Channels + i <= totalSamples
    PROVE  /\ t <= Oversamples
           /\ (t * Channels + i = totalSamples) => (t = Oversamples /\ i = 0)
<1>1. t * Channels \in Nat /\ Oversamples * Channels \in Nat /\ i \in 0 .. Channels - 1
  BY SamplerAssumption DEF Channel
<1>2. CASE t < Oversamples
  BY <1>1, <1>2, MoreTurns, SamplerAssumption DEF totalSamples
<1>3. CASE t > Oversamples
  BY <1>1, <1>3, MoreTurns, SamplerAssumption DEF totalSamples
<1>4. CASE t = Oversamples
  BY <1>1, <1>4 DEF totalSamples
<1> QED BY <1>2, <1>3, <1>4, SamplerAssumption

LEMMA ConversionsGrow ==
    ASSUME NEW c, NEW f \in Nat, NEW k \in Nat, f <= k + 1
    PROVE  Conversions(c, f, k) \cup {<<c, k + 1>>} = Conversions(c, f, k + 1)
<1>1. f .. (k + 1) = (f .. k) \cup {k + 1}
  OBVIOUS
<1> QED BY <1>1, Zenon DEF Conversions

LEMMA OneConversion ==
    ASSUME NEW c, NEW k \in Nat
    PROVE  Conversions(c, k, k) = {<<c, k>>}
<1>1. k .. k = {k}
  OBVIOUS
<1> QED BY <1>1, Zenon DEF Conversions

(* The cell that an oversampling interrupt writes holds what it should *)
LEMMA CellGrows ==
    ASSUME TypeOK, Progress, Oversamples > 1, Taken, data' = Added
    PROVE  LET k == Turn + 1 IN
           /\ data'[index] = Conversions(index, First(index, k), k)
           /\ taken'[index] = k
           /\ \A c \in Channel \ {index} : taken'[c] = taken[c] /\ data'[c] = data[c]
<1> DEFINE t == taken[index]
<1>1. t = Turn /\ t \in Nat /\ index \in Channel /\ selected = index
  BY Channels0 DEF Progress, TypeOK, Turn, Channel
<1>2. taken'[index] = t + 1 /\ \A c \in Channel \ {index} : taken'[c] = taken[c]
  BY <1>1 DEF Taken, TypeOK
<1>3. Value = <<index, t + 1>>
  <2>1. selected # Foreign
    BY <1>1, SamplerAssumption DEF Foreign, Channel
  <2> QED BY <1>1, <2>1 DEF Value
<1>4. \A c \in Channel \ {index} : data'[c] = data[c]
  BY DEF Added, TypeOK
<1>5. data'[index] = (IF samples <= Channels THEN {} ELSE data[index]) \cup {<<index, t + 1>>}
  BY <1>1, <1>3 DEF Added, TypeOK
<1>6. samples = t * Channels + index /\ index \in 0 .. Channels - 1 /\ Channels \in Nat \ {0}
  BY <1>1, SamplerAssumption DEF Progress, Counter, Channel
<1>7. CASE t = 0 \/ (t = 1 /\ index = 0)
  <2>1. samples <= Channels
    BY <1>6, <1>7
  <2>2. data'[index] = {<<index, t + 1>>}
    BY <1>5, <2>1
  <2>3. First(index, t + 1) = t + 1
    BY <1>7 DEF First
  <2> QED BY <1>1, <1>2, <1>4, <2>2, <2>3, OneConversion
<1>8. CASE t > 1 \/ (t = 1 /\ index > 0)
  <2>1. samples > Channels
    <3>1. CASE t = 1 /\ index > 0
      BY <1>6, <3>1
    <3>2. CASE t > 1
      <4>1. 1 * Channels + Channels <= t * Channels
        BY <1>1, <3>2, MoreTurns
      <4> QED BY <1>1, <1>6, <4>1
    <3> QED BY <1>8, <3>1, <3>2
  <2>2. data[index] = Conversions(index, First(index, t), t)
    BY <1>1, <1>8 DEF Progress
  <2>3. First(index, t) = First(index, t + 1) /\ First(index, t) \in Nat /\ First(index, t) <= t + 1
    BY <1>1, <1>6, <1>8 DEF First
  <2>4. data'[index] = data[index] \cup {<<index, t + 1>>}
    BY <1>1, <1>5, <1>6, <2>1
  <2>5. data'[index] = Conversions(index, First(index, t + 1), t + 1)
    BY <1>1, <2>2, <2>3, <2>4, ConversionsGrow
  <2> QED BY <1>1, <1>2, <1>4, <2>5
<1> QED BY <1>1, <1>6, <1>7, <1>8

(* In the middle of a readout no channel was converted too often *)
LEMMA EnoughSoFar == TypeOK /\ Progress => EnoughSamples
<1> SUFFICES ASSUME TypeOK, Progress, NEW c \in Channel
             PROVE  taken[c] <= Oversamples + 1
  BY DEF EnoughSamples
<1>1. Turn \in Nat /\ index \in Channel /\ taken[c] <= Turn + 1
  BY Channels0 DEF TypeOK, Progress, Turn, Channel
<1>2. Turn <= Oversamples
  BY <1>1, LastTurn, SamplerAssumption DEF Progress, Counter
<1> QED BY <1>1, <1>2, SamplerAssumption DEF TypeOK

(* An interrupt in the middle of a readout *)
LEMMA OversampleStep ==
    ASSUME ProperUse, TypeOK, IInv, converting, Oversample, Taken, UNCHANGED pc, TypeOK'
    PROVE  IInv'
<1>1. Phase'
  BY DEF IInv, Phase, Oversample, Convert
<1>2. Turn \in Nat /\ index \in 0 .. Channels - 1 /\ Channels \in Nat \ {0} /\ Progress
  BY Channels0, SamplerAssumption DEF IInv, TypeOK, Turn, Channel
<1>3. samples <= totalSamples /\ samples = Turn * Channels + index /\ samples \in Nat
  BY <1>2 DEF Progress, Counter, Oversample, TypeOK
<1>4. samples' = samples + 1 /\ samples' <= totalSamples
  BY <1>3, NoWrap DEF Oversample, KeepsSampling, NextSamples
<1>5. /\ data'[index] = Conversions(index, First(index, Turn + 1), Turn + 1)
      /\ taken'[index] = Turn + 1
      /\ \A c \in Channel \ {index} : taken'[c] = taken[c] /\ data'[c] = data[c]
  BY <1>2, CellGrows DEF Oversample
<1>6. \A c \in Channel : taken'[c] > 0 => data'[c] = Conversions(c, First(c, taken'[c]), taken'[c])
  BY <1>2, <1>5 DEF Progress
<1>7. ASSUME index + 1 < Channels PROVE Progress'
  <2>1. index' = index + 1 /\ selected' = index + 1
    <3>1. index + 1 \in Channel
      BY <1>2, <1>7 DEF Channel
    <3> QED BY <1>2, <1>7, <3>1, Mapped DEF Oversample, Following, Convert
  <2>2. Turn' = Turn
    BY <1>2, <1>5, <1>7, Channels0 DEF Turn, Channel
  <2>3. \A c \in Channel : taken'[c] = Turn' + (IF c < index' THEN 1 ELSE 0)
    BY <1>2, <1>5, <2>1, <2>2 DEF Progress, Channel
  <2>4. Counter'
    BY <1>2, <1>3, <1>4, <2>1, <2>2 DEF Counter, Oversample
  <2> QED BY <1>6, <2>1, <2>3, <2>4 DEF Progress
<1>8. ASSUME index + 1 = Channels PROVE Progress'
  <2>1. index' = 0 /\ selected' = 0
    BY <1>2, <1>8, Channels0, Mapped DEF Oversample, Following, Convert
  <2>2. Turn' = Turn + 1
    BY <1>2, <1>5, <1>8 DEF Turn
  <2>3. \A c \in Channel : taken'[c] = Turn'
    BY <1>2, <1>5, <1>8, <2>2 DEF Progress, Channel
  <2>4. samples' = Turn' * Channels + index'
    <3>1. (Turn + 1) * Channels = Turn * Channels + Channels
      BY <1>2
    <3>2. Turn * Channels \in Nat
      BY <1>2
    <3> QED BY <1>2, <1>3, <1>4, <1>8, <2>1, <2>2, <3>1, <3>2
  <2>5. Counter'
    BY <1>4, <2>4 DEF Counter, Oversample
  <2>6. \A c \in Channel : taken'[c] = Turn' + (IF c < index' THEN 1 ELSE 0)
    BY <1>2, <2>1, <2>2, <2>3 DEF Channel
  <2> QED BY <1>6, <2>1, <2>5, <2>6 DEF Progress
<1>9. Progress'
  BY <1>2, <1>7, <1>8
<1>10. Averages'
  BY DEF IInv, Phase, Averages, Oversample
<1>11. EnoughSamples'
  <2>1. TypeOK'
    OBVIOUS
  <2> QED BY <1>9, <2>1, EnoughSoFar, PTL
<1> QED BY <1>1, <1>9, <1>10, <1>11 DEF IInv

(* The interrupt that ends a readout *)
LEMMA AverageStep ==
    ASSUME ProperUse, TypeOK, IInv, converting, Average, Taken, UNCHANGED pc
    PROVE  IInv'
<1>1. Phase' /\ converting' = FALSE
  BY DEF IInv, Phase, Average
<1>2. Turn \in Nat /\ index \in Channel /\ Progress /\ samples \in Nat
  BY Channels0 DEF IInv, TypeOK, Turn
<1>3. samples <= totalSamples /\ samples = Turn * Channels + index
  BY <1>2 DEF Progress, Counter, Average
<1>4. samples = totalSamples
  <2>1. NextSamples = samples + 1
    BY <1>2, <1>3, NoWrap DEF NextSamples
  <2>2. totalSamples \in Nat
    BY SamplerAssumption DEF totalSamples
  <2> QED BY <1>2, <1>3, <2>1, <2>2 DEF Average, KeepsSampling
<1>5. Turn = Oversamples /\ index = 0
  BY <1>2, <1>3, <1>4, LastTurn
<1>6. /\ data'[0] = Conversions(0, First(0, Turn + 1), Turn + 1)
      /\ taken'[0] = Turn + 1
      /\ \A c \in Channel \ {0} : taken'[c] = taken[c] /\ data'[c] = data[c]
  BY <1>2, <1>5, CellGrows DEF Average
<1>7. ASSUME NEW c \in Channel
      PROVE  /\ data'[c] = Conversions(c, taken'[c] - Oversamples + 1, taken'[c])
             /\ taken'[c] <= Oversamples + 1
  <2>1. CASE c = 0
    <3>1. First(0, Turn + 1) = 2
      BY <1>5, SamplerAssumption DEF First, Average
    <3>2. taken'[0] - Oversamples + 1 = 2
      BY <1>2, <1>5, <1>6
    <3> QED BY <1>5, <1>6, <2>1, <3>1, <3>2, SamplerAssumption
  <2>2. CASE c # 0
    <3>1. taken'[c] = Oversamples
      BY <1>2, <1>5, <1>6, <2>2 DEF Progress, Channel
    <3>2. data'[c] = Conversions(c, 1, Oversamples)
      <4>1. First(c, taken[c]) = 1 /\ taken[c] > 0
        BY <1>6, <2>2, <3>1, SamplerAssumption DEF First
      <4> QED BY <1>2, <1>6, <2>2, <3>1, <4>1 DEF Progress
    <3>3. taken'[c] - Oversamples + 1 = 1
      BY <3>1, SamplerAssumption
    <3> QED BY <3>1, <3>2, <3>3, SamplerAssumption
  <2> QED BY <2>1, <2>2
<1> QED BY <1>1, <1>7 DEF IInv, Averages, EnoughSamples

(* The interrupt without oversampling *)
LEMMA RawStep ==
    ASSUME ProperUse, TypeOK, IInv, converting, RawSample, Taken, UNCHANGED pc
    PROVE  IInv'
<1>1. Phase'
  BY SamplerAssumption DEF IInv, Phase, RawSample, Convert, Progress, Counter
<1>2. /\ Oversamples = 1 /\ samples = 0 /\ Turn = 0 /\ selected = index
      /\ index \in 0 .. Channels - 1 /\ Channels \in Nat \ {0} /\ Progress
  BY Channels0, SamplerAssumption DEF IInv, Progress, Counter, RawSample, TypeOK, Channel
<1>3. taken[index] = 0
  BY <1>2 DEF Progress, Channel
<1>4. /\ taken'[index] = 1 /\ data'[index] = {<<index, 1>>}
      /\ \A c \in Channel \ {index} : taken'[c] = taken[c] /\ data'[c] = data[c]
  <2>1. selected # Foreign /\ index \in Channel
    BY <1>2 DEF Foreign, Channel
  <2>2. Value = <<index, 1>>
    BY <1>2, <1>3, <2>1 DEF Value
  <2> QED BY <1>2, <1>3, <2>1, <2>2 DEF Taken, RawSample, TypeOK
<1>5. \A c \in Channel : taken'[c] = IF c <= index THEN 1 ELSE 0
  BY <1>2, <1>4 DEF Progress, Channel
<1>6. \A c \in Channel : taken'[c] > 0 => data'[c] = Conversions(c, 1, 1)
  <2> SUFFICES ASSUME NEW c \in Channel, taken'[c] > 0 PROVE data'[c] = Conversions(c, 1, 1)
    OBVIOUS
  <2>1. CASE c = index
    BY <1>4, <2>1, OneConversion
  <2>2. CASE c # index
    <3>1. taken[c] = 1
      BY <1>4, <1>5, <2>2
    <3> QED BY <1>2, <1>4, <2>2, <3>1 DEF Progress, First
  <2> QED BY <2>1, <2>2
<1>7. EnoughSamples'
  BY <1>2, <1>5 DEF EnoughSamples
<1>8. CASE index + 1 < Channels
  <2>1. index' = index + 1 /\ selected' = index + 1 /\ newData' = newData /\ samples' = 0
    <3>1. index + 1 \in Channel
      BY <1>2, <1>8 DEF Channel
    <3> QED BY <1>2, <1>8, <3>1, Mapped DEF RawSample, Convert
  <2>2. Turn' = 0
    BY <1>2, <1>5, <1>8 DEF Turn, Channel
  <2>3. \A c \in Channel : taken'[c] = Turn' + (IF c < index' THEN 1 ELSE 0)
    BY <1>2, <1>5, <2>1, <2>2 DEF Channel
  <2>4. \A c \in Channel : taken'[c] > 0 => data'[c] = Conversions(c, First(c, taken'[c]), taken'[c])
    BY <1>5, <1>6 DEF First
  <2>5. Averages'
    BY <2>1 DEF IInv, Phase, Averages
  <2> QED BY <1>1, <1>2, <1>7, <2>1, <2>2, <2>3, <2>4, <2>5 DEF IInv, Progress, Counter
<1>9. CASE index + 1 = Channels
  <2>1. converting' = FALSE
    BY <1>2, <1>9 DEF RawSample
  <2>2. \A c \in Channel : taken'[c] = 1
    BY <1>2, <1>5, <1>9 DEF Channel
  <2>3. Averages'
    BY <1>2, <1>6, <2>2 DEF Averages
  <2> QED BY <1>1, <1>7, <2>1, <2>3 DEF IInv
<1> QED BY <1>2, <1>8, <1>9

(* What the fiber does *)
LEMMA FiberStep ==
    ASSUME ProperUse, TypeOK, IInv, NeverStalls, Fiber
    PROVE  IInv'
<1> USE DEF IInv
<1>1. ~converting
  BY DEF Phase, ProperUse, Fiber, Start, ClearNewData, ClearIndex, SetChannel,
     StartConversion, Poll, Read
<1>2. CASE Start \/ Poll \/ Read
  <2>1. UNCHANGED <<samples, index, newData, data, selected, converting, taken>>
    BY <1>2 DEF Start, Poll, Read, members, adc
  <2>2. pc' \in {"poll", "newData", "read", "start"}
    BY <1>2 DEF Start, Poll, Read
  <2>3. Averages' /\ EnoughSamples'
    BY <2>1 DEF Averages, EnoughSamples
  <2> QED BY <1>1, <2>1, <2>2, <2>3 DEF Phase
<1>3. CASE ClearNewData \/ ClearIndex \/ SetChannel
  <2>1. UNCHANGED <<samples, data, converting, taken>> /\ newData' = FALSE
    BY <1>3 DEF ClearNewData, ClearIndex, SetChannel, Phase, TypeOK, members, adc
  <2>2. Phase'
    BY <1>1, <1>3, <2>1, Channels0, Mapped DEF ClearNewData, ClearIndex, SetChannel, Phase, members, adc
  <2>3. Averages' /\ EnoughSamples'
    BY <2>1 DEF Averages, EnoughSamples
  <2> QED BY <1>1, <2>1, <2>2, <2>3
<1>4. CASE StartConversion
  <2>1. /\ \A c \in Channel : taken'[c] = 0
        /\ newData' = FALSE /\ samples' = 0 /\ index' = 0 /\ selected' = 0 /\ pc' = "poll"
    BY <1>1, <1>4 DEF StartConversion, Phase, members, TypeOK
  <2>2. Turn' = 0
    BY <2>1, Channels0 DEF Turn
  <2>3. Progress'
    <3>1. totalSamples >= 0 /\ 0 * Channels = 0
      BY SamplerAssumption DEF totalSamples
    <3> QED BY <2>1, <2>2, <3>1 DEF Progress, Counter, Channel
  <2> QED BY <2>1, <2>3, SamplerAssumption DEF Phase, Averages, EnoughSamples
<1> QED BY <1>2, <1>3, <1>4 DEF Fiber

LEMMA Inductive ==
    ASSUME ProperUse PROVE Spec => []IInv
<1>1. Init => IInv
  <2> SUFFICES ASSUME Init PROVE IInv
    OBVIOUS
  <2> QED BY SamplerAssumption DEF Init, IInv, Phase, Averages, EnoughSamples
<1>2. TypeOK /\ TypeOK' /\ NeverStalls /\ IInv /\ [Next]_vars => IInv'
  <2> SUFFICES ASSUME TypeOK, TypeOK', NeverStalls, IInv, [Next]_vars PROVE IInv'
    OBVIOUS
  <2>1. CASE sampleAdc
    BY <2>1, OversampleStep, AverageStep, RawStep DEF sampleAdc
  <2>2. CASE Fiber
    BY <2>2, FiberStep
  <2>3. CASE StackReused
    BY <2>3 DEF StackReused, ProperUse
  <2>4. CASE UNCHANGED vars
    BY <2>4 DEF vars, members, adc, IInv, Phase, Progress, Counter, Turn, Averages, EnoughSamples
  <2> QED BY <2>1, <2>2, <2>3, <2>4 DEF Next
<1> QED BY <1>1, <1>2, TypeCorrect, ChainUnbroken, PTL DEF Spec

(* When isReadoutFinished returns true, every cell is the mean of exactly   *)
(* Oversamples consecutive conversions of its own channel, the latest ones. *)
THEOREM AveragesAreExact ==
    ASSUME ProperUse PROVE Spec => []Averages
BY Inductive, PTL DEF IInv

(* No readout goes on sampling beyond what it averages *)
THEOREM SamplesNoMore ==
    ASSUME ProperUse PROVE Spec => []EnoughSamples
BY Inductive, PTL DEF IInv

(* While the fiber reads the cells nobody changes them *)
THEOREM ReadsUndisturbed ==
    ASSUME ProperUse PROVE Spec => ReadsStable
<1>1. IInv /\ [Next]_vars => ((pc = "read") => UNCHANGED <<data, newData>>)
  <2> SUFFICES ASSUME IInv, [Next]_vars, pc = "read" PROVE UNCHANGED <<data, newData>>
    OBVIOUS
  <2>1. ~converting
    BY DEF IInv, Phase
  <2>2. CASE sampleAdc
    BY <2>1, <2>2 DEF sampleAdc
  <2>3. CASE Fiber
    BY <2>3 DEF Fiber, Start, ClearNewData, ClearIndex, SetChannel, StartConversion,
       Poll, Read, members
  <2>4. CASE StackReused
    BY <2>4 DEF StackReused, ProperUse
  <2>5. CASE UNCHANGED vars
    BY <2>5 DEF vars, members
  <2> QED BY <2>2, <2>3, <2>4, <2>5 DEF Next
<1> QED BY <1>1, Inductive, PTL DEF Spec, ReadsStable
=============================================================================
