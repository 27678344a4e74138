----------------------------- MODULE AdcSampler -----------------------------
(***************************************************************************)
(* AdcSampler<AdcInterrupt1, Channels, Oversamples>, the interrupt chain    *)
(* that samples the sensors, and the measurement fiber of main.cpp that     *)
(* starts a readout, polls for its end and reads the buffer.  The interrupt *)
(* may fall between any two statements of the fiber.                        *)
(*                                                                          *)
(* A conversion of channel c is named <<c, k>>: the k-th one of c in this    *)
(* readout.  A cell of the buffer is the set of the conversions that were   *)
(* added up in it, and stands for their mean once the readout is over; an   *)
(* element that is no conversion is a value that nobody measured.           *)
(***************************************************************************)
EXTENDS Integers, FiniteSets

CONSTANTS
    Channels, Oversamples,  \* the template parameters
    BuffersLive,            \* the two arrays given to initialize() still exist
    Impatient               \* the caller may start a readout without polling

ASSUME SamplerAssumption ==
    /\ Channels \in Nat \ {0} /\ Oversamples \in Nat \ {0}
    /\ BuffersLive \in BOOLEAN /\ Impatient \in BOOLEAN

VARIABLES
    pc,         \* next statement of the fiber
    samples, index, newData, data, map,     \* the members of AdcSampler
    selected,   \* the channel in the ADC's sequence register
    converting, \* the ADC is converting it
    taken       \* how often each channel was converted in this readout

members  == <<samples, index, newData, data, map>>
adc      == <<selected, converting, taken>>
vars     == <<pc, members, adc>>

Channel == 0 .. Channels - 1
Foreign == -1       \* whatever is in a cell of map that is no longer one
totalSamples == Oversamples * Channels

(* The number of values of SampleType *)
SampleValues == IF totalSamples < 256 THEN 256
                ELSE IF totalSamples < 65536 THEN 65536 ELSE 65536 * 65536

(* The conversions first to last of channel c *)
Conversions(c, first, last) == {<<c, k>> : k \in first .. last}
Garbage == <<-1, 0>>

Init ==
    /\ pc = "start"
    /\ samples = 0 /\ index = 0 /\ newData = FALSE
    /\ data = [c \in Channel |-> {Garbage}]
    /\ map = [c \in Channel |-> c]
    /\ selected = 0 /\ converting = FALSE
    /\ taken = [c \in Channel |-> 0]

-----------------------------------------------------------------------------
(* The interrupt: the conversion is over *)

(* The value in the data register *)
Value == IF selected = Foreign THEN Garbage ELSE <<selected, taken[selected] + 1>>

Taken == taken' = [c \in Channel |-> IF c = selected THEN taken[c] + 1 ELSE taken[c]]

(* setChannel(map[i]), startConversion() *)
Convert(i) == selected' = map[i] /\ converting' = TRUE

(* Mutant: the first samples of a round are not added *)
Added_ResetsRound == [data EXCEPT ![index] = (IF samples < Channels THEN {} ELSE @) \cup {Value}]

(* The first round overwrites, and so does the first sample of the second *)
Added == [data EXCEPT ![index] = (IF samples <= Channels THEN {} ELSE @) \cup {Value}]


NextSamples == (samples + 1) % SampleValues

Following == IF index + 1 >= Channels THEN 0 ELSE index + 1

KeepsSampling_OneRoundMore == NextSamples <= totalSamples + Channels
KeepsSampling == NextSamples <= totalSamples

(* Oversamples > 1, more samples wanted *)
Oversample ==
    /\ Oversamples > 1 /\ KeepsSampling
    /\ data' = Added
    /\ samples' = NextSamples
    /\ index' = Following /\ Convert(Following)
    /\ UNCHANGED <<newData, map>>

Average_NotNew ==
    /\ Oversamples > 1 /\ ~KeepsSampling
    /\ data' = Added
    /\ samples' = 0 /\ index' = 0
    /\ converting' = FALSE /\ UNCHANGED <<newData, map, selected>>
Average_Restarts ==
    /\ Oversamples > 1 /\ ~KeepsSampling
    /\ data' = Added
    /\ samples' = 0 /\ index' = 0 /\ newData' = TRUE
    /\ Convert(0) /\ UNCHANGED map

(* Oversamples > 1, the last sample: the cells become means *)
Average ==
    /\ Oversamples > 1 /\ ~KeepsSampling
    /\ data' = Added
    /\ samples' = 0 /\ index' = 0 /\ newData' = TRUE
    /\ converting' = FALSE /\ UNCHANGED <<map, selected>>

RawSample_OneTooFar ==
    /\ Oversamples = 1
    /\ data' = [data EXCEPT ![index] = {Value}]
    /\ IF index + 1 <= Channels
       THEN index' = index + 1 /\ selected' = Foreign /\ converting' = TRUE /\ UNCHANGED newData
       ELSE index' = 0 /\ newData' = TRUE /\ converting' = FALSE /\ UNCHANGED selected
    /\ UNCHANGED <<samples, map>>
RawSample_NotStarted ==
    /\ Oversamples = 1
    /\ data' = [data EXCEPT ![index] = {Value}]
    /\ newData' = (index + 1 >= Channels) /\ index' = Following
    /\ converting' = FALSE /\ UNCHANGED <<samples, map, selected>>

(* Oversamples = 1 *)
RawSample ==
    /\ Oversamples = 1
    /\ data' = [data EXCEPT ![index] = {Value}]
    /\ IF index + 1 < Channels
       THEN index' = index + 1 /\ Convert(index + 1) /\ UNCHANGED newData
       ELSE index' = 0 /\ newData' = TRUE /\ converting' = FALSE /\ UNCHANGED selected
    /\ UNCHANGED <<samples, map>>

sampleAdc ==
    /\ converting
    /\ Oversample \/ Average \/ RawSample
    /\ Taken
    /\ UNCHANGED pc

-----------------------------------------------------------------------------
(* The fiber: startReadout() statement by statement, then poll and read *)

(* "if (samples > 0) return false"; the fiber ignores the result *)
Refused == samples > 0

Start ==
    /\ pc = "start"
    /\ pc' = IF Refused THEN "poll" ELSE "newData"
    /\ UNCHANGED <<members, adc>>

ClearNewData ==
    /\ pc = "newData" /\ pc' = "index"
    /\ newData' = FALSE
    /\ UNCHANGED <<samples, index, data, map, adc>>

ClearIndex ==
    /\ pc = "index" /\ pc' = "setChannel"
    /\ index' = 0
    /\ UNCHANGED <<samples, newData, data, map, adc>>

(* A conversion under way is given up for one of the new channel *)
SetChannel ==
    /\ pc = "setChannel" /\ pc' = "startConversion"
    /\ selected' = map[0]
    /\ UNCHANGED <<members, converting, taken>>

StartConversion ==
    /\ pc = "startConversion" /\ pc' = "poll"
    /\ converting' = TRUE
    /\ taken' = [c \in Channel |-> 0]
    /\ UNCHANGED <<members, selected>>

(* poll(isReadoutFinished) *)
Poll ==
    /\ pc = "poll"
    /\ \/ newData /\ pc' = "read"
       \/ Impatient /\ pc' = "start"
    /\ UNCHANGED <<members, adc>>

(* The cells are logged, then the fiber sleeps *)
Read ==
    /\ pc = "read" /\ pc' = "start"
    /\ UNCHANGED <<members, adc>>

Fiber ==
    \/ Start \/ ClearNewData \/ ClearIndex \/ SetChannel \/ StartConversion
    \/ Poll \/ Read

(* Both arrays were locals of Adapter_A::initialize: whoever got their part *)
(* of the stack may write there at any time, values as well as channels.    *)
StackReused ==
    /\ ~BuffersLive
    /\ \E c \in Channel :
          \/ data' = [data EXCEPT ![c] = {Garbage}] /\ UNCHANGED map
          \/ /\ \E other \in Channel \cup {Foreign} : map' = [map EXCEPT ![c] = other]
             /\ UNCHANGED data
    /\ UNCHANGED <<pc, samples, index, newData, adc>>

Next == sampleAdc \/ Fiber \/ StackReused

(* The ADC finishes what it starts, and the scheduler comes round *)
Fairness == WF_vars(sampleAdc) /\ WF_vars(Fiber)

Spec == Init /\ [][Next]_vars /\ Fairness

-----------------------------------------------------------------------------
(* Properties *)

Statement == {"start", "newData", "index", "setChannel", "startConversion", "poll", "read"}

(* The members stay in their ranges; the index never leaves the arrays map *)
(* and data, which the interrupt accesses without a check.  Only as long as  *)
(* the arrays exist is the channel that it selects one of the sensors'.      *)
TypeOK ==
    /\ pc \in Statement
    /\ samples \in 0 .. SampleValues - 1 /\ index \in Channel /\ newData \in BOOLEAN
    /\ data \in [Channel -> SUBSET ((Channel \X Nat) \cup {Garbage})]
    /\ map \in [Channel -> Channel \cup {Foreign}]
    /\ selected \in Channel \cup {Foreign} /\ converting \in BOOLEAN
    /\ BuffersLive => map = [c \in Channel |-> c] /\ selected \in Channel
    /\ taken \in [Channel -> Nat]

(* Who is told that the readout is finished finds in every cell the mean of *)
(* exactly Oversamples conversions of its own channel, the latest ones.     *)
Averages ==
    newData =>
        \A c \in Channel :
            data[c] = Conversions(c, taken[c] - Oversamples + 1, taken[c])

(* As long as the fiber waits for a readout, a conversion is under way: the *)
(* chain of interrupts is not broken and no end of a readout is missed.     *)
NeverStalls == (pc = "poll" /\ ~newData) => converting

(* While the fiber reads the buffer nobody writes to it *)
ReadsStable == [][(pc = "read") => UNCHANGED <<data, newData>>]_vars

(* A readout takes what it needs: no channel is converted more than once    *)
(* beyond the Oversamples conversions that are averaged.                    *)
EnoughSamples == \A c \in Channel : taken[c] <= Oversamples + 1

(* Every readout ends *)
ReadoutEnds == (pc = "poll") ~> (pc = "read")
=============================================================================
