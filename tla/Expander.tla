------------------------------ MODULE Expander ------------------------------
(***************************************************************************)
(* The simulation fiber together with the `controller` fiber of             *)
(* expansion/controller.hpp, which every 2 ms sends out_buffer over SPI to   *)
(* a chain of output boards.  The fibers are cooperative and switch only     *)
(* where one waits, but the DMA reads the buffer byte by byte on its own:    *)
(* the writes of a round fall between its reads, and a frame may be torn.    *)
(*                                                                           *)
(* Time is counted in milliseconds.  A due fiber, or a transfer, may be late *)
(* by up to Slack of them (the two other fibers log and wait in between).    *)
(***************************************************************************)
EXTENDS Simulation, Integers, FiniteSets, Functions

CONSTANTS
    Sections,       \* the sections in the order of the table `tracks`
    last_board,     \* boards are numbered 0..last_board along the chain
    SimSleep,       \* sleep_for(100ms) of the simulation
    SleepTime,      \* sleep_for(2ms) of the controller
    Slack           \* bound of every delay

Boards == 0..last_board

(* An ioposition is a board and a bit, and nothing else *)
ASSUME ChainAssumption ==
    /\ last_board \in Nat
    /\ \A p \in Position : p.board \in Boards
    /\ \A p, q \in Position : p.board = q.board /\ p.bit_pos = q.bit_pos => p = q
    /\ Range(Sections) = Id

ASSUME TimingAssumption ==
    /\ {SimSleep, SleepTime, Slack} \subseteq Nat \ {0}
    /\ SimSleep > SleepTime + 3 * Slack

VARIABLES
    todo,       \* the writes of the round that are still to be done
    sim_wait,   \* ms until the simulation is due again
    ctl_pc,     \* "sleep", or "transfer" while CS is low
    ctl_wait,   \* ms until the controller is due (<= 0 in a transfer)
    beat,       \* bytes of the frame the DMA has read
    chain,      \* the shift registers of the boards
    outputs     \* the outputs the boards have latched

simVars == <<pc, last_track, current_track, state, powerstate>>
ctlVars == <<ctl_pc, beat, chain, outputs>>
expVars == <<simVars, out_buffer, todo, sim_wait, ctlVars, ctl_wait>>

ExpInit ==
    /\ Init
    /\ todo = {}
    /\ sim_wait = 0
    /\ ctl_pc = "sleep"
    /\ ctl_wait = 0
    /\ beat = 0
    /\ chain = [b \in Boards |-> {}]
    /\ outputs = {}

-----------------------------------------------------------------------------
(* The simulation *)

(* A call of set_buffer in the loop over the sections, and its place there *)
write(place, p, on) == [place |-> place, pos |-> p, on |-> on]

(* Mutant: the coil that is not wanted is not written *)
SectionWrites_CoilKept(i, on, points) ==
    LET t == Sections[i]
    IN {write(3 * i, power_pos[t], t \in on)} \cup
       (IF t \in Switches /\ points[t] # "UNKNOWN"
        THEN {write(3 * i + 1, IF points[t] = "STRAIGHT" THEN straight_pos[t] ELSE curved_pos[t], TRUE)}
        ELSE {})
(* Mutant: only switches are written *)
SectionWrites_NoStraights(i, on, points) ==
    LET t == Sections[i]
    IN IF t \in Switches /\ points[t] # "UNKNOWN"
       THEN {write(3 * i, power_pos[t], t \in on),
             write(3 * i + 1, straight_pos[t], points[t] = "STRAIGHT"),
             write(3 * i + 2, curved_pos[t], points[t] = "CURVED")}
       ELSE {}

(* The calls for the section that comes as number i *)
SectionWrites(i, on, points) ==
    LET t == Sections[i]
    IN {write(3 * i, power_pos[t], t \in on)} \cup
       (IF t \in Switches /\ points[t] # "UNKNOWN"
        THEN {write(3 * i + 1, straight_pos[t], points[t] = "STRAIGHT"),
              write(3 * i + 2, curved_pos[t], points[t] = "CURVED")}
        ELSE {})

(* The calls of a whole round.  One that leaves its bit as it is makes no  *)
(* difference to the DMA; only the others become steps.                    *)
RoundWrites(on, points) ==
    {w \in UNION {SectionWrites(i, on, points) : i \in DOMAIN Sections} : w.on # (w.pos \in out_buffer)}

set_buffer(buffer, w) == IF w.on THEN buffer \cup {w.pos} ELSE buffer \ {w.pos}

(* The buffer after all of the writes ws *)
AfterWrites(buffer, ws) ==
    (buffer \ {w.pos : w \in ws}) \cup {w.pos : w \in {v \in ws : v.on}}

SimWakes(pressed) ==
    /\ todo = {} /\ sim_wait <= 0
    /\ MoveTrain(pressed)
    /\ todo' = RoundWrites(powerstate', state')
    /\ sim_wait' = IF todo' = {} THEN SimSleep ELSE sim_wait
    /\ UNCHANGED <<out_buffer, ctlVars, ctl_wait>>

SimWrites ==
    /\ \E w \in todo :
          /\ \A v \in todo : w.place <= v.place
          /\ out_buffer' = set_buffer(out_buffer, w)
          /\ todo' = todo \ {w}
    /\ sim_wait' = IF todo' = {} THEN SimSleep ELSE sim_wait
    /\ UNCHANGED <<simVars, ctlVars, ctl_wait>>

(* Mutant: all outputs are cleared when the way is lost *)
SimEnds_Clears ==
    /\ todo = {} /\ sim_wait <= 0
    /\ pc = "run" /\ possible_ways[1] = INVALID
    /\ pc' = "ended" /\ out_buffer' = {}
    /\ UNCHANGED <<last_track, current_track, state, powerstate>>
    /\ UNCHANGED <<todo, sim_wait, ctlVars, ctl_wait>>

SimEnds ==
    /\ todo = {} /\ sim_wait <= 0
    /\ NotFound
    /\ UNCHANGED <<todo, sim_wait, ctlVars, ctl_wait>>

Simulate == (\E pressed \in BOOLEAN : SimWakes(pressed)) \/ SimWrites \/ SimEnds

-----------------------------------------------------------------------------
(* The controller runs only while the simulation waits *)
Cooperative == todo = {}

(* Mutant: boards are sent first first *)
calculate_buffer_offset_Ascending(b) == b

(* Boards are sent last first: the first byte goes to the end of the chain *)
calculate_buffer_offset(b) == last_board - b

(* CS::reset() and the start of the transfer *)
BeginFrame ==
    /\ Cooperative /\ ctl_pc = "sleep" /\ ctl_wait <= 0
    /\ ctl_pc' = "transfer"
    /\ beat' = 0
    /\ ctl_wait' = 0
    /\ UNCHANGED <<simVars, out_buffer, todo, sim_wait, chain, outputs>>

(* Mutant: one byte more than the buffer has *)
Beat_OneMore ==
    /\ ctl_pc = "transfer" /\ beat <= last_board + 1
    /\ LET byte == {p.bit_pos : p \in {q \in out_buffer : calculate_buffer_offset(q.board) = beat}}
       IN chain' = [b \in Boards |-> IF b = 0 THEN byte ELSE chain[b - 1]]
    /\ beat' = beat + 1
    /\ UNCHANGED <<simVars, out_buffer, todo, sim_wait, ctl_pc, ctl_wait, outputs>>

(* The DMA reads the next byte, and the bytes in the chain move on.  It     *)
(* does not wait for any fiber.                                            *)
Beat ==
    /\ ctl_pc = "transfer" /\ beat <= last_board
    /\ LET byte == {p.bit_pos : p \in {q \in out_buffer : calculate_buffer_offset(q.board) = beat}}
       IN chain' = [b \in Boards |-> IF b = 0 THEN byte ELSE chain[b - 1]]
    /\ beat' = beat + 1
    /\ UNCHANGED <<simVars, out_buffer, todo, sim_wait, ctl_pc, ctl_wait, outputs>>

(* Mutant: the controller waits for a byte that never comes *)
EndFrame_WaitsForMore ==
    /\ Cooperative /\ ctl_pc = "transfer" /\ beat = last_board + 2
    /\ outputs' = {p \in Position : p.bit_pos \in chain[p.board]}
    /\ ctl_pc' = "sleep"
    /\ ctl_wait' = SleepTime
    /\ UNCHANGED <<simVars, out_buffer, todo, sim_wait, beat, chain>>
(* Mutant: the controller sleeps as long as the simulation *)
EndFrame_SleepsLong ==
    /\ Cooperative /\ ctl_pc = "transfer" /\ beat = last_board + 1
    /\ outputs' = {p \in Position : p.bit_pos \in chain[p.board]}
    /\ ctl_pc' = "sleep"
    /\ ctl_wait' = SimSleep
    /\ UNCHANGED <<simVars, out_buffer, todo, sim_wait, beat, chain>>

(* The transfer is over: CS::set() latches the chain; sleep_for *)
EndFrame ==
    /\ Cooperative /\ ctl_pc = "transfer" /\ beat = last_board + 1
    /\ outputs' = {p \in Position : p.bit_pos \in chain[p.board]}
    /\ ctl_pc' = "sleep"
    /\ ctl_wait' = SleepTime
    /\ UNCHANGED <<simVars, out_buffer, todo, sim_wait, beat, chain>>

Control == BeginFrame \/ EndFrame

-----------------------------------------------------------------------------
(* The clock; an ended simulation is not waited for *)
Tick ==
    /\ ctl_wait > -Slack
    /\ sim_wait > -Slack \/ pc = "ended"
    /\ ctl_wait' = ctl_wait - 1
    /\ sim_wait' = IF pc = "ended" THEN 0 ELSE sim_wait - 1
    /\ UNCHANGED <<simVars, out_buffer, todo, ctlVars>>

ExpNext == Simulate \/ Control \/ Beat \/ Tick

(* The scheduler gives every waiting fiber its turn, the DMA and the clock *)
(* run on their own.                                                       *)
ExpSpec ==
    /\ ExpInit /\ [][ExpNext]_expVars
    /\ WF_expVars(Simulate) /\ WF_expVars(Control) /\ WF_expVars(Beat) /\ WF_expVars(Tick)

-----------------------------------------------------------------------------
(* Whenever the simulation waits, the buffer asks for power in the train's  *)
(* section alone and for one coil of every switch that was set; and it is on *)
(* the boards before the next round starts, whatever frame was torn.        *)
RoundApplied ==
    /\ Cooperative => OnlyTrainPowered /\ CoilsFollowPoints
    /\ Cooperative /\ sim_wait <= 0 /\ powerstate # {} =>
        /\ outputs = out_buffer
        /\ {t \in Id : power_pos[t] \in outputs} = {current_track}

(* A torn frame mixes the last two rounds and nothing else: only the two   *)
(* sections at the train can have power, and only the switch just left may  *)
(* have both coils energised.                                               *)
PoweredOutputs == {t \in Id : power_pos[t] \in outputs}
BothCoils      == {s \in Switches : {straight_pos[s], curved_pos[s]} \subseteq outputs}
TornOnlyAtTrain ==
    /\ PoweredOutputs \subseteq {last_track, current_track}
    /\ BothCoils \subseteq {last_track}

(* A torn frame is repaired by the very next one: two coils of a switch at *)
(* once, or none or two sections powered, last for one frame only.          *)
Torn == BothCoils # {} \/ Cardinality(PoweredOutputs) # 1
FrameEnds == ctl_pc = "transfer" /\ ctl_pc' = "sleep"
TornForOneFrame == [][(FrameEnds /\ outputs # {} /\ Torn) => ~Torn']_<<ctl_pc, outputs>>

(* Once the simulation has given up, the controller goes on sending its     *)
(* last buffer: the section under the lost train keeps its power for ever.  *)
StaysPoweredWhenLost == pc = "ended" ~> [](outputs = out_buffer /\ PoweredOutputs = {current_track})

(* The two fibers and the DMA together do what Simulation says, when the   *)
(* writes of a round that are still to come are counted as done.            *)
Sim == INSTANCE Simulation WITH out_buffer <- AfterWrites(out_buffer, todo)
ImplementsSimulation == Sim!Spec

(* Frames are transfers as ByteTransfer promises them; SpiDma.tla shows    *)
(* that the driver keeps that promise.                                      *)
Contract == INSTANCE ByteTransfer WITH
    Length <- last_board + 1,
    phase <- IF ctl_pc = "sleep" THEN "idle" ELSE "busy",
    read <- beat
UsesContract == Contract!Spec
=============================================================================
