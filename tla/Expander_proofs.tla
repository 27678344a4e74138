--------------------------- MODULE Expander_proofs ---------------------------
(***************************************************************************)
(* Theorems about the two fibers and the DMA, for every layout, any number   *)
(* of boards and all times that leave a round the frames it needs.           *)
(***************************************************************************)
EXTENDS Expander, Simulation_proofs, FiniteSetTheorems

(* The buffer at the end of the round *)
Target == AfterWrites(out_buffer, todo)

(* The bits that the DMA has read in this frame: board b is read as number  *)
(* last_board - b, and its byte has moved on in the chain since.             *)
Taken(p) == p.board + beat > last_board
Sent(p)  == p.bit_pos \in chain[p.board + beat - last_board - 1]

(* What the DMA has read so far is what the buffer holds *)
Fresh == ctl_pc = "transfer" => \A p \in Position : Taken(p) => (Sent(p) <=> p \in out_buffer)

(* The only outputs that a round may change *)
AtTrain ==
    {power_pos[last_track], power_pos[current_track]} \cup
    (IF last_track \in Switches THEN {straight_pos[last_track], curved_pos[last_track]} ELSE {})

-----------------------------------------------------------------------------
(* The parts of the inductive invariant *)

ExpTypeOK ==
    /\ TypeOK
    /\ outputs \subseteq Position
    /\ ctl_pc \in {"sleep", "transfer"}
    /\ beat \in 0..last_board + 1
    /\ sim_wait \in Int /\ -Slack <= sim_wait /\ sim_wait <= SimSleep
    /\ ctl_wait \in Int /\ -Slack <= ctl_wait /\ ctl_wait <= SleepTime
    /\ ctl_pc = "transfer" => ctl_wait <= 0

TodoOK ==
    /\ \A w \in todo : w.pos \in Position /\ w.on \in BOOLEAN
    /\ \A v, w \in todo : v.pos = w.pos => v.on = w.on
    /\ todo # {} => pc = "run" /\ sim_wait <= 0

(* The round as a whole does to the buffer what it does in Simulation *)
TargetOK ==
    /\ powerstate \subseteq {current_track}
    /\ \A t \in Id : power_pos[t] \in Target <=> t \in powerstate
    /\ \A s \in Switches : /\ straight_pos[s] \in Target <=> state[s] = "STRAIGHT"
                           /\ curved_pos[s] \in Target <=> state[s] = "CURVED"

(* Buffer, chain and outputs are the round's everywhere but at the train *)
TornAtTrain ==
    \A p \in Position \ AtTrain :
        /\ p \in outputs <=> p \in Target
        /\ p \in out_buffer <=> p \in Target
        /\ ctl_pc = "transfer" /\ Taken(p) => (Sent(p) <=> p \in Target)

(* The outputs before the frame that is torn, if any *)
Clean == outputs = {} \/ ~Torn
CleanBefore == todo # {} \/ ~Fresh => Clean

Settled == outputs = out_buffer /\ Fresh

Unstarted == powerstate = {} => todo = {} /\ out_buffer = {}

(* How long after a round the outputs may still be other ones: a frame that *)
(* is under way, a sleep, and one more frame                                 *)
Elapsed == SimSleep - sim_wait
InTime ==
    \/ ctl_pc = "transfer" /\ ~Fresh /\ Elapsed <= -ctl_wait
    \/ ctl_pc = "sleep" /\ Elapsed <= Slack + SleepTime - ctl_wait
    \/ ctl_pc = "transfer" /\ Fresh /\ Elapsed <= 2 * Slack + SleepTime - ctl_wait
Repaired ==
    /\ powerstate = {} \/ pc = "ended" => Settled
    /\ todo = {} => Settled \/ InTime

IInv ==
    /\ ExpTypeOK /\ TodoOK /\ TargetOK /\ TornAtTrain
    /\ CleanBefore /\ Unstarted /\ Repaired

-----------------------------------------------------------------------------
(* The writes of a round *)

(* The loop calls set_buffer for p with the value v *)
Calls(p, v, on, points) ==
    \/ \E t \in Id : p = power_pos[t] /\ v = (t \in on)
    \/ \E s \in Switches : /\ points[s] # "UNKNOWN"
                           /\ \/ p = straight_pos[s] /\ v = (points[s] = "STRAIGHT")
                              \/ p = curved_pos[s] /\ v = (points[s] = "CURVED")

LEMMA CallsAre ==
    ASSUME NEW on, NEW points, NEW p, NEW v \in BOOLEAN
    PROVE  (\E i \in DOMAIN Sections : \E w \in SectionWrites(i, on, points) : w.pos = p /\ w.on = v)
              <=> Calls(p, v, on, points)
<1>1. \A t \in Id : \E i \in DOMAIN Sections : Sections[i] = t
  BY ChainAssumption DEF Range
<1>2. \A i \in DOMAIN Sections : Sections[i] \in Id
  BY ChainAssumption DEF Range
<1>3. ASSUME NEW i \in DOMAIN Sections, NEW w \in SectionWrites(i, on, points), w.pos = p, w.on = v
      PROVE  Calls(p, v, on, points)
  BY <1>2, <1>3 DEF SectionWrites, write, Calls
<1>4. ASSUME NEW t \in Id, p = power_pos[t], v = (t \in on)
      PROVE  \E i \in DOMAIN Sections : \E w \in SectionWrites(i, on, points) : w.pos = p /\ w.on = v
  <2>1. PICK i \in DOMAIN Sections : Sections[i] = t
    BY <1>1
  <2>2. write(3 * i, p, v) \in SectionWrites(i, on, points)
    BY <1>4, <2>1 DEF SectionWrites
  <2> QED  BY <2>2 DEF write
<1>5. ASSUME NEW s \in Switches, points[s] # "UNKNOWN", p = straight_pos[s], v = (points[s] = "STRAIGHT")
      PROVE  \E i \in DOMAIN Sections : \E w \in SectionWrites(i, on, points) : w.pos = p /\ w.on = v
  <2>1. PICK i \in DOMAIN Sections : Sections[i] = s
    BY <1>1, LayoutAssumption
  <2>2. write(3 * i + 1, p, v) \in SectionWrites(i, on, points)
    BY <1>5, <2>1 DEF SectionWrites
  <2> QED  BY <2>2 DEF write
<1>6. ASSUME NEW s \in Switches, points[s] # "UNKNOWN", p = curved_pos[s], v = (points[s] = "CURVED")
      PROVE  \E i \in DOMAIN Sections : \E w \in SectionWrites(i, on, points) : w.pos = p /\ w.on = v
  <2>1. PICK i \in DOMAIN Sections : Sections[i] = s
    BY <1>1, LayoutAssumption
  <2>2. write(3 * i + 2, p, v) \in SectionWrites(i, on, points)
    BY <1>6, <2>1 DEF SectionWrites
  <2> QED  BY <2>2 DEF write
<1> QED  BY <1>3, <1>4, <1>5, <1>6 DEF Calls

(* No output is called for with two values, since no output has two users *)
LEMMA CallsAgree ==
    ASSUME NEW on, NEW points, NEW p, NEW u \in BOOLEAN, NEW v \in BOOLEAN,
           Calls(p, u, on, points), Calls(p, v, on, points)
    PROVE  u = v
BY WiringAssumption DEF Calls

(* The buffer that the whole round leaves, output by output *)
LEMMA WrittenIs ==
    ASSUME NEW buffer, NEW on \in SUBSET Id, NEW points \in [Switches -> SwitchState], NEW p
    PROVE  p \in Written(buffer, on, points) <=>
              \/ Calls(p, TRUE, on, points)
              \/ p \in buffer /\ ~Calls(p, FALSE, on, points)
<1>1. CASE \E t \in Id : p = power_pos[t]
  BY <1>1, WiringAssumption DEF Written, Calls
<1>2. CASE \E s \in Switches : p = straight_pos[s]
  BY <1>2, WiringAssumption DEF Written, Calls, SwitchState
<1>3. CASE \E s \in Switches : p = curved_pos[s]
  BY <1>3, WiringAssumption DEF Written, Calls, SwitchState
<1>4. CASE /\ \A t \in Id : p # power_pos[t]
           /\ \A s \in Switches : p # straight_pos[s] /\ p # curved_pos[s]
  BY <1>4 DEF Written, Calls
<1> QED  BY <1>1, <1>2, <1>3, <1>4

(* The writes of RoundWrites, one after the other or all at once, are the    *)
(* round of Simulation.                                                     *)
LEMMA RoundWritesAll ==
    ASSUME NEW on \in SUBSET Id, NEW points \in [Switches -> SwitchState]
    PROVE  /\ AfterWrites(out_buffer, RoundWrites(on, points)) = Written(out_buffer, on, points)
           /\ \A w \in RoundWrites(on, points) : w.pos \in Position /\ w.on \in BOOLEAN
           /\ \A v, w \in RoundWrites(on, points) : v.pos = w.pos => v.on = w.on
<1> DEFINE ws == RoundWrites(on, points)
<1>1. \A w \in ws : w.on \in BOOLEAN /\ w.on # (w.pos \in out_buffer) /\ Calls(w.pos, w.on, on, points)
  <2>1. \A i \in DOMAIN Sections : \A w \in SectionWrites(i, on, points) : w.on \in BOOLEAN
    <3> SUFFICES ASSUME NEW i \in DOMAIN Sections, NEW w \in SectionWrites(i, on, points)
                 PROVE  w.on \in BOOLEAN
      OBVIOUS
    <3>1. \E q, r, b : w = write(q, r, b) /\ b \in BOOLEAN
      <4> DEFINE t == Sections[i]
                 w1 == write(3 * i, power_pos[t], t \in on)
                 w2 == write(3 * i + 1, straight_pos[t], points[t] = "STRAIGHT")
                 w3 == write(3 * i + 2, curved_pos[t], points[t] = "CURVED")
      <4>1. w = w1 \/ w = w2 \/ w = w3
        BY DEF SectionWrites
      <4>2. (t \in on) \in BOOLEAN /\ (points[t] = "STRAIGHT") \in BOOLEAN /\ (points[t] = "CURVED") \in BOOLEAN
        OBVIOUS
      <4> QED  BY <4>1, <4>2, Zenon
    <3> QED  BY <3>1 DEF write
  <2> QED  BY <2>1, CallsAre DEF RoundWrites
<1>2. ASSUME NEW p, NEW v \in BOOLEAN, Calls(p, v, on, points), v # (p \in out_buffer)
      PROVE  \E w \in ws : w.pos = p /\ w.on = v
  BY <1>2, CallsAre DEF RoundWrites
<1>3. \A w \in ws : w.pos \in Position
  BY <1>1, WiringAssumption DEF Calls
<1>4. ASSUME NEW p
      PROVE  p \in AfterWrites(out_buffer, ws) <=> p \in Written(out_buffer, on, points)
  <2>1. p \in Written(out_buffer, on, points) <=>
           (Calls(p, TRUE, on, points) \/ (p \in out_buffer /\ ~Calls(p, FALSE, on, points)))
    BY WrittenIs
  <2>2. p \in AfterWrites(out_buffer, ws) <=>
           \/ p \in out_buffer /\ ~(\E w \in ws : w.pos = p)
           \/ \E w \in ws : w.pos = p /\ w.on
    BY DEF AfterWrites
  <2>3. CASE p \in out_buffer
    <3>1. (\E w \in ws : w.pos = p) <=> Calls(p, FALSE, on, points)
      <4>1. ASSUME NEW w \in ws, w.pos = p PROVE Calls(p, FALSE, on, points)
        <5>1. w.on = FALSE
          BY <1>1, <2>3, <4>1
        <5> QED  BY <1>1, <4>1, <5>1
      <4>2. ASSUME Calls(p, FALSE, on, points) PROVE \E w \in ws : w.pos = p
        BY <1>2, <2>3, <4>2
      <4> QED  BY <4>1, <4>2
    <3>2. ~(\E w \in ws : w.pos = p /\ w.on)
      BY <1>1, <2>3
    <3> QED  BY <2>1, <2>2, <2>3, <3>1, <3>2, CallsAgree
  <2>4. CASE p \notin out_buffer
    <3>1. (\E w \in ws : w.pos = p /\ w.on) <=> Calls(p, TRUE, on, points)
      BY <1>1, <1>2, <2>4
    <3> QED  BY <2>1, <2>2, <2>4, <3>1
  <2> QED  BY <2>3, <2>4
<1>5. AfterWrites(out_buffer, ws) = Written(out_buffer, on, points)
  <2>1. \A p : p \in AfterWrites(out_buffer, ws) <=> p \in Written(out_buffer, on, points)
    BY <1>4
  <2> QED  BY <2>1
<1> QED  BY <1>1, <1>3, <1>5

-----------------------------------------------------------------------------
LEMMA Times ==
    /\ SimSleep \in Nat /\ SleepTime \in Nat /\ Slack \in Nat /\ Slack > 0
    /\ SimSleep > SleepTime + 3 * Slack
BY TimingAssumption

LEMMA AfterWritesIs ==
    ASSUME NEW buffer, NEW ws, NEW p
    PROVE  p \in AfterWrites(buffer, ws) <=>
              \/ p \in buffer /\ \A w \in ws : w.pos # p
              \/ \E w \in ws : w.pos = p /\ w.on
BY DEF AfterWrites

LEMMA TargetReached == todo = {} => Target = out_buffer
<1> SUFFICES ASSUME todo = {}, NEW p PROVE p \in Target <=> p \in out_buffer
  <2>1. ASSUME todo = {}, \A p : p \in Target <=> p \in out_buffer PROVE Target = out_buffer
    BY <2>1
  <2> QED  BY <2>1
<1> QED  BY AfterWritesIs DEF Target

LEMMA InitInv == ExpInit => IInv
<1> SUFFICES ASSUME ExpInit PROVE IInv
  OBVIOUS
<1> USE DEF ExpInit, Init
<1>1. TypeOK
  BY StartAssumption DEF TypeOK, SwitchState
<1>2. ExpTypeOK
  BY <1>1, Times, ChainAssumption DEF ExpTypeOK
<1>3. Target = {}
  BY TargetReached
<1>4. Fresh
  BY DEF Fresh
<1>5. TodoOK /\ TargetOK /\ TornAtTrain
  BY <1>3 DEF TodoOK, TargetOK, TornAtTrain
<1>6. CleanBefore /\ Unstarted /\ Repaired
  BY <1>4 DEF CleanBefore, Unstarted, Repaired, Settled
<1> QED  BY <1>2, <1>5, <1>6 DEF IInv

-----------------------------------------------------------------------------
(* What the invariant says of the moment a round begins: SimSleep is longer *)
(* than the time in which the outputs are other ones.                       *)
LEMMA RoundFindsSettled ==
    ASSUME IInv, todo = {}, sim_wait <= 0
    PROVE  Settled
BY Times DEF IInv, ExpTypeOK, Repaired, InTime, Elapsed

LEMMA SettledIsClean ==
    ASSUME IInv, todo = {}, outputs = out_buffer
    PROVE  /\ Clean
           /\ powerstate # {} => PoweredOutputs = {current_track} /\ BothCoils = {} /\ ~Torn
<1>1. Target = out_buffer
  BY TargetReached
<1>2. CASE powerstate = {}
  BY <1>2 DEF IInv, Unstarted, Clean
<1>3. CASE powerstate # {}
  <2>1. PoweredOutputs = {current_track}
    <3>1. powerstate = {current_track} /\ current_track \in Id
      BY <1>3 DEF IInv, TargetOK, ExpTypeOK, TypeOK
    <3> QED  BY <1>1, <3>1 DEF IInv, TargetOK, PoweredOutputs
  <2>2. BothCoils = {}
    BY <1>1 DEF IInv, TargetOK, BothCoils
  <2>3. Cardinality(PoweredOutputs) = 1
    BY <2>1, FS_Singleton
  <2> QED  BY <2>1, <2>2, <2>3 DEF Clean, Torn
<1> QED  BY <1>2, <1>3

LEMMA SameBits ==
    ASSUME UNCHANGED <<ctl_pc, beat, chain>>
    PROVE  /\ \A p \in Position : (Taken(p)' <=> Taken(p)) /\ (Sent(p)' <=> Sent(p))
           /\ out_buffer' = out_buffer => (Fresh' <=> Fresh)
BY DEF Fresh, Taken, Sent

LEMMA SameOutputs == outputs' = outputs => (Clean' <=> Clean)
BY DEF Clean, Torn, BothCoils, PoweredOutputs

(* No output but those at the train is changed by a round *)
LEMMA MoveIsLocal ==
    ASSUME IInv, todo = {}, NEW pressed \in BOOLEAN, MoveTrain(pressed), NEW p \in Position \ AtTrain'
    PROVE  p \in Written(out_buffer, powerstate', state') <=> p \in out_buffer
<1>1. TypeOK /\ Target = out_buffer /\ TargetOK
  BY TargetReached DEF IInv, ExpTypeOK
<1>2. powerstate' = {current_track'} /\ last_track' = current_track /\ current_track' \in Id
  BY <1>1, MoveMoves DEF MoveTrain, PowerSet, TargetOK
<1>3. state' \in [Switches -> SwitchState] /\ powerstate' \in SUBSET Id
  BY <1>1, MoveTypes
<1>4. ASSUME NEW t \in Id, p = power_pos[t]
      PROVE  p \in Written(out_buffer, powerstate', state') <=> p \in out_buffer
  <2>1. t # current_track /\ t # current_track'
    BY <1>2, <1>4 DEF AtTrain
  <2> QED  BY <1>1, <1>2, <1>3, <1>4, <2>1, WrittenPower DEF TargetOK
<1>5. ASSUME NEW s \in Switches, p = straight_pos[s] \/ p = curved_pos[s]
      PROVE  p \in Written(out_buffer, powerstate', state') <=> p \in out_buffer
  <2>1. s # current_track
    BY <1>2, <1>5 DEF AtTrain
  <2>2. state'[s] = state[s]
    BY <2>1 DEF MoveTrain, PointsSet
  <2> QED  BY <1>1, <1>3, <1>5, <2>2, WrittenCoils, UnknownCoilsStay DEF TargetOK
<1>6. ASSUME \A t \in Id : p # power_pos[t], \A s \in Switches : p # straight_pos[s] /\ p # curved_pos[s]
      PROVE  p \in Written(out_buffer, powerstate', state') <=> p \in out_buffer
  <2>1. ~Calls(p, TRUE, powerstate', state') /\ ~Calls(p, FALSE, powerstate', state')
    BY <1>6 DEF Calls
  <2> QED  BY <1>3, <2>1, WrittenIs
<1> QED  BY <1>4, <1>5, <1>6

LEMMA WakesInv == ASSUME NEW pressed \in BOOLEAN PROVE IInv /\ SimWakes(pressed) => IInv'
<1> SUFFICES ASSUME IInv, SimWakes(pressed) PROVE IInv'
  OBVIOUS
<1>1. /\ todo = {} /\ sim_wait <= 0 /\ MoveTrain(pressed)
      /\ todo' = RoundWrites(powerstate', state')
      /\ sim_wait' = IF todo' = {} THEN SimSleep ELSE sim_wait
      /\ UNCHANGED <<out_buffer, ctl_pc, beat, chain, outputs, ctl_wait>>
  BY DEF SimWakes, ctlVars
<1>2. TypeOK /\ Target = out_buffer /\ TargetOK /\ Settled
  BY <1>1, TargetReached, RoundFindsSettled DEF IInv, ExpTypeOK
<1>3. /\ pc' = "run" /\ current_track' \in Id /\ last_track' \in Id
      /\ state' \in [Switches -> SwitchState] /\ powerstate' \in SUBSET Id
  BY <1>1, <1>2, MoveTypes
<1>4. /\ AfterWrites(out_buffer, todo') = Written(out_buffer, powerstate', state')
      /\ \A w \in todo' : w.pos \in Position /\ w.on \in BOOLEAN
      /\ \A v, w \in todo' : v.pos = w.pos => v.on = w.on
  BY <1>1, <1>3, RoundWritesAll
<1>5. Target' = Written(out_buffer, powerstate', state')
  BY <1>1, <1>4 DEF Target
<1>6. powerstate' = {current_track'}
  BY <1>1, <1>2 DEF MoveTrain, PowerSet, TargetOK
<1>7. Fresh' /\ Settled'
  BY <1>1, <1>2, SameBits DEF Settled
<1>8. ExpTypeOK'
  BY <1>1, <1>2, <1>3, Times DEF IInv, ExpTypeOK, TypeOK
<1>9. TodoOK'
  BY <1>1, <1>3, <1>4 DEF TodoOK
<1>10. TargetOK'
  <2>1. \A t \in Id : power_pos[t] \in Target' <=> t \in powerstate'
    BY <1>3, <1>5, WrittenPower
  <2>2. ASSUME NEW s \in Switches
        PROVE  /\ straight_pos[s] \in Target' <=> state'[s] = "STRAIGHT"
               /\ curved_pos[s] \in Target' <=> state'[s] = "CURVED"
    <3>1. CASE state'[s] = "UNKNOWN"
      <4>1. state[s] = "UNKNOWN"
        BY <1>1, <1>2, <3>1, PointsStayKnown
      <4> QED  BY <1>2, <1>3, <1>5, <3>1, <4>1, UnknownCoilsStay DEF TargetOK
    <3>2. CASE state'[s] # "UNKNOWN"
      BY <1>3, <1>5, <3>2, WrittenCoils
    <3> QED  BY <3>1, <3>2
  <2> QED  BY <1>6, <2>1, <2>2 DEF TargetOK
<1>11. TornAtTrain'
  <2> SUFFICES ASSUME NEW p \in Position \ AtTrain'
               PROVE  /\ p \in outputs' <=> p \in Target'
                      /\ p \in out_buffer' <=> p \in Target'
                      /\ ctl_pc' = "transfer" /\ Taken(p)' => (Sent(p)' <=> p \in Target')
    BY DEF TornAtTrain
  <2>1. p \in Target' <=> p \in out_buffer
    BY <1>1, <1>5, MoveIsLocal
  <2> QED  BY <1>1, <1>2, <1>7, <2>1 DEF Settled, Fresh
<1>12. CleanBefore'
  BY <1>1, <1>2, SettledIsClean, SameOutputs DEF CleanBefore, Settled
<1>13. Unstarted' /\ Repaired'
  BY <1>3, <1>6, <1>7 DEF Unstarted, Repaired
<1> QED  BY <1>8, <1>9, <1>10, <1>11, <1>12, <1>13 DEF IInv

(* Who only ends, or only waits, changes neither buffer nor chain *)
LEMMA EndsInv == IInv /\ SimEnds => IInv'
<1> SUFFICES ASSUME IInv, SimEnds PROVE IInv'
  OBVIOUS
<1>1. /\ todo = {} /\ sim_wait <= 0 /\ pc' = "ended"
      /\ UNCHANGED <<last_track, current_track, state, powerstate, out_buffer>>
      /\ UNCHANGED <<todo, sim_wait, ctl_pc, beat, chain, outputs, ctl_wait>>
  BY DEF SimEnds, NotFound, ctlVars
<1>2. Settled
  BY <1>1, RoundFindsSettled
<1>3. Fresh' /\ Settled'
  BY <1>1, <1>2, SameBits DEF Settled
<1>4. Target' = Target /\ AtTrain' = AtTrain
  BY <1>1 DEF Target, AtTrain
<1>5. ExpTypeOK' /\ TodoOK' /\ TargetOK'
  BY <1>1, <1>4 DEF IInv, ExpTypeOK, TypeOK, TodoOK, TargetOK
<1>6. TornAtTrain'
  BY <1>1, <1>4, SameBits DEF IInv, TornAtTrain
<1>7. CleanBefore' /\ Unstarted' /\ Repaired'
  BY <1>1, <1>3 DEF IInv, CleanBefore, Unstarted, Repaired
<1> QED  BY <1>5, <1>6, <1>7 DEF IInv

LEMMA TickInv == IInv /\ Tick => IInv'
<1> SUFFICES ASSUME IInv, Tick PROVE IInv'
  OBVIOUS
<1>1. /\ ctl_wait > -Slack /\ ctl_wait' = ctl_wait - 1
      /\ sim_wait > -Slack \/ pc = "ended"
      /\ sim_wait' = IF pc = "ended" THEN 0 ELSE sim_wait - 1
      /\ UNCHANGED <<pc, last_track, current_track, state, powerstate, out_buffer>>
      /\ UNCHANGED <<todo, ctl_pc, beat, chain, outputs>>
  BY DEF Tick, simVars, ctlVars
<1>2. (Fresh' <=> Fresh) /\ (Clean' <=> Clean) /\ (Settled' <=> Settled)
  BY <1>1, SameBits, SameOutputs DEF Settled
<1>3. Target' = Target /\ AtTrain' = AtTrain
  BY <1>1 DEF Target, AtTrain
<1>4. ExpTypeOK'
  BY <1>1, Times DEF IInv, ExpTypeOK, TypeOK
<1>5. TodoOK' /\ TargetOK' /\ Unstarted'
  BY <1>1, <1>3, Times DEF IInv, ExpTypeOK, TodoOK, TargetOK, Unstarted
<1>6. TornAtTrain'
  BY <1>1, <1>3, SameBits DEF IInv, TornAtTrain
<1>7. CleanBefore'
  BY <1>1, <1>2 DEF IInv, CleanBefore
<1>8. Repaired'
  BY <1>1, <1>2, Times DEF IInv, ExpTypeOK, Repaired, InTime, Elapsed
<1> QED  BY <1>4, <1>5, <1>6, <1>7, <1>8 DEF IInv

-----------------------------------------------------------------------------
(* A write brings the buffer nearer to the round's, output by output *)
LEMMA WriteStep ==
    ASSUME TodoOK, NEW w \in todo, out_buffer' = set_buffer(out_buffer, w), todo' = todo \ {w}
    PROVE  /\ Target' = Target
           /\ \A p : p \in out_buffer' <=> IF p = w.pos THEN p \in Target ELSE p \in out_buffer
<1>1. w.on <=> w.pos \in Target
  BY AfterWritesIs DEF TodoOK, Target
<1>2. \A p : p \in out_buffer' <=> IF p = w.pos THEN p \in Target ELSE p \in out_buffer
  BY <1>1 DEF set_buffer
<1>3. ASSUME NEW p PROVE p \in Target' <=> p \in Target
  <2>1. p \in Target' <=> \/ p \in out_buffer' /\ \A v \in todo' : v.pos # p
                          \/ \E v \in todo' : v.pos = p /\ v.on
    BY AfterWritesIs DEF Target
  <2>2. p \in Target <=> \/ p \in out_buffer /\ \A v \in todo : v.pos # p
                         \/ \E v \in todo : v.pos = p /\ v.on
    BY AfterWritesIs DEF Target
  <2>3. CASE p = w.pos
    BY <1>1, <1>2, <2>1, <2>2, <2>3 DEF TodoOK
  <2>4. CASE p # w.pos
    BY <1>2, <2>1, <2>2, <2>4
  <2> QED  BY <2>3, <2>4
<1>4. Target' = Target
  <2>1. \A p : p \in Target' <=> p \in Target
    BY <1>3
  <2> HIDE DEF Target
  <2> QED  BY <2>1, SetExtensionality
<1> QED  BY <1>2, <1>4

LEMMA WritesInv == IInv /\ SimWrites => IInv'
<1> SUFFICES ASSUME IInv, SimWrites PROVE IInv'
  OBVIOUS
<1>1. PICK w \in todo : out_buffer' = set_buffer(out_buffer, w) /\ todo' = todo \ {w}
  BY DEF SimWrites
<1>2. /\ todo # {} /\ sim_wait' = IF todo' = {} THEN SimSleep ELSE sim_wait
      /\ UNCHANGED <<pc, last_track, current_track, state, powerstate>>
      /\ UNCHANGED <<ctl_pc, beat, chain, outputs, ctl_wait>>
  BY DEF SimWrites, simVars, ctlVars
<1>3. /\ Target' = Target
      /\ \A p : p \in out_buffer' <=> IF p = w.pos THEN p \in Target ELSE p \in out_buffer
  BY <1>1, WriteStep DEF IInv
<1>4. AtTrain' = AtTrain
  BY <1>2 DEF AtTrain
<1>5. pc = "run" /\ powerstate # {} /\ Clean
  BY <1>2 DEF IInv, TodoOK, Unstarted, CleanBefore
<1>6. ExpTypeOK'
  <2>1. out_buffer' \subseteq Position
    BY <1>3, <1>1 DEF IInv, ExpTypeOK, TypeOK, TodoOK
  <2> QED  BY <1>2, <2>1, Times DEF IInv, ExpTypeOK, TypeOK
<1>7. TodoOK' /\ TargetOK'
  BY <1>1, <1>2, <1>3 DEF IInv, TodoOK, TargetOK
<1>8. TornAtTrain'
  BY <1>2, <1>3, <1>4, SameBits DEF IInv, TornAtTrain
<1>9. CleanBefore' /\ Unstarted'
  BY <1>2, <1>5, SameOutputs DEF CleanBefore, Unstarted
<1>10. Repaired'
  <2>1. todo' = {} => InTime'
    BY <1>2, Times DEF IInv, ExpTypeOK, InTime, Elapsed
  <2> QED  BY <1>2, <1>5, <2>1 DEF Repaired
<1> QED  BY <1>6, <1>7, <1>8, <1>9, <1>10 DEF IInv

-----------------------------------------------------------------------------
(* A frame *)

LEMMA BeginInv == IInv /\ BeginFrame => IInv'
<1> SUFFICES ASSUME IInv, BeginFrame PROVE IInv'
  OBVIOUS
<1>1. /\ todo = {} /\ ctl_pc = "sleep" /\ ctl_wait <= 0
      /\ ctl_pc' = "transfer" /\ beat' = 0 /\ ctl_wait' = 0
      /\ UNCHANGED <<pc, last_track, current_track, state, powerstate>>
      /\ UNCHANGED <<out_buffer, todo, sim_wait, chain, outputs>>
  BY DEF BeginFrame, Cooperative, simVars
<1>2. \A p \in Position : ~Taken(p)'
  BY <1>1, ChainAssumption DEF Taken, Boards
<1>3. Fresh'
  BY <1>2 DEF Fresh
<1>4. Target' = Target /\ AtTrain' = AtTrain
  BY <1>1 DEF Target, AtTrain
<1>5. ExpTypeOK'
  BY <1>1, Times, ChainAssumption DEF IInv, ExpTypeOK, TypeOK
<1>6. TodoOK' /\ TargetOK' /\ Unstarted'
  BY <1>1, <1>4 DEF IInv, TodoOK, TargetOK, Unstarted
<1>7. TornAtTrain'
  BY <1>1, <1>2, <1>4 DEF IInv, TornAtTrain
<1>8. CleanBefore'
  BY <1>1, <1>3 DEF CleanBefore
<1>9. Repaired'
  BY <1>1, <1>3, Times DEF IInv, ExpTypeOK, Repaired, InTime, Elapsed, Settled
<1> QED  BY <1>5, <1>6, <1>7, <1>8, <1>9 DEF IInv

(* The byte that the DMA reads is that of the next board; what it has read  *)
(* before moves on by one.                                                  *)
LEMMA BeatReads ==
    ASSUME ExpTypeOK, Beat, NEW p \in Position
    PROVE  /\ Taken(p) => Taken(p)' /\ (Sent(p)' <=> Sent(p))
           /\ ~Taken(p) /\ Taken(p)' => (Sent(p)' <=> p \in out_buffer)
<1> DEFINE byte == {q.bit_pos : q \in {r \in out_buffer : calculate_buffer_offset(r.board) = beat}}
<1>1. /\ chain' = [b \in Boards |-> IF b = 0 THEN byte ELSE chain[b - 1]]
      /\ beat' = beat + 1 /\ beat \in 0..last_board
  BY DEF Beat, ExpTypeOK
<1>2. p.board \in Boards /\ last_board \in Nat
  BY ChainAssumption
<1>3. Taken(p)' <=> p.board + beat + 1 > last_board
  BY <1>1, <1>2 DEF Taken, Boards
<1>4. Sent(p)' <=> p.bit_pos \in chain'[p.board + beat - last_board]
  <2>1. p.board + (beat + 1) - last_board - 1 = p.board + beat - last_board
    BY <1>1, <1>2 DEF Boards
  <2> QED  BY <1>1, <2>1 DEF Sent
<1> DEFINE k == p.board + beat - last_board
<1>5. CASE Taken(p)
  <2>1. k \in Boards /\ k # 0 /\ p.board + beat + 1 > last_board
    BY <1>1, <1>2, <1>5 DEF Taken, Boards
  <2>2. chain'[k] = chain[k - 1]
    <3> HIDE DEF k, byte
    <3> QED  BY <1>1, <2>1
  <2>3. Sent(p) <=> p.bit_pos \in chain[k - 1]
    <3>1. p.board + beat - last_board - 1 = k - 1
      BY <1>1, <1>2 DEF Boards
    <3> QED  BY <3>1 DEF Sent
  <2>4. Sent(p)' <=> p.bit_pos \in chain'[k]
    BY <1>4
  <2>5. Sent(p)' <=> Sent(p)
    BY <2>2, <2>3, <2>4
  <2> QED  BY <1>3, <1>5, <2>1, <2>5
<1>6. CASE ~Taken(p) /\ Taken(p)'
  <2>1. p.board + beat + 1 > last_board /\ ~(p.board + beat > last_board)
    BY <1>3, <1>6 DEF Taken
  <2>2. k = 0 /\ last_board - p.board = beat /\ 0 \in Boards
    <3>1. p.board \in Int /\ beat \in Int /\ last_board \in Nat
      BY <1>1, <1>2 DEF Boards
    <3> QED  BY <2>1, <3>1 DEF Boards
  <2>3. chain'[k] = byte
    <3> HIDE DEF k, byte
    <3> QED  BY <1>1, <2>2
  <2>4. p.bit_pos \in byte <=> p \in out_buffer
    <3>1. ASSUME NEW r \in out_buffer, last_board - r.board = beat, r.bit_pos = p.bit_pos PROVE r = p
      <4>1. r \in Position /\ r.board \in Boards
        BY ChainAssumption DEF ExpTypeOK, TypeOK
      <4>2. r.board = p.board
        BY <1>2, <2>2, <3>1, <4>1 DEF Boards
      <4> QED  BY <3>1, <4>1, <4>2, ChainAssumption
    <3> QED  BY <2>2, <3>1 DEF calculate_buffer_offset
  <2> QED  BY <1>4, <1>6, <2>3, <2>4
<1> QED  BY <1>5, <1>6

LEMMA BeatInv == IInv /\ Beat => IInv'
<1> SUFFICES ASSUME IInv, Beat PROVE IInv'
  OBVIOUS
<1>1. /\ ctl_pc = "transfer" /\ beat <= last_board /\ beat' = beat + 1
      /\ UNCHANGED <<pc, last_track, current_track, state, powerstate>>
      /\ UNCHANGED <<out_buffer, todo, sim_wait, ctl_pc, ctl_wait, outputs>>
  BY DEF Beat, simVars
<1>2. \A p \in Position : /\ Taken(p) => Taken(p)' /\ (Sent(p)' <=> Sent(p))
                          /\ ~Taken(p) /\ Taken(p)' => (Sent(p)' <=> p \in out_buffer)
  BY BeatReads DEF IInv
<1>3. Fresh => Fresh'
  BY <1>1, <1>2 DEF Fresh
<1>4. Target' = Target /\ AtTrain' = AtTrain /\ (Clean' <=> Clean)
  BY <1>1, SameOutputs DEF Target, AtTrain
<1>5. ExpTypeOK'
  BY <1>1, ChainAssumption DEF IInv, ExpTypeOK, TypeOK
<1>6. TodoOK' /\ TargetOK' /\ Unstarted'
  BY <1>1, <1>4 DEF IInv, TodoOK, TargetOK, Unstarted
<1>7. TornAtTrain'
  BY <1>1, <1>2, <1>4 DEF IInv, TornAtTrain
<1>8. CleanBefore'
  BY <1>1, <1>3, <1>4 DEF IInv, CleanBefore
<1>9. Repaired'
  BY <1>1, <1>3, Times DEF IInv, ExpTypeOK, Repaired, InTime, Elapsed, Settled
<1> QED  BY <1>5, <1>6, <1>7, <1>8, <1>9 DEF IInv

(* What the boards latch is what was read *)
LEMMA FrameShows ==
    ASSUME ExpTypeOK, EndFrame, NEW p \in Position
    PROVE  Taken(p) /\ (p \in outputs' <=> Sent(p))
<1>1. beat = last_board + 1 /\ outputs' = {q \in Position : q.bit_pos \in chain[q.board]}
  BY DEF EndFrame
<1>2. p.board \in Boards /\ last_board \in Nat
  BY ChainAssumption
<1>3. p.board + beat > last_board /\ p.board + beat - last_board - 1 = p.board
  BY <1>1, <1>2 DEF Boards
<1> QED  BY <1>1, <1>3 DEF Taken, Sent

LEMMA EndFrameInv == IInv /\ EndFrame => IInv'
<1> SUFFICES ASSUME IInv, EndFrame PROVE IInv'
  OBVIOUS
<1>1. /\ todo = {} /\ ctl_pc = "transfer" /\ ctl_pc' = "sleep" /\ ctl_wait' = SleepTime
      /\ outputs' \subseteq Position
      /\ UNCHANGED <<pc, last_track, current_track, state, powerstate>>
      /\ UNCHANGED <<out_buffer, todo, sim_wait, beat, chain>>
  BY DEF EndFrame, Cooperative, simVars
<1>2. \A p \in Position : Taken(p) /\ (p \in outputs' <=> Sent(p))
  BY FrameShows DEF IInv
<1>3. Fresh'
  BY <1>1 DEF Fresh
<1>4. Fresh => Settled'
  <2>1. ASSUME Fresh PROVE outputs' = out_buffer
    <3>1. \A p \in Position : p \in outputs' <=> p \in out_buffer
      BY <1>1, <1>2, <2>1 DEF Fresh
    <3> QED  BY <1>1, <3>1 DEF IInv, ExpTypeOK, TypeOK
  <2> QED  BY <1>1, <1>3, <2>1 DEF Settled
<1>5. Target' = Target /\ AtTrain' = AtTrain
  BY <1>1 DEF Target, AtTrain
<1>6. ExpTypeOK'
  BY <1>1, Times DEF IInv, ExpTypeOK, TypeOK
<1>7. TodoOK' /\ TargetOK' /\ Unstarted'
  BY <1>1, <1>5 DEF IInv, TodoOK, TargetOK, Unstarted
<1>8. TornAtTrain'
  BY <1>1, <1>2, <1>5 DEF IInv, TornAtTrain
<1>9. CleanBefore'
  BY <1>1, <1>3 DEF CleanBefore
<1>10. Repaired'
  <2>1. ~Fresh => Settled \/ InTime'
    BY <1>1, Times DEF IInv, ExpTypeOK, Repaired, InTime, Elapsed, Settled
  <2> QED  BY <1>1, <1>4, <2>1 DEF IInv, Repaired, Settled
<1> QED  BY <1>6, <1>7, <1>8, <1>9, <1>10 DEF IInv

LEMMA NextInv == IInv /\ [ExpNext]_expVars => IInv'
<1> SUFFICES ASSUME IInv, [ExpNext]_expVars PROVE IInv'
  OBVIOUS
<1>1. CASE Simulate
  BY <1>1, WakesInv, WritesInv, EndsInv DEF Simulate
<1>2. CASE Control
  BY <1>2, BeginInv, EndFrameInv DEF Control
<1>3. CASE Beat \/ Tick
  BY <1>3, BeatInv, TickInv
<1>4. CASE UNCHANGED expVars
  <2>1. UNCHANGED <<pc, last_track, current_track, state, powerstate, out_buffer, todo, sim_wait>>
    BY <1>4 DEF expVars, simVars
  <2>2. UNCHANGED <<ctl_pc, beat, chain, outputs, ctl_wait>>
    BY <1>4 DEF expVars, ctlVars
  <2>3. Target' = Target /\ AtTrain' = AtTrain /\ (Clean' <=> Clean) /\ (Fresh' <=> Fresh)
    BY <2>1, <2>2, SameBits, SameOutputs DEF Target, AtTrain
  <2>4. ExpTypeOK' /\ TodoOK' /\ TargetOK'
    BY <2>1, <2>2, <2>3 DEF IInv, ExpTypeOK, TypeOK, TodoOK, TargetOK
  <2>5. TornAtTrain'
    BY <2>1, <2>2, <2>3, SameBits DEF IInv, TornAtTrain
  <2>6. CleanBefore' /\ Unstarted' /\ Repaired'
    BY <2>1, <2>2, <2>3 DEF IInv, CleanBefore, Unstarted, Repaired, Settled, InTime, Elapsed
  <2> QED  BY <2>4, <2>5, <2>6 DEF IInv
<1> QED  BY <1>1, <1>2, <1>3, <1>4 DEF ExpNext

LEMMA Inductive == ExpSpec => []IInv
<1> QED  BY InitInv, NextInv, PTL DEF ExpSpec

-----------------------------------------------------------------------------
(* The train is in a section of the table, and the buffer has no bits but    *)
(* those of the boards, also between the writes of a round.                  *)
THEOREM TypeCorrectHere == ExpSpec => []TypeOK
<1>1. IInv => TypeOK
  BY DEF IInv, ExpTypeOK
<1> QED  BY <1>1, Inductive, PTL

(* What holds whenever the simulation waits: the buffer asks for power in   *)
(* the train's section alone and for one coil of every switch that was set,  *)
(* and it has reached the boards before the next round starts.              *)
THEOREM EveryRoundApplied == ExpSpec => []RoundApplied
<1>1. IInv => RoundApplied
  <2> SUFFICES ASSUME IInv, todo = {} PROVE RoundApplied
    BY DEF RoundApplied, Cooperative
  <2>1. OnlyTrainPowered /\ CoilsFollowPoints
    BY TargetReached DEF IInv, TargetOK, OnlyTrainPowered, CoilsFollowPoints
  <2>2. ASSUME sim_wait <= 0, powerstate # {}
        PROVE  outputs = out_buffer /\ {t \in Id : power_pos[t] \in outputs} = {current_track}
    <3>1. outputs = out_buffer
      BY <2>2, RoundFindsSettled DEF Settled
    <3> QED  BY <2>2, <3>1, SettledIsClean DEF PoweredOutputs
  <2> QED  BY <2>1, <2>2 DEF RoundApplied
<1> QED  BY <1>1, Inductive, PTL

(* However a frame is torn, the boards power none but the two sections at   *)
(* the train, and both coils of no switch but the one just left.            *)
THEOREM TornAtTrainOnly == ExpSpec => []TornOnlyAtTrain
<1>1. IInv => TornOnlyAtTrain
  <2> SUFFICES ASSUME IInv PROVE TornOnlyAtTrain
    OBVIOUS
  <2>1. ASSUME NEW t \in Id, power_pos[t] \in outputs PROVE t \in {last_track, current_track}
    <3>1. CASE power_pos[t] \in AtTrain
      BY <3>1, WiringAssumption DEF AtTrain, IInv, ExpTypeOK, TypeOK
    <3>2. CASE power_pos[t] \notin AtTrain
      BY <2>1, <3>2, WiringAssumption DEF IInv, TornAtTrain, TargetOK
    <3> QED  BY <3>1, <3>2
  <2>2. ASSUME NEW s \in Switches, straight_pos[s] \in outputs, curved_pos[s] \in outputs
        PROVE  s = last_track
    <3> SUFFICES ASSUME s # last_track PROVE FALSE
      OBVIOUS
    <3>1. straight_pos[s] \in Position \ AtTrain /\ curved_pos[s] \in Position \ AtTrain
      BY WiringAssumption DEF AtTrain, IInv, ExpTypeOK, TypeOK
    <3>2. straight_pos[s] \in Target /\ curved_pos[s] \in Target
      BY <2>2, <3>1 DEF IInv, TornAtTrain
    <3> QED  BY <3>2 DEF IInv, TargetOK
  <2> QED  BY <2>1, <2>2 DEF TornOnlyAtTrain, PoweredOutputs, BothCoils
<1> QED  BY <1>1, Inductive, PTL

(* A torn frame is repaired by the very next one. *)
THEOREM TornOnce == ExpSpec => TornForOneFrame
<1> DEFINE Shown == todo = {} /\ outputs = out_buffer /\ powerstate # {}
<1>1. IInv /\ Shown => ~Torn
  BY SettledIsClean
<1>2. (IInv /\ Shown => ~Torn)'
  BY <1>1, PTL
<1>3. IInv /\ IInv' /\ [ExpNext]_expVars
         => [(FrameEnds /\ outputs # {} /\ Torn) => ~Torn']_<<ctl_pc, outputs>>
  <2> SUFFICES ASSUME IInv, IInv', [ExpNext]_expVars, FrameEnds, outputs # {}, Torn PROVE ~Torn'
    OBVIOUS
  <2>1. EndFrame
    BY DEF FrameEnds, ExpNext, Simulate, SimWakes, SimWrites, SimEnds, Control, BeginFrame, Beat, Tick,
           expVars, ctlVars
  <2>2. /\ todo = {} /\ ctl_pc = "transfer" /\ outputs' \subseteq Position
        /\ UNCHANGED <<out_buffer, todo, powerstate>>
    BY <2>1 DEF EndFrame, Cooperative, simVars
  <2>3. Fresh
    BY DEF IInv, CleanBefore, Clean
  <2>4. \A p \in Position : p \in outputs' <=> p \in out_buffer
    BY <2>1, <2>2, <2>3, FrameShows DEF IInv, Fresh
  <2>5. outputs' = out_buffer
    BY <2>2, <2>4 DEF IInv, ExpTypeOK, TypeOK
  <2>6. powerstate # {}
    BY <2>2 DEF IInv, Unstarted, Repaired, Settled
  <2>7. Shown'
    BY <2>2, <2>5, <2>6
  <2>8. IInv' /\ Shown' => ~Torn'
    BY <1>2, Zenon
  <2> QED  BY <2>7, <2>8, Zenon
<1> QED  BY <1>3, Inductive, PTL DEF ExpSpec, TornForOneFrame

-----------------------------------------------------------------------------
(* The train of the composed system *)

(* The train never runs off a layout whose table is mutual. *)
THEOREM NeverDerailsHere == ExpSpec => []OnRails
<1>1. ExpInit => OnRails
  BY MutualAssumption DEF ExpInit, Init, OnRails
<1>2. IInv /\ OnRails /\ [ExpNext]_expVars => OnRails'
  <2> SUFFICES ASSUME IInv, OnRails, [ExpNext]_expVars PROVE OnRails'
    OBVIOUS
  <2> TypeOK
    BY DEF IInv, ExpTypeOK
  <2>1. ASSUME NEW pressed \in BOOLEAN, MoveTrain(pressed) PROVE OnRails'
    <3>1. current_track' \in Neighbours(current_track) /\ current_track' \in Id /\ last_track' = current_track
      BY <2>1, MoveMoves, OfferedIsNeighbour DEF TypeOK
    <3>2. current_track \in Neighbours(current_track')
      BY <3>1, MutualAssumption DEF TypeOK
    <3> QED  BY <2>1, <3>1, <3>2 DEF MoveTrain, OnRails
  <2>2. CASE UNCHANGED <<pc, last_track, current_track>>
    BY <2>2 DEF OnRails
  <2>3. ~SimEnds
    BY NotFoundIsDead DEF SimEnds
  <2> QED
    BY <2>1, <2>2, <2>3 DEF ExpNext, Simulate, SimWakes, SimWrites, Control, BeginFrame, EndFrame, Beat, Tick,
                            expVars, simVars
<1> QED  BY <1>1, <1>2, Inductive, PTL DEF ExpSpec

(* Every step of the system moves the train as a round does, or not at all. *)
LEMMA StepMoves ==
    ASSUME IInv, [ExpNext]_expVars
    PROVE  \/ \E pressed \in BOOLEAN : MoveTrain(pressed)
           \/ UNCHANGED <<last_track, current_track>>
BY DEF ExpNext, Simulate, SimWakes, SimWrites, SimEnds, NotFound, Control, BeginFrame, EndFrame, Beat, Tick,
       expVars, simVars

(* The points of a switch the train leaves join the way in and the way out. *)
THEOREM PointsAlwaysJoinRouteHere == ExpSpec => PointsJoinRoute
<1>1. IInv /\ [ExpNext]_expVars
        => [(current_track \in Switches)
              => PointsLieFor(current_track, last_track, current_track')]_<<last_track, current_track>>
  BY StepMoves, RoundSetsPoints DEF IInv, ExpTypeOK
<1> QED  BY <1>1, Inductive, PTL DEF ExpSpec, PointsJoinRoute

(* The train of the composed system follows the rails: the safety half of   *)
(* the refinement FollowsRails.                                             *)
THEOREM StaysOnRailsHere == ExpSpec => Rails!SafeSpec
<1>1. ExpInit => Rails!Init
  BY DEF ExpInit, Init, Rails!Init
<1>2. IInv /\ [ExpNext]_expVars => [Rails!Move]_<<current_track, last_track>>
  <2> SUFFICES ASSUME IInv, NEW pressed \in BOOLEAN, MoveTrain(pressed) PROVE Rails!Move
    BY StepMoves
  <2>1. TypeOK
    BY DEF IInv, ExpTypeOK
  <2>2. /\ Offered(current_track, last_track, current_track')
        /\ current_track' \in Id /\ last_track' = current_track
    BY <2>1, MoveMoves
  <2>3. {last_track, current_track'} \in JoinedBy[current_track]
    BY <2>1, <2>2, LayoutAssumption DEF Offered, next_tracks, StraightNext, JoinedBy, TypeOK
  <2> QED  BY <2>2, <2>3 DEF Rails!Move
<1> QED  BY <1>1, <1>2, Inductive, PTL DEF ExpSpec, Rails!SafeSpec

(* A train that is lost later than in its first round is found with the     *)
(* power on, and keeps it: StaysPoweredWhenLost, on every layout on which    *)
(* the start leads on.  No fairness is needed, since the boards show the      *)
(* last buffer already when the loop is left.                                *)
StartLeadsOn == possible_ways[1] # INVALID
LostLater    == powerstate = {} => pc = "run" /\ StartLeadsOn

THEOREM LostStaysPowered == ExpSpec /\ StartLeadsOn => StaysPoweredWhenLost
<1>1. ExpInit /\ StartLeadsOn => LostLater
  BY DEF ExpInit, Init, LostLater
<1>2. IInv /\ LostLater /\ [ExpNext]_expVars => LostLater'
  <2> SUFFICES ASSUME IInv, LostLater, [ExpNext]_expVars PROVE LostLater'
    OBVIOUS
  <2>1. ASSUME NEW pressed \in BOOLEAN, MoveTrain(pressed) PROVE LostLater'
    BY <2>1 DEF MoveTrain, PowerSet, LostLater
  <2>2. CASE NotFound
    BY <2>2 DEF NotFound, LostLater, StartLeadsOn
  <2>3. CASE UNCHANGED simVars
    BY <2>3 DEF simVars, LostLater, StartLeadsOn, possible_ways
  <2> QED
    BY <2>1, <2>2, <2>3 DEF ExpNext, Simulate, SimWakes, SimWrites, SimEnds, Control, BeginFrame, EndFrame,
                            Beat, Tick, expVars
<1>3. IInv /\ LostLater /\ pc = "ended" => outputs = out_buffer /\ PoweredOutputs = {current_track}
  <2> SUFFICES ASSUME IInv, LostLater, pc = "ended"
               PROVE  outputs = out_buffer /\ PoweredOutputs = {current_track}
    OBVIOUS
  <2>1. outputs = out_buffer /\ todo = {} /\ powerstate # {}
    BY DEF IInv, Repaired, Settled, TodoOK, LostLater
  <2> QED  BY <2>1, SettledIsClean
<1>4. pc = "ended" /\ [ExpNext]_expVars => (pc = "ended")'
  BY DEF ExpNext, Simulate, SimWakes, MoveTrain, SimWrites, SimEnds, NotFound, Control, BeginFrame, EndFrame,
         Beat, Tick, expVars, simVars
<1> QED  BY <1>1, <1>2, <1>3, <1>4, Inductive, PTL DEF ExpSpec, StaysPoweredWhenLost

-----------------------------------------------------------------------------
(* The abstract specifications *)

(* Simulation, told of the composed system, is told of the same train *)
LEMMA SameWays ==
    /\ \A t, prev : Sim!next_tracks(t, prev) = next_tracks(t, prev)
    /\ \A t, position, prev : Sim!next_track(t, position, prev) = next_track(t, position, prev)
    /\ \A t, position, to, from : Sim!make_way_to(t, position, to, from) = make_way_to(t, position, to, from)
<1>1. \A t, prev : Sim!StraightNext(t, prev) = StraightNext(t, prev)
  BY DEF Sim!StraightNext, StraightNext
<1>2. \A t, position, prev : Sim!SwitchNext(t, position, prev) = SwitchNext(t, position, prev)
  BY DEF Sim!SwitchNext, SwitchNext
<1>3. \A t, position, leg : Sim!PointsFor(t, position, leg) = PointsFor(t, position, leg)
  BY DEF Sim!PointsFor, PointsFor
<1> QED  BY <1>1, <1>2, <1>3 DEF Sim!next_tracks, next_tracks, Sim!next_track, next_track,
                                  Sim!make_way_to, make_way_to

LEMMA SameMove == ASSUME NEW pressed PROVE Sim!MoveTrain(pressed) <=> MoveTrain(pressed)
<1>1. Sim!possible_ways = possible_ways
  BY SameWays DEF Sim!possible_ways, possible_ways
<1>2. Sim!select(pressed) = select(pressed)
  BY <1>1 DEF Sim!select, select
<1>3. Sim!PointsSet(pressed) = PointsSet(pressed)
  BY <1>2, SameWays DEF Sim!PointsSet, PointsSet
<1>4. Sim!PositionOf(PointsSet(pressed), current_track) = PositionOf(PointsSet(pressed), current_track)
  BY DEF Sim!PositionOf, PositionOf
<1>5. \A n : Sim!PowerSet(n) = PowerSet(n)
  BY DEF Sim!PowerSet, PowerSet
<1> QED  BY <1>1, <1>3, <1>4, <1>5, SameWays DEF Sim!MoveTrain, MoveTrain

(* Simulation, controller and DMA together do what Simulation says, when    *)
(* the writes still to come are counted as done: the safety half of the      *)
(* refinement ImplementsSimulation.                                         *)
THEOREM ImplementsRounds == ExpSpec => Sim!Init /\ [][Sim!Next]_Sim!vars
<1>1. ExpInit => Sim!Init
  BY TargetReached DEF ExpInit, Init, Sim!Init, Target
<1>2. IInv /\ [ExpNext]_expVars => [Sim!Next]_Sim!vars
  <2> SUFFICES ASSUME IInv, [ExpNext]_expVars PROVE [Sim!Next]_Sim!vars
    OBVIOUS
  <2>1. ASSUME NEW pressed \in BOOLEAN, SimWakes(pressed) PROVE Sim!Next
    <3>1. /\ todo = {} /\ MoveTrain(pressed) /\ out_buffer' = out_buffer
          /\ todo' = RoundWrites(powerstate', state')
      BY <2>1 DEF SimWakes
    <3>2. state' \in [Switches -> SwitchState] /\ powerstate' \in SUBSET Id
      BY <3>1, MoveTypes DEF IInv, ExpTypeOK
    <3>3. AfterWrites(out_buffer', todo') = Written(out_buffer, powerstate', state')
      BY <3>1, <3>2, RoundWritesAll
    <3>4. AfterWrites(out_buffer, todo) = out_buffer
      BY <3>1, TargetReached DEF Target
    <3>5. Sim!Written(out_buffer, powerstate', state') = Written(out_buffer, powerstate', state')
      BY DEF Sim!Written, Written
    <3>6. Sim!Round(pressed)
      BY <3>1, <3>3, <3>4, <3>5, SameMove DEF Sim!Round
    <3> QED  BY <3>6 DEF Sim!Next
  <2>2. CASE SimWrites
    <3>1. PICK w \in todo : out_buffer' = set_buffer(out_buffer, w) /\ todo' = todo \ {w}
      BY <2>2 DEF SimWrites
    <3>2. Target' = Target
      BY <3>1, WriteStep DEF IInv
    <3> QED  BY <2>2, <3>2 DEF SimWrites, simVars, Sim!vars, Target
  <2>3. CASE SimEnds
    <3>1. Sim!possible_ways = possible_ways
      BY SameWays DEF Sim!possible_ways, possible_ways
    <3> QED  BY <2>3, <3>1 DEF SimEnds, NotFound, Sim!Next, Sim!NotFound
  <2>4. CASE UNCHANGED <<pc, last_track, current_track, state, powerstate, out_buffer, todo>>
    BY <2>4 DEF Sim!vars
  <2> QED
    BY <2>1, <2>2, <2>3, <2>4 DEF ExpNext, Simulate, Control, BeginFrame, EndFrame, Beat, Tick, expVars, simVars
<1> QED  BY <1>1, <1>2, Inductive, PTL DEF ExpSpec
=============================================================================
