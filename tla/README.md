# A verification project for the model railway controller

The program in `src/modellbahn` runs on an STM32F446 board. It moves a simulated
train over a table of track sections, switches the traction power and the points
through a chain of output boards on SPI, measures three sensors, alternates a
motor bridge, and logs through the debug port. It uses the modm library, whose
generated sources are in `src/modm`. Four cooperative fibers do the work;
interrupts and DMA run beside them. The repository has no tests.

This directory holds TLA+ modules that model the program, TLC configurations
that check them on small instances, and proofs for every instance that TLAPS
checks. `PROJECT.json` lists runs, mutants, the source lines of every
definition, hazards, findings and theorems. All paths below are relative to the
repository.

## 1. Inventory

### Components

| component | state | operations | talks to |
|---|---|---|---|
| track model, `modellbahn/track/{track,straight,switch}.hpp` | ends of every section; `state` of a switch; `powerstate` | `next_track`, `next_tracks`, `make_way_to` | called by the simulation |
| layout table, `track/layout.hpp` | constant: 22 sections, 7 of them switches, with the outputs of power and coils | | read by the simulation |
| simulation fiber, `modellbahn/src/simulation.cpp` | `last_track`, `current_track` | one round per 100 ms: ways on, button, points, move, power, buffer | writes `expand_control.out_buffer` |
| expansion controller fiber, `expansion/controller.hpp` | `out_buffer` (7 bytes, one per board) | `set_buffer`; `update`: one frame per 2 ms | buffer shared with the simulation and read by DMA |
| SPI master with DMA, `platform/spi/spi_master_3_dma*.hpp`, `platform/dma/*` | three flags shared with interrupts, two DMA streams, SPI registers | `transfer`; three interrupt handlers | called by the controller; reads its buffer |
| ADC sampler, `driver/adc/adc_sampler*.hpp`, and the measurement fiber, `main.cpp:7` | `samples`, `index`, `newData`, `data`, `map` | `startReadout`, `isReadoutFinished`, `getData`; interrupt `sampleAdc` | interrupt and fiber share all of it |
| motor driver fiber, `main.cpp:24`, Timer1 | `steper`; compare registers with preload | swaps two PWM inputs every 500 us | timer update event, clock |
| fiber scheduler and tasks, `processing/fiber/{scheduler,task,task_impl}.hpp` | circular list through `Task::next`, `last`, `current` | `start`, `yield`, `unschedule`, `join`, `run` | every fiber |
| fiber interface, `architecture/interface/fiber.hpp` | start times | `poll`, `poll_for`, `poll_until`, `sleep_for` | scheduler, clock |
| context switch, `processing/fiber/context_arm_m.cpp` | stacks, watermark | init, reset, start, jump, end | scheduler |
| synchronisation, `processing/fiber/{mutex,shared_mutex,semaphore,condition_variable,latch,barrier,stop_token}.hpp` | one counter or owner each | lock, unlock, acquire, release, wait, notify, arrive | library only, no fiber uses it |
| clock, `platform/clock/systick_timer.cpp` | tick counts, flag `interrupt` | `now`, tick interrupt every 250 ms | `poll_for` |
| log device, `platform/itm/itm.cpp`, `io/iodevice_wrapper.hpp`, `architecture/driver/atomic/queue*.hpp` | one-byte ring, 32-bit word with its size | `write`, `flushWriteBuffer`, `discardTransmitBuffer`, `update` | called by every fiber's log statements |
| buffered UART, `platform/uart/*` | the same kind of ring, data register, interrupt enable | `write`, `flushWriteBuffer`, `discardTransmitBuffer`, interrupt | set up by the board, never written to |
| SPI lock, resumable functions | owner, count | `acquire`, `release` | no caller |
| board, start-up, assertions; registers, printf, math, headers, tools | | straight-line code | |

### What is hard about it

* **Fibers and DMA share `out_buffer`.** The fibers never interrupt each other,
  but the DMA reads bytes between any two writes of a round.
* **Interrupts and fibers share flags and arrays** (ADC sampler, SPI driver):
  every statement of the fiber may be followed by an interrupt.
* **Cooperative scheduling**: one fiber that waits without yielding stops all,
  and the ring of tasks is changed by the fibers that run in it.
* **Hand-written tables**: correctness of the train's way depends on 22 rows
  that nothing checks.
* **Errors**: a lost train, a DMA bus error and a busy debug port each have their
  own path that is hardly ever taken.
* **Limits**: 8- and 16-bit counters, a one-byte ring, a 32-bit clock.
* **Reads in two places**: `now()` combines a hardware counter with a tick count
  that the counter's interrupt advances; UART and queue are read by the fiber and
  acted upon after the interrupt may have changed them.
* **Waiting by polling**: every lock, latch and barrier is a loop of a try and a
  yield, and interrupts may notify between any two statements of the loop.

### What makes each component correct

* Track, layout, simulation: the train follows rails, never runs off the table,
  passes every round trip; points always match the route; exactly the train's
  section has power; the buffer says the same as the tracks.
* Controller: the boards show, after a bounded time, what a round decided; a
  frame torn by a round differs from both rounds in nothing but the train's
  surroundings, and the next frame repairs it.
* SPI and DMA: CS rises after exactly the bytes of the frame; nothing is left
  for the next one; transfers end, also the one that an error hits.
* ADC sampler: a finished readout holds the mean of exactly `Oversamples`
  conversions per channel, nobody changes it while it is read, and every
  readout ends.
* Scheduler: the list is one ring of the running tasks; a jump never lands in a
  dead task; nobody starves; a join ends with its task.
* Log device: bytes leave in order, once, and a log statement returns.
* UART: the same stream, and no byte stays in the queue without an interrupt that
  will send it.
* Synchronisation: one holder at a time, no wake-up lost, no permit lost or made,
  phases in which everybody waits for everybody, and nobody waits for what has
  happened.
* Clock: a reading is true at some moment of its call, or less by no more than
  the conversion of counts to microseconds loses, also when the counter or the
  clock wraps. Driver: a direction is held, directions alternate, and both inputs
  drive together for one period at the most.

## 2. Modules

| module | models | theorems in |
|---|---|---|
| `Track` | the methods of the two track classes, as operators | |
| `Layout` | the table of `layout.hpp`, as constants | |
| `Simulation` (extends `Track`) | the simulation fiber, one round per step | `Simulation_proofs` |
| `TwoWayLayout` (extends `Simulation`) | the properties on tables that are mutual | |
| `TrainWalk` | abstract: a train on rails | refined in `Simulation_proofs`, `Expander_proofs` |
| `Expander` (extends `Simulation`) | simulation, controller, DMA beats, boards, clock | `Expander_proofs` |
| `ByteTransfer` | abstract: what a blocking transfer promises | refined in `SpiDma_proofs` |
| `SpiDma` | the driver's transfer with streams, interrupts and a bus error | `SpiDma_proofs` |
| `AdcSampler` | sampler, interrupt chain and measurement fiber | `AdcSampler_proofs` |
| `FiberScheduler` | scheduler and tasks | `FiberScheduler_proofs` |
| `RoundRobin` | abstract: a queue of fibers | refined in `FiberScheduler_proofs` |
| `AtomicQueue` | the ring of `atomic/queue_impl.hpp`, as operators | `LogDevice_proofs` |
| `Itm` (extends `AtomicQueue`) | log device of the program | `LogDevice_proofs` |
| `Uart` (extends `AtomicQueue`) | transmitting half of the serial port | `LogDevice_proofs` |
| `LogDevice` (instantiates `Itm`, `Uart`) | the wrapper of the log streams over either device | `LogDevice_proofs` |
| `ByteStream` | abstract: a stream of bytes that may be lost when nobody listens | refined in `LogDevice_proofs` |
| `FiberTurns` | fibers in turns, loops of a try and a yield, an interrupt | |
| `FiberLocks` (extends `FiberTurns`) | mutex, recursive and shared mutex, condition variable | `FiberSync_proofs` |
| `FiberCounters` (extends `FiberTurns`) | semaphore, latch, barrier | `FiberSync_proofs` |
| `FiberSync` (extends both) | one object per behaviour | `FiberSync_proofs` |
| `Clock` | `micro_clock::now()`, the tick interrupt, `sleep_for` | `Motor_proofs` |
| `Motor` (extends `Clock`) | driver fiber, preload registers and update event | `Motor_proofs` |

`Expander` and `SpiDma` meet in `ByteTransfer`: `Expander` uses a transfer as
that contract says (`UsesContract`), and `SpiDma` keeps it until a bus error
happens (`KeepsContract`).

### How the code became state and actions

**Simulation.** The variables carry the names of the code; `powerstate` and
`out_buffer` are the sets of what is ON or 1. The fiber yields only in
`sleep_for`, so a round of the loop is one action (`Round`), with the button as
its only input, and the way out of the loop another (`NotFound`). No two outputs
share a bit (`WiringAssumption`, which TLC evaluates on the real table), so the
buffer after a round is a set expression.

**Expander.** Each round becomes `SimWakes` (all up to the first write) and one
`SimWrites` per `set_buffer` call that changes a bit (`todo` holds the calls still
to come, taken in the order of the loop); `Beat`, the DMA reading
the next byte, happens between any of them. `BeginFrame` and `EndFrame` are the
ends of the controller's loop body; they run only while the simulation does not
(`Cooperative`). The boards are a shift register that latches when CS rises;
they are not in the repository and are modelled by what `controller.hpp`
expects of them: last board first. Time is in milliseconds, and everything that is due
may be up to `Slack` late.

**SpiDma.** One action per statement of `transfer` that touches what an
interrupt or the hardware touches, one per interrupt handler, one per beat of a
stream and per byte shifted. Pending interrupts run before the next statement.
A DMA request waits for at most `MaxLag` statements. `TransferError` follows the
nested name: `disable()` inside `Channel` is `DmaController::disable()`, and a
stream without clock ignores writes.

**AdcSampler.** Every statement of `startReadout` is an action, because the
interrupt may fall between them; the interrupt's function is one action, in the
three branches of the code. A cell of `data` holds the set of conversions that
were added to it, so "the mean of the right samples" is an equality of sets and
no arithmetic is needed. Both arrays given to `initialize`, the cells and the
mapping of channels (`map`), are locals of a function that returns. When they no
longer live (`BuffersLive`), `StackReused` overwrites either: a cell with a value
nobody measured, an entry of the mapping with another channel or with `Foreign`,
which is none of the sensors'. The interrupt selects whatever it finds there.

**FiberScheduler.** `next`, `last`, `current` and `running` (the set of tasks
with a scheduler) are the code's pointers; `context` says where a jump to a task
would go on. Fibers may do anything the interface allows: start any task, join
any task, yield, return.

**AtomicQueue, Itm, Uart, LogDevice.** The ring is head, tail and slots; a push
is two steps where an interrupt pops (`store`, `publish`), since the value is
written before the index. In `Itm` the static word of `update` is four bytes.
Its loop shifts in one byte of the queue after the other; what it leaves is the
window of four, `Moved` places further along word and queue (`Filled`). `Push`, `PushFails`, `Update` are the
statements of `write`, which `BlockIfFull` repeats. In `Uart` every statement
that reads or writes what the interrupt touches is an action: `write` looks at
the queue, then at the register, and pushes or writes directly by what it saw.
`LogDevice` is the wrapper; its template parameter is the variable `Device`,
which no step changes. The board's UART has no receive buffer. A class with one
would share the vector, and its handler runs the transmitting branch on a
receive interrupt, too; it is not instantiated here and not modelled.

**FiberTurns, FiberLocks, FiberCounters, FiberSync.** A fiber's turn lasts until
it yields in a loop or elsewhere (`Pauses`). `at` is where it waits. The
objects' atomics and interrupt lock-outs make a try one step; what an interrupt
can come between is split, as `wait` of the condition variable into unlock,
reading the sequence and polling. In an interrupt `get_id` gives the number of
the interrupt if it is 16 or more, which is no fiber's; handlers of lower
numbers (SysTick, faults) would pass for the fiber that they interrupt, and are
not among the users here. Who holds a lock is recorded beside the lock's own
variables (`depth`, `readers`), so that a lock may disagree with its holders.
Calls follow the interface: whoever unlocks has locked, and an interrupt never
waits.

**Clock, Motor.** The hardware counts down, pends the tick interrupt on reaching 0
and is reloaded one count later. The interrupt runs after `MaxLag` statements
at the latest, and not within the count in which it pends: a count is 8 cycles
of the processor, which takes longer than that to enter a handler. Each read of
`now()` is an action. A tick is `Period` counts and `Step` units, whose quotient need not
be whole: the board has 22.5 counts in a microsecond. `Reading` converts as the
code does, by the cut-off multiplier `us_per_Ncycles` and a shift (a division by
`Scale`, 2^32). True time (`Truth`) is measured in parts, `Step` of them to a count and
`Period` to a unit, so that it is exact; `Short(d)` is what the conversion
loses of `d` counts, in parts, and `Slip` the most it can lose. Two variables are
history only: `called`, the counts since `now()` was called, and `slept`, those since
the first reading of a sleep. The driver
writes six registers per swap, each an action, and the update event copies the
preload registers between any two of them.

Left out everywhere: the text of the log lines and the indicator LEDs.

## 3. Runs

| run | instance | what it shows |
|---|---|---|
| `expander` | the real table, 22 sections and 7 boards | train on rails for ever, points join every route, D_1a passed again and again whatever the button does; every round is on the boards before the next (`RoundApplied`); what a torn frame may show, and for how long |
| `oval` | 5 sections, 2 boards, one wrong row | split writes refine `Simulation`; outputs follow for ever or the train is lost; a lost train's section stays powered |
| `spi_dma` | 7 bytes, `MaxLag` 1, one bus error | frames complete, nothing left over, transfers end until an error and the one it hits ends too, contract kept |
| `dma_error` (violated) | the same | an error disables the whole controller, not the channel |
| `adc` | 3 channels x 100, as the board has it | exact means, stable while read, every readout ends |
| `adc_race` | 2 x 1, impatient caller, foreign writes to both arrays | indices stay inside, the chain of interrupts never breaks |
| `adc_stack` (violated) | 3 x 2, arrays gone | a finished readout may hold foreign data |
| `scheduler` | 4 tasks | the list is the queue of `RoundRobin`; nobody starves; joins end |
| `log` | ITM with a ring of one byte, UART with a ring of two, two byte values | both devices refine `ByteStream`; no byte is stranded; every call returns |
| `log_finished` (violated) | the same | `isWriteFinished` is true with bytes unsent |
| `sync` | 3 fibers and an interrupt on each of seven objects | exclusion, wake-ups, counts and phases; who waits for what has happened goes on |
| `motor` | clock of 9 values, ticks of 4 units and 6 counts, sleep of 2 units | readings are true up to `Slip`, directions held and alternating, overlap of one period |

Each property has a mutant: a definition of the model changed the way a mistake
in that code would change it, under which TLC finds the property violated.

### Bounds, and why they are enough

* *Layout.* The real table in `expander`. `oval` has a wrong row, since on the
  real table the way out of the loop is dead code (`OnRails`). It is there for
  refinement, which costs more; it has a switch taken in both directions, coils
  spread over two boards, both ways on.
* *Time in `Expander`.* 100 ms are scaled to `SimSleep` = 6 with `SleepTime` = 2
  and `Slack` = 1. What matters is the order `SimSleep > SleepTime + 3 * Slack`
  (`TimingAssumption`): a round finds at least one whole frame between itself
  and the next. In the program it is 100 ms against 2 ms, leaving more than 30 ms
  for log lines and the other fibers.
* *`SpiDma`.* The real length 7. One error: the handler stops the clock, so a
  second could not happen. `MaxLag` = 1: the processor executes a statement in
  about as long as the DMA serves a request; a byte takes 1.4 us, some 250
  cycles. With 2 TLC finds a receive beat served after the transfer has
  returned: the code depends on this timing.
* *`AdcSampler`.* The real 3 x 100; 2 x 1 for any caller and overwritten arrays (two
  entries are enough for an index to leave them, and a third makes 14 million
  states); 3 x 2 with overwritten arrays. The proofs cover the other sizes.
* *`FiberScheduler`.* Four tasks, as the program has; the proofs cover any number.
* *`LogDevice`.* The real ring of the ITM. The UART's real one has 2048 bytes
  (`board.hpp:210`); two
  give every case of empty, half full, full and wrapped, and the theorems cover
  the other sizes. Two byte values suffice: bytes are copied, never compared, so
  an order that is wrong for some bytes is wrong for some choice of two values.
* *`FiberSync`.* Three fibers: a holder, a waiter and one that comes between.
  Counters are 2 or 3 instead of 255 or 65535 so that they wrap. Two bounds are
  guards: `NoLap`, that the sequence of a condition variable does not go all the
  way round between two polls of one waiter, and one permit too many in the
  semaphore, two arrivals too many at the latch. The theorems cover every
  number of fibers and every width, under the same guards.
* *`Clock`, `Motor`.* A tick is `Period` = 6 counts and `Step` = 4 units, that is, 1.5 counts
  to a unit as the board has 22.5. `Scale` = 8 makes the multiplier 5 instead of
  5.33, so that the conversion loses up to `Slip` = 2 parts of the 6 in a unit; in the
  program it is some 2783 of 5625000. The clock has `Wrap` = 9 values; as in the
  program, a tick does not divide its range, so wraps fall at every phase.
  `ClockAssumption` keeps a sleep shorter than the range (`MaxSleep`) and a call of
  `now()` short (`MaxCall`). It also asks for more than one count to a unit and a
  multiplier that fits its width: `systick_timer.hpp:82` allows for 32 bits, but at exactly
  8 MHz it would be 2^32 and wrap to 0 (the board runs at 180 MHz). `MaxLag` = 2
  statements before a pending tick is served. With 3 TLC finds a reading that is
  a whole tick, 250 ms, behind: the code needs the interrupt to be served soon,
  and a reader of higher priority or with interrupts locked out would not give
  it that. At most one update event falls into a swap (a dozen register
  writes against 80 us), and at least one into a sleep (500 us).

### Fairness, and why the code justifies it

* `Simulation`, `Expander`: weak fairness of each fiber, of the DMA, of the
  clock. `sleep_for` always ends, and the scheduler comes round (`NoStarvation`
  of the scheduler's own module). Nothing is assumed of the button.
* `SpiDma`: weak fairness of the fiber, of interrupts, of the hardware as long as
  it has work; none of errors.
* `AdcSampler`: a started conversion ends; the fiber's turn comes.
* `FiberScheduler`: the current fiber yields, joins or returns in the end. That
  is what `fiber.hpp:44-47` asks of its callers. Nothing forces starts.
* `LogDevice`: a call goes on (nothing in it waits for another fiber), an enabled
  transmit interrupt is served, and the hardware sends what it has. Without the
  last, `BlockIfFull` would spin for ever; nothing is assumed of the debugger.
* `FiberSync`: the fiber in turn goes on in its loop or gives up its turn (weak);
  one that has begun to notify or to complete a phase does so (strong, since it
  may give up turns in between). Nothing is assumed of interrupts, and of nobody
  that he locks, releases or arrives; so `NoneForgotten` speaks of waiters whose
  event has happened. A mutex gives no such promise: others may take it between
  every two turns of a waiter.
* `Motor`: the fiber gets its turn, the counter counts, the interrupt is served, the
  timer has its events.

## 4. What is proved

The proof modules are checked by TLAPS from the assumptions the component
modules name; a theorem uses an assumption only where its proof cites it.

**`Simulation_proofs`** (any layout: `LayoutAssumption`, `StartAssumption`,
`WiringAssumption`). The core is two lemmas on the track classes:
`OfferedIsNeighbour`, and `WayMadeIsWayTaken`: after `make_way_to(w)` the
section's `next_track` is `w`, for every way `w` that `next_tracks` offers. It is
this agreement that keeps the unchecked index at `simulation.cpp:42` inside the
table, so `TypeCorrect` needs no more. `NeverDerails` is inductive by itself once
the table is mutual (`MutualAssumption`): the train stands next to the section it
came from, and moves to a neighbour, which knows it back. It is the only
theorem that needs mutuality. `PowerExclusive` and `CoilsExclusive` are
inductive together with `TypeOK`; disjoint outputs (`WiringAssumption`) are needed
because a round clears what others wrote. `StaysOnRails` refines `TrainWalk`
step by step, `PointsAlwaysJoinRoute` is an action property from the same lemmas.

**`Expander_proofs`** (any layout, any number of boards, any times with
`TimingAssumption`). Everything is said relative to `Target`, the buffer as it will
be after the writes still to come; `RoundWritesAll` proves that the loop's calls,
in whatever order, make it what `Simulation` writes at once. `Fresh` says that the
bytes the DMA has read so far agree with the buffer. Outside of the train's
surroundings outputs, chain and buffer always agree with the target
(`TornAtTrain`), because a round changes nothing else (`MoveIsLocal`). In time:
a frame that is not fresh is over at most its own lateness after the round, then comes
a sleep, then a frame that is fresh to its end (`InTime`); `SimSleep` is longer
than all three (`RoundFindsSettled`). That is why one frame at most is torn: before it
the outputs were clean (`CleanBefore`). From this invariant follow `RoundApplied`,
`TornOnlyAtTrain`, `TornForOneFrame`, `TypeOK`, `OnRails` (with `MutualAssumption`) and
`PointsJoinRoute`, and the initial states and steps of the refinements
`FollowsRails` and `ImplementsSimulation`. (Those of `UsesContract` follow from the
definitions: what that property says lies in its fairness, which TLC checks.)
`StaysPoweredWhenLost` is a leads-to that needs no fairness: the boards show the last buffer
already when the loop is left, so it is proved in full, for layouts on which the
start leads on (`StartLeadsOn`; a train lost in the first round never had power).

**`AdcSampler_proofs`**. `TypeCorrect` and `ChainUnbroken` hold for every caller:
whenever a fiber waits, a conversion runs, and index and counter stay in their ranges
whoever overwrites the arrays; that the channel selected is a sensor's is claimed
only as long as these exist. The exact means hold for a caller that
polls, arrays that live, and a counter that can count one beyond the total
(`ProperUse`). The code takes one sample more than `Channels * Oversamples` and
resets one cell twice, and the two cancel out; neither `Averages` nor
`EnoughSamples` is inductive. The invariant `IInv` says where the chain is:
after `samples` conversions the index is `samples` modulo the channels, each
channel was converted as often as that number says, and each cell holds the
conversions since its last reset.

**`FiberScheduler_proofs`** (any set of tasks). `ListClosed`, `JumpsLandAlive`
and `TypeOK` are inductive together. That the tasks form *one* ring is stated
without walking it: no proper nonempty part of the running tasks is closed under
`next` (`OneRing`). A step that inserts or removes one task changes two pointers,
and a part closed afterwards gives one closed before; this is the argument of
`StartStep` and `ReturnStep`. `OneRing` also stands in for induction where the list
is walked: the tasks at which two walks agree are closed under `next`, so that there
is one walk only (`WalkUnique`), and any sequence that goes round the ring is the value of
the recursive function `Walk` (`WalkIs`). With it `RunsInTurns` maps each step to
`RoundRobin`: a yield rotates the sequence (`RingRotates`), a start appends to it
(`RingGrows`), a return drops its first (`RingShrinks`).

**`SpiDma_proofs`** (any length, any number of bus errors, `MaxLag <= 1`). The
invariant follows the transfer through its phases: before it everything is idle
(`Before`), the receiving stream is armed first and waits (`ReceiveSetUp`), then
the transmitting one (`TransmitSetUp`). While the frame runs, every byte is
either to be read, in flight or out (`Conserved`), and every byte that is out was
received or waits in the receive register (`Received`). The loop may leave on either
stream's completion; what makes that safe is `Leaving`: then nothing is in
flight, and a receive beat still due has used up its lag, so that it comes
before the next statement. This is the one place where `MaxLag <= 1` is needed,
and TLC shows that the leftover byte appears with 2. After an error (`Dead`) there
is no clock and no stream moves. From the invariant follow `TypeOK`,
`FrameComplete`, `NothingLeftOver`, and `KeepsContract`, in which each step maps to a
step of `ByteTransfer` or a stutter.

**`LogDevice_proofs`** (any queue length, any alphabet). First the ring: the
lemmas `StoreKeepsStored`, `PublishAppends` and `PopTakesOldest` say what the queue holds after each
half of a push and after a pop, with the interrupt in between. The invariant
(`UartInv`) then says what a call still relies on of what it saw: having found the
queue empty, it stays so, since only the fiber pushes (`CallKept`); outside of a
push and a discard, bytes in the queue mean an enabled interrupt (`Armed`). From it
`UartStrandsNone`, and the UART's half of `LogImplementsStream`. For the ITM, the bytes
pending are numbered from the front (`ItmByte`): first those of the static word, then those
of the ring, then the one being written. `ItmFills` proves that after the loop the
word holds, at its end, the oldest bytes there are, and `ItmUpdates` that `update`
takes a number of bytes off the front (`ItmGone`) and leaves the others in their places: none when
the port is busy, two of three, the whole word otherwise, and
exactly those that it puts into the port (`Frame`). So `LogSpec` implements
`ByteStream` over either device.

**`FiberSync_proofs`** (any number of fibers, any counter width). One inductive
invariant in four parts: `TurnsOK`; `LocksKept`, which ties each lock's own
variables to its holders while it is not `voided`; `CondKept`, by which a fiber between
its unlock and its reading of the sequence still has its turn, so that the condition is
false then unless an interrupt came; `CountsKept`, by which permits, arrivals and the members missing in
the barrier's phase agree with the counters, by cardinalities of sets of fibers.

**`Motor_proofs`** (any counter, clock and sleep, any unit, a whole number of counts or
not, and any width of the multiplier, with `ClockAssumption`). `OverlapIsShort` is an action
property. `PreloadsFollow` says at each statement of a swap which preload register
holds which value: only between the two writes may both be set. `OneDrives` says when
the timer cannot be comparing with such a pair: from the update event of the sleep
until that of the swap. `NowIsNow` compares with the true time, which is the served
ticks, the pending one and what the counter has gone down: the invariant says what
each of the two reads of `now()` still knows of it while a wrap and the tick interrupt
fall between them. It has the hypothesis `MaxLag <= 2`, that a pending tick waits for at
most two statements: with more, TLC finds the counterexample named under the
bounds. The conversion is bounded by lemmas of its own: the multiplier and shift
lose at most `Short(d)` parts of `d` counts (`Multiplier`, `ShortIs`), what they lose grows with
`d` (`ShortGrows`), and at the end of a tick it is still less than a unit (`SlipIs`, part of
`ReadingsAreNow`), so that a reading is at most one unit low. For `HeldLongEnough` the start of a sleep is the
truth minus `slept`, modulo the clock's range, so that the unsigned difference in
`poll_for` is right across a wrap as long as the sleep is shorter than the range
(`ReadingsGrow`, `WakesLate`). Lemmas on remainders give the solver the products of constants
that it cannot handle itself.

**Only model-checked.** Liveness under fairness, which is out of the prover's
reach: `RoundTrips`, `PowerArrives`, `ErrorEndsTransfer`, `ReadoutEnds`, `NoStarvation`,
`JoinEnds`, `CallsReturn`, `NoneForgotten`, `Alternates`, and with it the fairness conjunct of
the refinements `FollowsRails`, `ImplementsSimulation` and `ImplementsRoundRobin`, of which the
initial states and steps are proved, and `UsesContract`, whose content is its fairness.
Every other property of a run that passes is a theorem.

## 5. Findings

1. `dma.hpp:276`: on a DMA error the clock of the whole controller is taken away;
   the comment above says the channel is disabled. The next frame never ends.
2. `board.hpp:170`: the sampler is given arrays on the stack of a function that
   returns.
3. `itm.cpp:98`: `isWriteFinished` ignores the word of `update`, against
   `uart.hpp:105`; a flush leaves up to four bytes.

Also noted, without a run of their own:

* `adc_sampler_impl.hpp:103`: `startReadout` is not refused during the first conversion
  of a readout, although `adc_sampler.hpp:75` says false is returned while sampling
  is in progress. The measurement fiber does not call it then; `adc_race` shows
  what still holds if somebody does.
* With 255 or 65535 samples in all the counter of `AdcSampler` is one bit too narrow
  (excluded by `ProperUse`). The program takes 300.
* `architecture/interface/uart.hpp:149-155` says that `discardTransmitBuffer` empties the hardware buffer,
  too. The word of `update` (ITM) and the data register (UART) survive it. `ByteStream`
  lets a discard keep any first part of what waits, so no property contradicts that
  line, nor asserts it.
* `Simulation` leaves the power on under a lost train (`StaysPoweredWhenLost` states it
  as it is).
* `shared_mutex.hpp:83`: readers are not counted, so the first that leaves lets a
  writer in with the others (`voided` in `Exclusion`).
* `condition_variable.hpp:68`: a notification from an interrupt between the unlock and
  the reading of the sequence is lost (`missed` in `WakeupNotLost`).
* A release of a semaphore at its maximum wraps to zero permits. `lock()` of a
  recursive mutex at its largest count waits for its own caller, and its `unlock`
  does not look who calls. The completion of a barrier runs after the sequence has
  changed, so that others may go on before it is done.
* `systick_timer.cpp:97` cuts off the product with a reciprocal that is itself cut off, so
  that an exact multiple of a microsecond reads as one less: after 45 counts, 2 us,
  the clock says 1. A reading may then lie before its call by that one unit.
* A sleep may be shorter than asked by almost one unit of the clock, and by what the
  conversion loses (`Slip`, in the program 0.0005 us); `poll_until` with a
  time in the past waits nearly a whole wrap (nobody calls it so).

## 6. Plan

Done in this order: track model, simulation, controller with DMA, SPI driver,
ADC sampler, scheduler, log device, UART, synchronisation, clock and driver; proofs
of simulation, sampler, scheduler, synchronisation, driver, UART and SPI driver; then of
the composed controller, the clock, the ITM and the scheduler's queue.

Could still be modelled: a stack overflow as an end of `FiberScheduler`; scheduler
and log device together, that is, what `BlockIfFull` does to the train's timing;
the stop token and `call_once`, which no fiber uses.

Proofs to come: abstract specifications of the locks (a set of holders) and of the
counters (a number of permits), refined by `FiberSync`; an exact mean for a caller that
starts readouts at any moment.

### Not modelled

Formatting and printf, register-level set-up, start-up code, assertions, vendor
headers, host scripts. They have no state that a property here is about, or only
the hardware gives them meaning. They are most of the lines: of about 53,000,
some 23,000 are register maps and generated per-pin tables
(`stm32f446xx.h`, `core_cm4.h`, `gpio/data.hpp`, `dma.hpp`'s channel tables), and the rest is
largely printf, compiler intrinsics and template plumbing. What runs in the
program and keeps state is in the modules above, so the share of mapped lines
stays low.
