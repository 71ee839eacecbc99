# A verification development for the AURIX TC3xx flight controller

The repository is the firmware of a quadcopter flight controller on an Infineon
TC399, in C: three TriCore cores without an operating system, cooperative tasks,
interrupts, and a shared memory (the LMU) between the cores.  The directory
`src/bsw` is the program's own code, some 16 700 lines; `src/asw` is a small
control application and a host replay.  `Libraries` and `Configurations` are the
vendored iLLD drivers and lwIP.  Paths in this file are relative to the
repository's `src/bsw/` unless they begin with `docs/`.

This directory holds TLA+ models of the parts whose correctness is a matter of
ordering, failure and time, the TLC configurations that check them, and proofs,
checked by TLAPS, of what matters most.

## 1. The system

### 1.1 Components

| Component | State it keeps | Operations | Makes it hard | Correct when |
|---|---|---|---|---|
| Motor arming, `motor.c` | `state`, beep statics, `s_ceiling`, `dshot_command_set` | `Motor_task` (1 ms), `Motor_beep`, `Motor_isStreamAllowed` | words written singly over XCP at any moment; link that dies; wrap of the millisecond counter | no throttle without a live operator, no silent re-arm, motors stop within a deadline |
| Setpoint table, `motor.c` | none | `Motor_convert_speed_to_throttle`, `Motor_calc_clamp` | integer truncation between breakpoints | in range, monotone, never a DShot command |
| DShot and ESC telemetry, `Dshot.c` | receive buffer, pending request, miss streaks, alive bits | `Dshot_task`, `asclin6IsrReceive`, frame encoding, bidirectional replies | four ESCs on one wire that names no sender; interrupt against task; ESCs that die | an answer is filed under the motor that gave it; a dead ESC is reported |
| Calibration store, `Nvm.c` | two DFLASH sectors, `s_sequence`, job state | `Nvm_bootInit`, `Nvm_task`, save and defaults | power loss at any flash operation; sequence wrap | the last good record survives and is found |
| XCP slave, `Xcp.c` | link time, one DAQ list, address of the master | command handlers, DAQ sampling, `Xcp_linkAlive` | any command order, from any client; lost datagrams | the DAQ list stays in its arrays; a frame holds what was configured (the memory access and its write window are not modelled, see 7) |
| Latches between cores, `NavState.c`, `fusion.c`, `Ahrs.c` | payload words and `gen` in the LMU | publish, get, consumption in `Fusion_update` and `ahrs_refreshMag` | store order between cores, a reader in the middle of a publish, wrap of `gen` | nothing stale is taken, each sample used once and whole |
| IMU acquisition, `ImuInt.c`, `ImuEdge.h`, `NavTask.c`, `Icm42688.c` | last edge, re-init machine, presence clocks | `imuDrdyIsr`, `NavTask_step`, `Icm42688_*` | interrupt against task, a sensor that dies in many ways, 42.9 s wrap | the interval integrated is the true one; a lost sensor is declared; it comes back |
| Attitude, `Ahrs.c` | quaternion, status machine, fault hold | `Ahrs_update` | the outage debounce | RUNNING means fresh input |
| Fusion, `fusion.c` | three channels: state, covariance, run of rejections | `Fusion_update`, `Fusion_setBaroAlt`, `Fusion_setGnss` | asynchronous inputs, corrupt samples, an estimate that has drifted off | it recovers once the samples are good; see also the latches |
| Scheduler, `scheduler.c` | release times | `Scheduler_run` | late tasks, wrap of the tick | a task runs once per period, lost periods do not pile up |
| Diagnosis, `PeriphDiag.c`, `Housekeeping.c` | health per peripheral | report, update | a core that stops, mixed report rates | a dead sensor is reported, a good one is not |
| Buses, `Spi.c`, `I2c.c`, `Uart.c` | transfer state | blocking transfers | timeouts, unplugged sensors | a call always returns |
| GNSS, `GnssM9N.c` | UBX parser, receive ring | parse, configure | interrupt against task, byte loss, resynchronisation, a receiver that is switched off | no fix is taken twice, no loss goes uncounted, fixes arrive again |
| Sensor drivers, `Bmp581.c`, `Mmc5983.c`, `SensorTask.c` | presence | poll | unplugging | as for the IMU |
| Replay and control law, `src/asw` | - | host build | - | floating point |

### 1.2 How they interact

CPU0 runs the network, `Xcp`, `Nvm_task`, `Motor_task` with the DShot output and
the ESC telemetry, the I2C sensors and the housekeeping, from one cooperative
scheduler.  CPU1 runs `NavTask_step` at 2 kHz (IMU, attitude, fusion).  CPU2
serves statistics.  The baro, GNSS and magnetometer samples go from CPU0 to CPU1
and the navigation state back, each through an LMU object guarded by a
generation counter.  The operator acts through XCP downloads into the
calibration page, one word at a time, and the motor machine reads that page on
every call.  The interrupts that matter are the millisecond tick, the data-ready
edge of the IMU and the receive byte of the telemetry UART.

### 1.3 Hard behaviours

`PROJECT.json` lists every hazard with its line.  The main groups: words written
one by one while a task reads them; link loss and the wrap of the counters that
measure it; power loss inside a save; torn copies between cores; answers that are
late, lost or shifted on a wire without addresses; a sensor that fails silently,
loudly, or in its data only; and liveness, that a machine leaves FAILSAFE, a
command is answered, a sensor is found again.

## 2. Plan

The order follows what can hurt: motors first, then what must survive power
loss, then the data the estimator flies on, then what tells the pilot of it.

| Sitting | Module | Of | State |
|---|---|---|---|
| 1 | `MotorTable`, `Motor`, `MotorProofs` | motor.c, Xcp link | done |
| 1 | `NvmStore` (abstract), `Nvm`, `NvmProofs` | Nvm.c | done |
| 1 | `Latch`, `LatchProofs` | NavState.c and the fusion latches | done |
| 1, 2 | `Dshot`, `DshotProofs` | ESC telemetry | done |
| 1, 3 | `ImuPath`, `ImuPathProofs` | NavTask.c, Icm42688.c, status of Ahrs.c | done |
| 2 | `Scheduler` | release times over a wrapping counter | done |
| 2, 3 | `I2c`, `I2cSensor`, `PeriphDiag`, `Health`, `HealthProofs` | retry and recovery, drivers, diagnosis, composed on the scheduler | done |
| 2, 3 | `XcpDaq`, `XcpLink`, `XcpProofs` | the DAQ list; slave and master over a lossy cable | done |
| 2, 3 | `GnssM9N`, `GnssProofs` | ring, UBX parser, configuration, hand-over | done |
| 2, 4 | `DshotReply`, `DshotProofs` | edge capture and GCR decoding | done |
| 2 | `Fusion` | gates, inflation, re-acquisition | done; its properties are liveness |
| - | `ImuEdge` | the seq/ticks snapshot against its interrupt | not begun |
| - | `Spi`, `Uart` | a transfer left in flight; the lock of two cores | not begun |

Compositions that exist: `Motor` holds the operator, the link and the task;
`ImuPath` the edge, the driver, the task and the estimator's status; `Health`
the scheduler, the bus, a driver, the diagnosis and the other core's liveness;
`XcpLink` the slave, the cable and the master; `GnssM9N` the line, the ring, the
parser and the hand-over.  Abstract specifications: `NvmStore` (done); a
telemetry service "each ESC's last answer" for `Dshot` and a register for
`Latch` would be worth stating.

## 3. Modules and the code

Each definition carries the name it has in the source; `PROJECT.json` maps it to
its lines.  Variables in each module come in three groups: statics of the code,
the environment, and history variables that only properties read.

**MotorTable** has the pure functions: the breakpoint tables, the search for the
segment, the truncating interpolation, and the clamp to the ceiling.

**Motor** has one action per actor: `TickIsr` (the millisecond counter),
`XcpPoll` (a received command: any word of the calibration page changed, or
none, and the link time stamped) and `Task_Dshot` (one call of the state machine
with its handlers and the output gate).  The words the operator writes are not
checked by the slave, so each write set is a constant.  `MaxLag` bounds how many
ticks pass between two calls: the cooperative scheduler delays the task by the
longest other task.  History: how long the operator has really been silent, whether
ARM was written since the last call, which setpoints are of this session, which
motors have beeped.

**NvmStore** is what the store promises: a last good value, perhaps one being
tried; a boot yields one of them.  **Nvm** is the code: two sectors of pages, erase,
page programs and read-back as separate actions, `PowerLoss` between any two of
them with the torn pages that leaves, failing operations, boot.  Records carry a
sequence modulo `SEQ_MOD`; `Newer` is the signed difference of the code.  The
magic words, CRC and layout are abstracted to what a page holds: a header, an old
or bad one, a sequence, a value, garbage.

**Latch** models the four latches at once: payload words, `gen`, the stores that
may reach the LMU in any order until the barrier, the two copy attempts of the
reader, and the two ways to consume, edge-triggered (`fusion.c`, `gen` differs
from the last one taken) and level (`NavState_get`).

**Fusion** is what becomes of a sample that was taken.  A channel is its error
against the good samples in steps of a gate, and for each kind of measurement the
level of the gate its covariance gives.  `fusion_chanUpdate` accepts a sample
within the gate, which closes, and counts the others; `fusion_correctBaro` and
`fusion_correctGnss` inflate after a rejection and re-acquire after a run of
them.  How much of a residual a correction takes away is open.  `Coast` is flight
without accepted samples; `CalmsDown` ends all trouble.

**Dshot** cuts a run of `Dshot_task` into the parts the interrupt can fall
between: the telemetry request of a frame, the check of a complete buffer, the
miss count.  `asclin6IsrReceive` stores the next byte.  ESCs answer, lose bytes,
die and come back; bytes that no ESC sent may arrive.  A byte is the motor that sent
it and its position: what a CRC sees.

**DshotReply** has the other answer, on the motor's own line.  `Edge` is the ESC
toggling it into the TIM channel, `Visit` one turn of the loop in
`dshotReadReply`, which may come late and find an edge overwritten;
`Dshot_receive_decode` makes an eRPM of the captured intervals.  The decoder is
pure and is written as the code has it: intervals to bits, five bits to a nibble
through the GCR table, checksum, exponent and mantissa, extended telemetry.  Its loop
over the intervals is a recursive function, its shifts are powers of two, and the
exclusive or of the checksum is the parity of three bits, since no prover has bitwise
operators.

**ImuPath** has the chain from the edge to the estimator's status in one module.
`imuDrdyIsr` is the edge; `NavTask_step` is a dispatch: quiet, duplicate edge, or
the work, which calls the driver (`Icm42688_read` with its re-init machine,
`Icm42688_verifyPresence`, `Icm42688_reportPlausibility`), the gate
(`ahrsInputOk` with the slew bound) and the status part of `Ahrs_update`.  The
driver's statics are one record and its functions map records to records.
`Tick` and `Disturbance` are the world: power off and on, brown-out (registers at
their defaults), a bus that reads zeros, corrupt words, the -32768 sentinel, or
fails, and a broken data-ready wire.  Times are ages modulo `TICK_MOD`.

**Scheduler** is `Scheduler_run`: `StartPass` reads the counter, `RunTask`
dispatches the next due task in the order of registration, `EndPass`;
`TimePasses` may come anywhere.  **I2c** has no state of its own: its operators
map a bus to the results a call may have and the bus it leaves.  **I2cSensor** is
the machine that `Bmp581.c` and `Mmc5983.c` share, one transaction per step while
a bring-up is under way: the reset, the identity, for the BMP581 its trim status,
the configuration writes.  The part can be unplugged, browned out, frozen or shorted
between any two of them, and an identity or a status that is read may be refused.  A
register that is not set shows in the data or does not (`Shown`): without `press_en`
the pressure stands at an implausible value, without the last write nothing converts,
and without the filters or Auto_SR the data look like any other.  **PeriphDiag** maps an entry of the diagnosis to the entry after a
report or an update.  **Health** composes the four: `SensorTask` and
`Housekeeping_100ms` are the two tasks of the schedule, and a behaviour follows
either an I2C sensor or the IMU, which the other core reads (`NavTask_step` here
only adds its liveness).

**XcpDaq** is the slave's DAQ list: `xcpRecv` executes one command of any client,
`Frames` is what one call of `xcpDaqCycle` sends.  **XcpLink** adds the datagrams under
way in either direction, their loss, a reboot, and the master, which is not part of
the repository: a dialogue that frees, allocates, writes and starts, repeats a
command that got no answer, and may change its plan.

**GnssM9N** has the interrupt `asclin4IsrReceive` between any two accesses of
the reader, and the reader cut at these accesses: `ReadBegin` with the presence,
`Configure`, `Snapshot` of the head, `ParseByte`, `WrapTail`, and `ReadEnd`, which is
also the caller `SensorTask_gnss`.  A byte is the frame it belongs to and its part.
A behaviour follows the fixes of a configured receiver or the answers to the
configuration.

`MCMotor`, `MCFusion` and `MCDshot` put two related modules without common state
into one run: a behaviour follows the one or the other, chosen in its initial
state.  `MCHealth` and `MCXcpLink` hold the values of constants that a cfg cannot
write.

## 4. What the runs show

| Run | Module, cfg | Question and instance |
|---|---|---|
| `motor` | MCMotor, Motor.cfg | the table on every 16-bit speed, no bound: equal to the truncated line between the breakpoints; the arming with 2 motors, timeout 3, lag 1, counter modulo 12: a silent operator lives through its turn; two ceilings, one of them invalid, one setpoint |
| `nvm` | NvmProofs, Nvm.cfg | the values zero, default and one more; sequence modulo 4, so it turns over and the signed comparison has both outcomes |
| `fusion` | MCFusion, Fusion.cfg | latches of three words, some or all written, gen modulo 3, four publishes: gen returns to the value last taken, up to two publishes inside one get; gates of three levels, re-acquisition after 3 rejections, errors up to twice the widest gate |
| `fusion_diverged` | Fusion, FusionDiverged.cfg | disagreement: an error that is never left again |
| `latch_torn` | Latch, LatchTorn.cfg | disagreement: a copy inside a publish |
| `dshot` | MCDshot, Dshot.cfg | 2 ESCs, answers of 2 bytes, slots of 3 calls, streak saturating at 1: each answer can be whole, short, late by one call, absent; replies with speed words of every exponent, every nibble in every place, and with every extended type, 4 ticks a bit, edges up to 1 tick late, at most two of them unvisited, both counters turning over inside the answer |
| `dshot_stray` | Dshot, DshotStray.cfg | disagreement: stray bytes shift the answers |
| `imu` | ImuPath.cfg | edge every 2 periods, duplicate below 2, usable up to 5, timeouts 2 and 4, counter modulo 7, a part that answers in SPI mode 3 only, so both modes are tried |
| `imu_slew` | ImuPath, ImuSlew.cfg | disagreement: a manoeuvre across a gap |
| `health` | MCHealth, Health.cfg | periods 1 and 2, counter modulo 4, passes up to 2 late, limits 2; a bring-up of reset, identity, status and two writes, both of which show in the data, as the BMP581's press_en and its start of conversions; the world moves between passes and between any two transactions of a bring-up (`WorldAt`), and a part that is wrong already does not freeze as well |
| `xcp` | MCXcpLink, XcpLink.cfg | 2 ODTs of 2 entries and 2 bytes, an object too large for an ODT, three plans of which one is longer and one shorter, 2 clients, 3 datagrams under way |
| `gnss` | GnssM9N.cfg | ring of 3 cells, absent after 2 calls, 2 settings, acknowledgement counter modulo 4, 2 usable fixes and an absurd one; one spoilt or made-up byte or absurd fix |

Why the bounds suffice.  Counters are small but in the order the real ones have
(timeouts below the modulus, duplicate below period below timeout below window),
and the assumptions that state this order are checked by every run and used by the
proofs.  Every wrap happens inside the instance, and every queue, ring and counter
reaches its limit.  Two motors, ESCs, sectors or ODTs are
the least for which an answer or a setpoint can be the wrong one's.  For `Motor`,
`Nvm`, `Latch`, `Health`, `XcpDaq`, `XcpLink`, `Dshot`, `ImuPath` and `GnssM9N` the proofs
remove the bounds from the safety properties.

Each property of a passing run has a mutant, a version of one definition with a
plausible mistake, that violates it in the same instance.

Only the runs named a disagreement expect a violation.  Deadlock is checked in all;
in `dshot` an answer that has ended stutters explicitly.

### Fairness

* `Motor`: the tick goes on and CPU0 calls the task; the operator owes nothing.
  His part is the premise of `ArmingCompletes` and `FailsafeIsLeft`.
* `Nvm`: the core boots after a power loss and `Nvm_task` is called for ever.  A flash operation returns, good or bad
  (the driver's wait loops are bounded by the hardware).
* `Latch`: the consumer is called for ever and a publish once begun ends.
* `Fusion`: once calm, the barometer task delivers at 50 Hz and the receiver at
  10 Hz for ever.  The properties presuppose the calm.
* `Dshot`: `Dshot_task` is called for ever, and the byte an answering ESC is sending
  arrives.  `DeadEscIsReported` presupposes an
  ESC silent for good, an end of the noise and a running stream.
* `ImuPath`: time passes (strongly fair, or a wire that flaps without end would
  stop the clock), the task is called, a due edge comes.  `Recovers` presupposes
  that the disturbances end with all good and the rate near the last accepted one.
  This last premise is not idle: see `imu_slew`.
* `Health`: time passes (strongly fair, since it stands still where `MaxGap` is
  reached inside a pass), and the scheduler and what it has begun go on.  The world
  and CPU1 owe nothing.
* `XcpLink`: both tasks of the slave run, and the master sends, reads and times out.
* `GnssM9N`: the reader is called for ever and a byte under way arrives.  That the
  receiver goes on sending fixes is a premise of `FixesArrive`.

### Assumptions of the models

* `Nvm`: an interrupted erase touches all pages of the sector alike; garbage never
  matches the CRC; a save blocks CPU0, so no download changes the page meanwhile;
  the self-check of the block's magic never fires.
* `Latch`: stores between two barriers reach the LMU in any order, and the copy reads
  words in any order, a superset of what the cores do.  At most `MaxStall`
  publishes, fewer than the modulus of `gen`, finish inside one copy.  `Paced`: the
  baro and GNSS tasks publish at 10-50 Hz, `Fusion_update` consumes at about
  1 kHz while the IMU delivers.
* `Fusion`: a covariance is the level of the gate it gives.  An accepted sample
  leaves its gate at level 0, the variance being then below that of the sample; an
  accepted position takes the wrong velocity with it, and an accepted velocity leaves
  the position's gate, since the inflation before it widens more than the correlation
  takes.  Mean reversion of the bias, the calibration reads, the check for NaN and
  the flags derived at the end are left out.  A corrupt first fix, which sets the
  origin, is an initial error like any other.
* `Dshot`: an answer ends within `MaxAnswer` calls of its request (0.87 ms on the
  wire against a slot of 8 ms); the CRC accepts only a whole answer of one ESC;
  where inside a part of `Dshot_task` the interrupt falls does not matter.  Stray bytes
  are possible because the wire floats without an ESC (docs/ESC_AM32.md:367).
* `DshotReply`: the answer does not begin before the window opens (30 us of
  turnaround); the channels are independent; at most two edges are overwritten
  before they are visited.
* `ImuPath`: the task is called again before its own timeout (`MaxGap` is at most
  `NAVTASK_NO_EDGE_TIMEOUT`: a dispatch every 0.5 ms against 20 ms), and the fault hold
  runs out within a turn of the counter (`FedBound + MaxGap < TICK_MOD`: 50 ms of
  faults, one dispatch each, against 42.9 s);
  the snapshot is atomic (`ImuEdge` is not begun); a corrupt word
  changes the rate only; after an outage the first good sample has about 1 g, so it
  aligns; the estimator's fault clock takes every interval, since its upper limit
  of 60 s lies above the 42.9 s the counter can show; the sensor gives an
  edge at most `PERIOD` after the last, once configured.
* `Health`: the sensor task is registered before the housekeeping and its period is no
  longer (Cpu0_Main.c:165-178); the bus has one trouble at a time and carries one sensor; the other tasks
  of CPU0 only take time, and time that passes inside a pass is taken to pass after it,
  since the counter is read at its start.  What a snapshot of the navigation state
  says of the IMU is any value; while CPU1 runs it has gained liveness.  Whether an
  identity or a status that was read is the right one is open at each read;
  `PresenceReturns` presupposes that it is not refused for ever.  `DeadIsReported`
  speaks of a sensor that is silent for good, or there and wrong for good, not of one
  that is the one and the other in turn (see 6).  Which registers show in the data is a
  parameter: the run has the two of the BMP581 that do, the proofs any.
* `XcpLink`: the objects of each ODT of a plan fit one frame, whose length the
  answer to CONNECT announces (Xcp.c:248-249): an object that does not fit is left out of
  the frame, and no answer says so (Xcp.c:565-568); no datagram overtakes another; the master's timeout of 1 s
  (tools/gen_a2l.py:379) fires only when nothing is on its way; a guest does not
  mix with a master in one behaviour; a bind that fails at start-up is left out.
* `GnssM9N`: the receiver answers the settings in any order, each once, and fewer are
  sent than the 8-bit counter of acknowledgements holds; a payload holds no sync pair and is left out but for its length; the
  checksum is right for whole frames only; a cell read again after it was emptied may
  hold any byte; two fixes in a row differ in iTOW; fixes never fill the ring
  (133 ms of bytes against the 100 ms period), while acknowledgements and noise may.

## 5. What is proved

The proof modules hold for every value of the constants under the named
assumptions of their modules (`MotorAssumption`, `TickAssumption`, ...), which the
runs evaluate.

**MotorProofs.**  The speed table first: `SegmentFound` says that the segment search
ends inside the table and around the speed, `Truncated` that the division then gives
the integer part of the line, so `TableIsTruncatedLine`.  Type correctness follows, since
the 16- and 32-bit words must not leave their ranges.  The safety properties
rest on the inductive invariant `Inv`.  `ThrottleNeedsOperator` is not inductive: the
link test compares two counter values modulo `TICK_MOD`, so an operator silent for
one turn looks alive.  The argument is that no session lasts that long.
`BeepBound` and `BeepPrefix` bound the beep sequence, `SilenceBound` therefore the
silence in INIT and ARMED, `AgeIsTrue` says that below that bound the measured age
is the true one, and `ArmIsFresh` that a standing ARM in DISARMED is new, so a
counter that turns over cannot start a session.  `SetpointIsFresh` carries the
setpoints.  `TickAssumption` is exactly the inequality this argument needs.
`ArmedOnlyAfterBeeps` is proved and is in no run.

**NvmProofs.**  `Inv` says that one sector holds the last good record at every step,
that the other one is being rewritten or older, and what each step of a save has
already written.  Lemmas on pages and sequences come first (`SequenceOrder`:
successor and predecessor are told apart also at the wrap; `HalfErasedKeeps`: an
interrupted erase leaves the record or none).  From `Inv` follow
`LastGoodRecordStands`, `BootsLastOrTried` (in no run) and the refinement
`StoreSpec`: every step of the two sectors is a step or a stutter of `NvmStore`.

**LatchProofs.**  `Inv` describes the object word by word in the middle of a publish,
how far `gen` has moved since the reader looked (`GenMoved`), and what a copy is
made of (`CopyContents`).  It gives `NothingStaleTaken` for both kinds of
consumer, and `FusedSampleIsWhole` for a paced producer.

**HealthProofs.**  The scheduler comes first, for any list of tasks.  Stamps and
counter are known modulo `TICK_MOD` only.  `ClockIsTrue` ties them to true times,
`Punctual` bounds the age of a stamp below one turn, so the modular test is the
true one (`DueIsTrue`); each needs the other.  From them `ReleasedOnTime`, and with
`InOrder` (which stamp is the older) `SampledBeforeUse`: a consumer registered later,
with a period no shorter, never runs twice without its producer between.
`Schedules` carries this to `Health`: whatever sensor, driver and diagnosis do, their
schedule is one of `Scheduler`.  On it rests `HealthyIsQuiet`.  That a window was clean
is no inductive statement; `HealthInv` adds what the entry holds once the sensor task has
run in it (`CleanWindow`), that a part that is present is not being brought up
(`BringUpEnds`, or a bring-up could reset it inside the window), and that the value
reported last, perhaps before the trouble, is the part's last sample or one that no good
part gives (`LastSeen`, or a live sensor could look frozen).

**ImuPathProofs.**  Two facts that need each other.  The estimator's fault hold
bounds the time since the last usable input only if the intervals it counts are
true; they are, since tick ages wrap only after `TICK_MOD`, and RUNNING is given up
long before.  `HoldCounts` states the first with the slack of one dispatch,
`TrueAges` the second, and both hold while the status is RUNNING: out of it, after a dead
wire, an age may be anything.  They give `RunningMeansFed` and
`IntegratesTrueInterval`.

**GnssProofs.**  `InRing` says that the bytes taken and not yet parsed are, in order,
the cells from the tail to the head, also while the tail stands one past the end, and
that the head the reader has seen lies between the two.  Because each byte is parsed once,
acknowledgements can be counted: those counted, in the ring, on the wire and still owed, and
one more once a setting was lost or refused while none was discarded, are at most the
settings expected (`AcksCounted`), so `cfgOk` then excludes a refusal.  Both are promises
until a byte is taken over the oldest, and the invariant is an implication for that reason.
That the ring does this is a flaw of the code (see 6); what is proved of it is that it needs
a full ring and the tail one past its end (`OnlyPastTheEnd`).  `FixKept` says where a fix that is held and
not yet published comes from; that the presence counter is zero in the call that decoded it
is what keeps the copy in `g_nav` from coming back later.

**XcpProofs.**  `DaqInv` gives the list its type: the write pointer stays inside
the arrays although it is advanced after each write and never checked
(`NextSlotInside`).  `DaqInBounds` follows, for any clients and any order of commands.
The frames are the work of two nested loops, and what those compute is proved by
induction: `Induction` states it for a set, whose first missing number would have none
before it (`SmallerIsWellFounded`).  `PacksWhatFits` shows that the inner loop puts all
entries of an ODT into its frame when they fit, `SendsItsFrames` that the outer one sends
nothing else.  `LinkInv` then follows the dialogue.  `OneCommand`: answers do not name
their command, yet none is taken for another's, since the master waits until nothing is on
its way.  `ListFollows`: the list a connected master has holds all that the steps so far
have set (`Before`), also when a step was executed twice, and the pointer stands where the
next write belongs (`Ready`); a restart clears the list but also the address, and only a
CONNECT, which begins anew, sets that again.  `FramesFollow` says which frames may be on
their way.  `SilentWhileConfiguring` and `DecodesAsConfigured` follow, for plans of any
length whose ODTs each fit a frame; a plan larger than the arrays is refused step by step.

**DshotProofs.**  The wire names no sender; what files an answer under its motor is
time.  `Answering` says that an answer has ended before the frame counter comes round
to the next request (`MaxAnswer + 2 <= TLM_SLOT`), `Buffered` that until then the
buffer holds bytes of the ESC asked, each once and in order, so that a full buffer is
its whole answer (`FullIsItsAnswer`).  `SlotKnown` ties the history of a slot to the
driver's variables.  `PacketOfItsMotor`, `AliveMeansAnswered` and `SlotOutcome` follow,
all for a quiet wire.  `Inv` is therefore an implication: noise once made voids it.

The second part is about the bidirectional answer, and proves `ReplyIsReadAsSent` for
every period of 16 bits, every type and byte of extended telemetry, any ticks per bit,
any jitter below half of that and any widths of count and stamp that an answer fits in.
`Capture` is the inductive part: while no edge is lost there is a sequence of slots, the
first edges of the answer, whose gaps are the intervals, and at most the next edge stands
in the register unvisited.  A gap is exact although each stamp may be late and turn over
(`GapInSlots`: rounding absorbs less than half a bit), and the count tells one new edge
from two across its own turn (`CountFacts`).  From there the proof is about the
decoder.  `WordOfGaps`, by induction on its loop, shows that the word it collects holds
the ones of the answer up to the last edge taken, and `WordRead` that such a word is accepted
only as what was sent.  The checksum is not what this rests on: an answer cut off
before its sixteenth slot leaves five zeros at the end, which are no code, and past it the
three codes of the data are whole.  `ValueMeans` gives the value back: a period to one part
in 256, a stopped motor, or telemetry, never one for another.  That a complete
capture is not rejected needs a count (`Counted`, `AllCaught`): as many edges as the data
has, taken in order, are all of them.  The same argument covers a window that closes
early, which TLC visits only for the messages of its instance.

`PROJECT.json` lists these theorems.

**Only model-checked.**  All liveness (`ArmingCompletes`, `FailsafeIsLeft`,
`SaveAnswered`, `ConsumerCatchesUp`, `VerticalRecovers`, `HorizontalRecovers`,
`DeadEscIsReported`, `DeadIsDeclared`, `Recovers`, `DeadIsReported`,
`PresenceReturns`, `DiagnosisSettles`, `StreamFlows`, `FixesArrive`): TLAPS has no rule
for it here, nor for ENABLED.

## 6. Disagreements met

With a run (details in `PROJECT.json`):

* docs/FUSION_SPEC.md, 2.3, forbids a state that rejects every later measurement.
  fusion.c:973 tests a run of rejections that the velocity sample of the same fix has
  usually just ended (`rejectRun` counts both), and tests it for north only.  A host build of
  the code shows both: 13 corrupt fixes 15 km off leave a filter that refuses every
  good fix for ever with `horizontalOk` 1; after an outage of 300 s with an
  acceleration error of 0.3 m/s2 north recovers after 13 rejections and east never.
* NavState.h:111-112 calls an accepted copy consistent.  `gen` moves only at the
  end of a publish, so a copy inside one is accepted.
* Dshot.c:588: a complete buffer of stray bytes outlives its slot and shifts
  each later answer by one motor.
* NavTask.c:92-95 says that a long gap widens the slew allowance.  The base of the
  interval also moves on an edge whose sample is refused, so the sample after a gap
  above 0.2 s has one period's allowance for the turn of the whole gap.

Without one:

* docs/DIAGNOSTICS.md:159-160 lets FAILSAFE return to INIT; the code goes to
  DISARMED (`motor.c:205`), which is the safer one.
* docs/DIAGNOSTICS.md:34 has a corrupt boot record raise the NVM fault; the code
  raises it only when both sectors are bad (`Nvm.c:302`).
* Xcp.c:605 compares modulo 2^32, so a link dead for 49.7 days is alive for one
  timeout; Xcp.h:19 knows no such case.  The proofs show it harmless for throttle.
* Diagnostics.h:32-33 says that the firmware writes 0 to motorCmd on every exit from
  ARMED.  An exit by another word (motor.c:163) leaves that word standing; it is not
  ARM, so nothing re-arms.
* Dshot.c:703: while the stream is paused at a request frame, every call counts a
  miss for a request that was not sent (Measurements.h:368 counts requests).
  Dshot.c:696 says every 256th frame; the mask is 7.  A packet whose CRC fails
  (Dshot.c:611-626) is not counted as missed.
* docs/DSHOT.md:107-110 says that the checksum of a reply is not inverted; the code
  (Dshot.c:503) expects it inverted.
* PeriphDiag.c:105 counts reports.  Its limit is the 5 s of PeriphDiag.c:44 and
  docs/DIAGNOSTICS.md:39 only at 10 reports per second; barometer and magnetometer
  report at 50.
* NavTask.c:548 adds the liveness of the IMU to a float32 that is never reset, which
  absorbs it after some hours, and a good IMU is then called stuck.  NavState.h:60-75
  says that a stuck sensor gives identical windows; a window holds 101 or 102 edges,
  so a frozen IMU is not.
* Bmp581.h:61-63 and Mmc5983.h:57 say that a sensor comes back after a replug.  One
  shorter than the 20 ms between polls leaves it acknowledging in standby, never
  configured again; only the implausible bit shows it.
* docs/DIAGNOSTICS.md:44 has an IMU that is implausible for more than 1 s raise bit 22.
  The driver drops the presence of an implausible part after 0.1 s (Icm42688.c:125)
  and the re-initialisation brings it back within tens of milliseconds.  A part that
  goes on giving implausible data is thus silent and implausible in turn; each clears the
  other's count (PeriphDiag.c:192-219), and neither bit 20 nor bit 22 is raised.  The
  same holds for an I2C sensor that browns out again and again, absent and implausible
  in turn.
* Mmc5983.c:17-22 calls a sensor without automatic set/reset "quietly wrong".  A
  brown-out between that write and the last one (Mmc5983.c:119-128), each
  acknowledged, leaves it so for good: present, plausible and moving, no bit raised.
  The BMP581's filters (Bmp581.c:189-193) can be lost in the same way.
* GnssM9N.c:792-793 and docs/GNSS_UBX.md:403 say that `cfgOk` means that every setting
  was acknowledged.  A setting of which the transmit FIFO took not every byte is not
  expected to be (GnssM9N.c:358-363): when all are discarded, zero acknowledgements
  are enough and `cfgOk` is 1 on an unconfigured receiver, so SensorTask.c:85-90 finds it
  plausible.  Only `g_gnssTxDiscards` shows it (docs/GNSS_UBX.md:400), and
  `CfgOkMeansAccepted` has it as a premise.  After a byte is taken over another in the
  ring, stale bytes may count as an acknowledgement as well.
* SensorTask.c:85-90 says that an unconfigured receiver raises the implausible bit.
  A receiver switched off and on after its configuration is not configured again and
  `cfgOk` stays 1; a burst sent while it was off is not repeated.
* docs/GNSS_UBX.md:407 ties losses to the overflow counter.  A full ring whose tail
  stands one past its end (GnssM9N.c:774) takes a byte over the oldest uncounted, and
  then counts as empty.  `NothingLostUncounted` says that nothing else does this.
* XCP: no handler tests `s_connected`, so after a restart DAQ commands work without a
  CONNECT and the frames have no destination; a second client's CONNECT or DISCONNECT
  frees the list of the first; START_STOP_SYNCH is answered positively with no list.
* Ahrs.h:62 has ALIGNING mean that the bias is done, and Ahrs.c:1054 that it is
  known: a sensor lost in the calibration comes back to ALIGNING without one
  (Ahrs.c:1030-1035).
* NavTask.c:466-470 gives a slew-rejected tick the reaction of an absent sensor.
  `Ahrs_update` freezes, but `NavTask_inputValid` is true, so `Fusion_update`
  integrates an acceleration of zero for that tick.

## 7. Not modelled

* Floating-point arithmetic: the gains and covariances of `fusion.c` beyond the
  level of a gate, the quaternion filter of `Ahrs.c` beyond its status,
  `Atmosphere.c`, `flight_ctrl.c`: real numbers, out of TLC's reach.
* The memory access of XCP: SET_MTA, UPLOAD, SHORT_UPLOAD, DOWNLOAD, SHORT_DOWNLOAD and the write window
  `xcpWriteAllowed` (Xcp.c:88-133), which compares addresses with the bounds of linker
  sections.  `Motor` and `Nvm` take a download as a change of a calibration word.
* The frame the DShot driver sends (`dshotBuild`, `dshotSendFrame`) and its
  busy-waits on a peripheral (Dshot.c:300): whether the hardware sets its flag is not
  a question of this code.
* `ImuEdge.h`'s snapshot is one step of `ImuPath`: a second interrupt inside its few
  instructions does not come at one edge per millisecond.
* `Spi.c` is an outcome in `ImuPath`; `Uart.c`'s lock guards debug output only.
* `Echo.c`, `UdpEcho.c`, `EthStats.c`, lwIP, iLLD: test services and vendored code.
  Most of the repository's lines are these register headers and drivers.  The loop at
  Echo.c:341-373 makes no progress when a packet does not fit its 256 bytes.
* Pin, clock and bring-up code; compile-time layout checks; load counters.
* `Bmp388.c`, `Mpu6050.c`: no task calls them.
