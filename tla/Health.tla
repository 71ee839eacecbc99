------------------------------- MODULE Health -------------------------------
(***************************************************************************)
(* How the drone comes to know that a sensor has failed: the sensor task   *)
(* and Housekeeping_100ms on CPU0's scheduler, the driver below and        *)
(* PeriphDiag above them.  The entries of PeriphDiag are independent, so a *)
(* behaviour follows one of them:                                          *)
(*   i2c  a sensor that SensorTask_baro or SensorTask_mag reads and        *)
(*        reports itself, on its own period                                *)
(*   imu  the IMU, which CPU1 reads; Housekeeping reports it from the      *)
(*        snapshot of NavState and the liveness added up since the last.   *)
(***************************************************************************)
EXTENDS Scheduler, I2cSensor, PeriphDiag

CONSTANTS
  Devices,
  WorldAt  \* bound: the positions of a pass at which the world may change

\* What a data read may return, and what the diagnosis compares.
Samples == -2 .. 2

\* Positions in CPU0's task array; Housekeeping is the later one.
SENSOR == 1
HOUSEKEEPING == 2

ASSUME HealthAssumption ==
  /\ {SENSOR, HOUSEKEEPING} \subseteq Tasks /\ Period[SENSOR] <= Period[HOUSEKEEPING]
  /\ NoValue \notin Samples

VARIABLES
  device,
  diag,      \* its entry in s_periph
  sdaTicks,  \* s_sdaLowTicks
  status,    \* the bits of the last PeriphDiag_update
  cpu1,      \* the nav core runs
  nav,       \* NavState: present, plausible, liveness added since the last get
  lastNav,   \* s_lastNav: present, plausible
  \* history variable
  clean      \* a good sensor and no trouble since the last update

navVars  == <<cpu1, nav, lastNav>>
diagVars == <<diag, sdaTicks, status>>
vars     == <<device, schedVars, sensorVars, navVars, diagVars, clean>>

-----------------------------------------------------------------------------
\* The sensor, with every register set whose absence shows, and alive.
Delivering == part.on /\ Shown \subseteq part.set /\ ~part.frozen

Init ==
  /\ SchedInit
  /\ device \in Devices
  /\ bus = FreeBus /\ part \in {[on |-> b, set |-> IF b THEN Registers ELSE {}, frozen |-> FALSE,
                             sample |-> 1] : b \in BOOLEAN}
  /\ present = part.on /\ recovery = 0 /\ step = 0
  /\ cpu1 = TRUE
  /\ nav = [present |-> FALSE, plausible |-> FALSE, moved |-> 0]
  /\ lastNav = [present |-> FALSE, plausible |-> FALSE]
  /\ diag = PeriphDiag_init /\ sdaTicks = 0 /\ status = {}
  /\ clean = FALSE

(* The other tasks of CPU0 only take time.  A pass reads the counter at    *)
(* its start, so time that passes inside it counts as passing after it.    *)
Time ==
  /\ pos = 0 /\ TimePasses
  /\ UNCHANGED <<device, sensorVars, navVars, diagVars, clean>>

Pass ==
  /\ step = 0 /\ (StartPass \/ EndPass)
  /\ UNCHANGED <<device, sensorVars, navVars, diagVars, clean>>

(* Between two tasks, and between two transactions of a bring-up.          *)
World ==
  /\ device = "i2c" /\ (pos \in WorldAt \/ step > 0)
  /\ SensorWorld
  /\ clean' = FALSE
  /\ UNCHANGED <<device, schedVars, navVars, diagVars>>

-----------------------------------------------------------------------------
(* SensorTask_baro, SensorTask_mag.                                        *)

Report(readOk, sample) ==
  /\ diag' = PeriphDiag_report(diag, readOk, Bmp581_plausible(sample), sample)
  /\ clean' = (clean /\ readOk)

SensorTask ==
  /\ step = 0
  /\ RunTask(SENSOR)
  /\ \/ device = "imu" /\ UNCHANGED <<sensorVars, diag, clean>>
     \/ /\ device = "i2c"
        /\ \/ /\ \E valid \in BOOLEAN : Absent(valid)
              /\ Report(FALSE, 0)
           \/ \E ok \in BOOLEAN, sample \in Samples :
                ReadData(ok, sample) /\ Report(ok, sample)
  /\ UNCHANGED <<device, navVars, sdaTicks, status>>

\* The rest of a bring-up, inside the same call.
BringUp ==
  /\ \E valid \in BOOLEAN : Bmp581_initStep(valid)
  /\ UNCHANGED <<device, schedVars, navVars, diagVars, clean>>

-----------------------------------------------------------------------------
(* CPU1.                                                                   *)

\* What the running total has gained since the last get is any of two values.
NavTask_step ==
  /\ device = "imu" /\ cpu1
  /\ \E p, q \in BOOLEAN, d \in 1 .. 2 : nav' = [present |-> p, plausible |-> q, moved |-> d]
  /\ UNCHANGED <<device, schedVars, sensorVars, cpu1, lastNav, diagVars, clean>>

Cpu1Stops ==
  /\ device = "imu" /\ cpu1
  /\ cpu1' = FALSE
  /\ UNCHANGED <<device, schedVars, sensorVars, nav, lastNav, diagVars, clean>>

-----------------------------------------------------------------------------
(* Housekeeping_100ms.                                                     *)

\* livenessDelta: nothing is gained when the get failed.
LivenessDelta(got) == IF got THEN nav.moved ELSE 0

(* A get that is torn twice leaves the last snapshot.                      *)
ReportImu(got) ==
  /\ lastNav' = IF got THEN [present |-> nav.present, plausible |-> nav.plausible]
                       ELSE lastNav
  /\ nav' = IF got THEN [nav EXCEPT !.moved = 0] ELSE nav
  /\ diag' = PeriphDiag_update(PeriphDiag_report(diag, lastNav'.present,
                                 lastNav'.plausible, LivenessDelta(got)))

Housekeeping_100ms ==
  /\ step = 0
  /\ RunTask(HOUSEKEEPING)
  /\ \/ /\ device = "imu"
        /\ \E got \in BOOLEAN : (cpu1 \/ got) /\ ReportImu(got)
     \/ /\ device = "i2c"
        /\ diag' = PeriphDiag_update(diag)
        /\ UNCHANGED <<nav, lastNav>>
  /\ sdaTicks' = pd_track(sdaTicks, ~i2c_busIdle(bus))
  /\ status' = StatusBits(diag')
                 \cup IF sdaTicks' >= PD_BUS_STUCK_TICKS THEN {"sda"} ELSE {}
  /\ clean' = (device = "i2c" /\ present /\ Delivering /\ bus = FreeBus)
  /\ UNCHANGED <<device, cpu1, sensorVars>>

-----------------------------------------------------------------------------
Next ==
  \/ Time \/ Pass \/ World
  \/ SensorTask \/ BringUp \/ Housekeeping_100ms
  \/ NavTask_step \/ Cpu1Stops

Spec == Init /\ [][Next]_vars

(* Time goes on (strongly fair, since here it stands still inside a pass), *)
(* the scheduler is called for ever and the tasks end.  The world and CPU1 *)
(* owe nothing.                                                            *)
Fairness ==
  /\ SF_vars(Time)
  /\ WF_vars(Pass \/ SensorTask \/ BringUp \/ Housekeeping_100ms)

FairSpec == Spec /\ Fairness

-----------------------------------------------------------------------------
(* A window in which the sensor was never in trouble raises no bit,        *)
(* whatever the other tasks did to the schedule meanwhile.                 *)
HealthyIsQuiet ==
  [][Housekeeping_100ms /\ clean => status' = {}]_vars

(* A sensor that is silent for good stays in the diagnosis: unplugged or   *)
(* shorted; for the IMU, absent, or CPU1 stopped, even with a good last    *)
(* snapshot.                                                               *)
Silent ==
  IF device = "i2c" THEN ~part.on \/ Shorted(bus) ELSE ~nav.present \/ ~cpu1

(* And one that is there and wrong for good: not configured or frozen; for *)
(* the IMU, implausible.  Not one that is silent and wrong in turn, each   *)
(* for less than its limit: each clears the other's count.                 *)
Wrong ==
  IF device = "i2c" THEN (present /\ ~Delivering) \/ part.frozen
                    ELSE nav.present /\ ~nav.plausible

DeadIsReported ==
  /\ <>[]Silent => <>[](status # {})
  /\ <>[]Wrong => <>[](status # {})

(* Once the world is calm a part that is powered and not shorted is found  *)
(* again, unless it refuses for ever: its identity is another one, or its  *)
(* status says that its trim is not loaded.                                *)
Refused ==
  /\ I2c_readReg(bus, part.on).ok
  /\ \/ SensorTask /\ ProbeDue /\ Absent(FALSE)
     \/ BringUp /\ step \in IDENTITY .. LAST_READ /\ Bmp581_initStep(FALSE)

PresenceReturns ==
  /\ <>[][~World /\ ~Refused]_vars
  /\ <>[](device = "i2c" /\ part.on /\ ~Shorted(bus))
  => <>[]present

(* And the diagnosis word tells the truth, as far as the data can show it. *)
DiagnosisSettles ==
  <>[][~World]_vars /\ <>[](device = "i2c")
    => <>[](status = {} <=> (present /\ Delivering))
=============================================================================
