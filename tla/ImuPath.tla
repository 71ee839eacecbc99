------------------------------ MODULE ImuPath ------------------------------
(***************************************************************************)
(* The flight chain of CPU1 from the data-ready edge to the estimator's    *)
(* status: the edge gate of NavTask_step, the driver's presence and        *)
(* re-initialisation machine (Icm42688.c), and the status part of          *)
(* Ahrs_update.  NavTask_step takes one snapshot of the edge at its start, *)
(* so an edge during the step is one after it; a dispatch is one action.   *)
(*                                                                         *)
(* Time is counted in dispatch periods.  STM times are kept as ages modulo *)
(* TICK_MOD, which is all the code derives from them.  A sample is its     *)
(* angular rate; whether it is corrupt is the state of the SPI line.  An   *)
(* uncorrupted sample aligns the estimator at once.                        *)
(***************************************************************************)
EXTENDS Integers

CONSTANTS
  TICK_MOD,                   \* modulus of the STM difference (2^32 of 10 ns, 42.9 s)
  NAVTASK_DT_MIN,             \* 0.2 ms
  NAVTASK_DT_MAX,             \* 0.2 s
  NAVTASK_NO_EDGE_TIMEOUT,    \* 20 ms
  NAVTASK_STUCK_VERIFY_TIMEOUT, \* 0.2 s
  SLEW,                       \* change of the rate allowed for one period
  TURN,                       \* most the airframe's rate changes in one period
  AHRS_FAULT_HOLD,            \* 50 ms
  AHRS_CAL_DEADLINE,          \* 10 s
  ICM42688_STUCK_HOLD,        \* 0.1 s
  ICM42688_VERIFY_PERIOD,     \* 0.2 s
  ICM42688_HOLD_DT_MAX,       \* 1 s
  ICM42688_RESET, ICM42688_WAKE, \* settling times of the part
  ICM42688_RECOVERY_PERIOD,   \* calls between two attempts (50)
  CFG_TABLE_SIZE,             \* registers to configure (6)
  PERIOD,                     \* a configured sensor gives an edge at least this often
  MaxGap,                     \* most periods between two dispatches
  GoodModes,                  \* SPI modes the part answers in
  MaxRate,                    \* angular rates flown are 0 .. MaxRate
  JumpRate                    \* the rate a corrupt word shows

NAVTASK_TIMEDOUT_FAULT_DT == 1

ASSUME ImuAssumption ==
  /\ {TICK_MOD, NAVTASK_DT_MIN, NAVTASK_DT_MAX, NAVTASK_NO_EDGE_TIMEOUT,
      NAVTASK_STUCK_VERIFY_TIMEOUT, AHRS_FAULT_HOLD, AHRS_CAL_DEADLINE,
      ICM42688_STUCK_HOLD, ICM42688_VERIFY_PERIOD, ICM42688_HOLD_DT_MAX,
      ICM42688_RESET, ICM42688_WAKE, ICM42688_RECOVERY_PERIOD, CFG_TABLE_SIZE,
      PERIOD, MaxGap} \subseteq Nat \ {0}
  /\ {SLEW, TURN, MaxRate, JumpRate} \subseteq Nat
  /\ NAVTASK_DT_MIN <= PERIOD /\ PERIOD <= NAVTASK_NO_EDGE_TIMEOUT
  /\ NAVTASK_NO_EDGE_TIMEOUT <= NAVTASK_DT_MAX
  /\ GoodModes \subseteq {0, 3} /\ GoodModes # {}

(* The longest time for which RUNNING may outlive the last usable input:   *)
(* the edge timeout, what an edge too early to count hides, and the fault  *)
(* hold, of which a dispatch without an edge fills one period.             *)
FedBound == NAVTASK_NO_EDGE_TIMEOUT + NAVTASK_DT_MIN - 1 + MaxGap * AHRS_FAULT_HOLD

(* CPU1 dispatches far within the edge timeout (0.5 ms against 20 ms), and *)
(* an outage is declared long before the tick counter has gone round.      *)
ASSUME WrapAssumption ==
  /\ MaxGap <= NAVTASK_NO_EDGE_TIMEOUT
  /\ FedBound + MaxGap < TICK_MOD

VARIABLES
  stale,         \* now - edgeTicks
  newEdge,       \* edgeSeq # s_lastEdgeSeq
  lastAge,       \* now - s_lastEdgeTicks
  lag,           \* periods since the last dispatch
  s_lastGyroSensor,
  icm,           \* the statics of Icm42688.c
  pollAge,       \* now - s_icm42688LastAbsentPollTicks
  s_ahrsState, s_faultHoldS, s_calElapsedS,
  \* the sensor and its wires
  chip,          \* off, reset (registers at their defaults), awake, running
  spi,           \* good, jump, sentinel, flat (MISO stuck), fail (transfers time out)
  int1,          \* the data-ready wire works
  gyro,          \* the true angular rate
  \* history variables
  gap,           \* true time from s_lastEdgeTicks to the edge not yet consumed
  lastTrue,      \* true time since s_lastEdgeTicks, up to TICK_MOD
  sinceUsable    \* true time since a dispatch had usable input, once RUNNING

edge    == <<stale, newEdge, lastAge, gap, lastTrue>>
ahrs    == <<s_ahrsState, s_faultHoldS, s_calElapsedS>>
world   == <<chip, spi, int1, gyro>>
vars    == <<edge, lag, s_lastGyroSensor, icm, pollAge, ahrs, world, sinceUsable>>

AtMost(n, limit) == IF n < limit THEN n ELSE limit
Later(age) == (age + 1) % TICK_MOD
Since(age, earlier) == (age - earlier + TICK_MOD) % TICK_MOD

-----------------------------------------------------------------------------
(* The driver.  A record of its statics goes in, the next one comes out.   *)

\* All but the two clocks of the presence triggers.
Icm42688_reinitStart(d) ==
  [d EXCEPT !.present = FALSE, !.reinit = "IDLE", !.wait = 0, !.pwrWritten = FALSE,
            !.cfgIndex = 0, !.modeRetried = FALSE, !.failedCalls = 0, !.mode = 0]

(* What a transfer in the driver's SPI mode meets.                         *)
Line ==
  IF spi = "fail" THEN "fail"
  ELSE IF chip = "off" \/ icm.mode \notin GoodModes THEN "flat"
  ELSE IF spi = "flat" \/ chip = "running" THEN spi
  ELSE "sentinel"

IdAnswered == Line \in {"good", "jump", "sentinel"}
WriteSent  == Line # "fail"
WriteLands == IdAnswered

Held(clock, dt, limit) ==
  IF dt > 0 /\ dt < ICM42688_HOLD_DT_MAX THEN AtMost(clock + dt, limit) ELSE clock

Failed(d) == [d EXCEPT !.reinit = "FAILED", !.failedCalls = 0]

\* Mutant: the other SPI mode is never tried.
IdCheck_OneMode(d) ==
  IF IdAnswered
  THEN [d EXCEPT !.reinit = "WAKE_WAIT", !.pwrWritten = FALSE, !.wait = 0]
  ELSE Failed(d)

IdCheck(d) ==
  IF IdAnswered
  THEN [d EXCEPT !.reinit = "WAKE_WAIT", !.pwrWritten = FALSE, !.wait = 0]
  ELSE IF ~d.modeRetried
  THEN [d EXCEPT !.reinit = "IDLE", !.modeRetried = TRUE, !.mode = 3]
  ELSE Failed(d)

WakeWait(d, dt) ==
  IF ~d.pwrWritten
  THEN IF WriteSent THEN [d EXCEPT !.pwrWritten = TRUE]
       ELSE [Failed(d) EXCEPT !.pwrWritten = TRUE]
  ELSE LET wait == Held(d.wait, dt, ICM42688_WAKE)
       IN  [d EXCEPT !.wait = wait,
                     !.reinit = IF wait = ICM42688_WAKE THEN "CFG" ELSE @,
                     !.cfgIndex = IF wait = ICM42688_WAKE THEN 0 ELSE @]

Configure(d) ==
  IF ~WriteSent THEN Failed(d)
  ELSE IF d.cfgIndex + 1 < CFG_TABLE_SIZE THEN [d EXCEPT !.cfgIndex = @ + 1]
  ELSE [d EXCEPT !.cfgIndex = @ + 1, !.reinit = "DONE", !.present = TRUE,
                 !.stuckHold = 0, !.verifySince = ICM42688_VERIFY_PERIOD]

BackOff(d) ==
  IF d.failedCalls + 1 < ICM42688_RECOVERY_PERIOD THEN [d EXCEPT !.failedCalls = @ + 1]
  ELSE [d EXCEPT !.reinit = "IDLE", !.modeRetried = FALSE, !.failedCalls = 0, !.mode = 0]

Icm42688_reinitStep(d, dt) ==
  CASE d.reinit = "IDLE"       -> [d EXCEPT !.reinit = "RESET_WAIT", !.wait = 0]
    [] d.reinit = "RESET_WAIT" ->
         LET wait == Held(d.wait, dt, ICM42688_RESET)
         IN  [d EXCEPT !.wait = wait,
                       !.reinit = IF wait = ICM42688_RESET THEN "ID_CHECK" ELSE @]
    [] d.reinit = "ID_CHECK"   -> IdCheck(d)
    [] d.reinit = "WAKE_WAIT"  -> WakeWait(d, dt)
    [] d.reinit = "CFG"        -> Configure(d)
    [] d.reinit = "FAILED"     -> BackOff(d)
    [] d.reinit = "DONE"       -> d

(* What the call of this dispatch does to the part.                        *)
ChipAfterStep ==
  IF ~WriteLands THEN chip
  ELSE IF icm.reinit = "IDLE" THEN "reset"
  ELSE IF icm.reinit = "WAKE_WAIT" /\ ~icm.pwrWritten /\ chip = "reset" THEN "awake"
  ELSE IF icm.reinit = "CFG" /\ icm.cfgIndex + 1 = CFG_TABLE_SIZE /\ chip = "awake"
  THEN "running"
  ELSE chip

Icm42688_read(d) ==
  IF ~d.present THEN Icm42688_reinitStep(d, pollAge)
  ELSE IF Line = "fail" THEN Icm42688_reinitStart(d)
  ELSE d

ReadOk == icm.present /\ Line \notin {"fail", "sentinel"}

Sample == CASE Line = "good" -> gyro [] Line = "jump" -> JumpRate [] OTHER -> 0

Icm42688_plausible == ReadOk /\ Line # "flat"

Icm42688_verifyPresence(d, dt) ==
  IF ~d.present THEN [d EXCEPT !.verifySince = 0]
  ELSE LET since == Held(d.verifySince, dt, ICM42688_VERIFY_PERIOD)
       IN  IF since < ICM42688_VERIFY_PERIOD THEN [d EXCEPT !.verifySince = since]
           ELSE IF IdAnswered THEN [d EXCEPT !.verifySince = 0]
           ELSE Icm42688_reinitStart([d EXCEPT !.verifySince = 0])

\* Mutant: an implausible sample is forgotten by the next dispatch.
Icm42688_reportPlausibility_NoHold(d, plausible, dt) == [d EXCEPT !.stuckHold = 0]

Icm42688_reportPlausibility(d, plausible, dt) ==
  IF ~d.present \/ plausible THEN [d EXCEPT !.stuckHold = 0]
  ELSE LET held == Held(d.stuckHold, dt, ICM42688_STUCK_HOLD)
       IN  IF held < ICM42688_STUCK_HOLD THEN [d EXCEPT !.stuckHold = held]
           ELSE Icm42688_reinitStart([d EXCEPT !.stuckHold = held])

-----------------------------------------------------------------------------
(* The estimator's status.                                                 *)

AHRS_DT_MAX == NAVTASK_DT_MAX

\* A vector of gravity's length is needed, and a flat line reads zeros.
Align == s_ahrsState' = IF Line = "flat" THEN "ALIGNING" ELSE "RUNNING"

(* A clean window ends the calibration, the deadline ends it in any case;  *)
(* its clock is not read again then, and is put back here.                 *)
Calibrate(dt) ==
  \/ /\ s_calElapsedS + dt < AHRS_CAL_DEADLINE
     /\ s_calElapsedS' = s_calElapsedS + dt
     /\ s_ahrsState' = "CALIBRATING"
  \/ s_calElapsedS' = 0 /\ Align

ComesBackAs == IF s_ahrsState = "NO_SENSOR" THEN "ALIGNING" ELSE s_ahrsState

Ahrs_fault(dt) ==
  /\ s_faultHoldS' = AtMost(s_faultHoldS + dt, AHRS_FAULT_HOLD)
  /\ s_ahrsState' = IF s_faultHoldS' = AHRS_FAULT_HOLD THEN "NO_SENSOR" ELSE s_ahrsState
  /\ UNCHANGED s_calElapsedS

Ahrs_sample(dt) ==
  /\ s_faultHoldS' = 0
  /\ \/ ComesBackAs = "CALIBRATING" /\ Calibrate(dt)
     \/ ComesBackAs = "ALIGNING" /\ Align /\ UNCHANGED s_calElapsedS
     \/ ComesBackAs = "RUNNING" /\ s_ahrsState' = "RUNNING" /\ UNCHANGED s_calElapsedS

Ahrs_update(dt, valid) ==
  \/ ~valid /\ Ahrs_fault(dt)
  \/ valid /\ dt < AHRS_DT_MAX /\ Ahrs_sample(dt)
  \/ /\ valid /\ dt >= AHRS_DT_MAX
     /\ s_faultHoldS' = 0
     /\ UNCHANGED <<s_ahrsState, s_calElapsedS>>

-----------------------------------------------------------------------------
(* NavTask_step.                                                           *)

TimedOut == stale > NAVTASK_NO_EDGE_TIMEOUT

elapsedTime == IF newEdge THEN Since(lastAge, stale) ELSE 0

DtShort == elapsedTime > 0 /\ elapsedTime < NAVTASK_DT_MIN
DtValid == elapsedTime \in NAVTASK_DT_MIN .. NAVTASK_DT_MAX

Verifies == ~newEdge /\ stale >= NAVTASK_STUCK_VERIFY_TIMEOUT

AfterVerify ==
  LET d == Icm42688_read(icm)
  IN  IF Verifies THEN Icm42688_verifyPresence(d, NAVTASK_TIMEDOUT_FAULT_DT) ELSE d

Present == IF Verifies THEN AfterVerify.present ELSE ReadOk

NavTask_gyroSlewOk ==
  /\ Sample - s_lastGyroSensor <= SLEW * elapsedTime
  /\ s_lastGyroSensor - Sample <= SLEW * elapsedTime

ahrsInputOk == DtValid /\ Present /\ NavTask_gyroSlewOk

\* Mutant: the fault hold gets the zero interval of a dispatch without an edge.
CallDt_Zero == elapsedTime

CallDt == IF newEdge THEN elapsedTime ELSE NAVTASK_TIMEDOUT_FAULT_DT

Quiet ==
  /\ ~newEdge /\ ~TimedOut
  /\ UNCHANGED <<edge, s_lastGyroSensor, icm, pollAge, ahrs, chip, sinceUsable>>

\* Mutant: the interval to the next edge is cut short by the duplicate.
Duplicate_MovesBase ==
  /\ newEdge /\ DtShort
  /\ newEdge' = FALSE /\ gap' = 0 /\ lastAge' = stale
  /\ UNCHANGED <<stale, lastTrue, s_lastGyroSensor, icm, pollAge, ahrs, chip, sinceUsable>>

Duplicate ==
  /\ newEdge /\ DtShort
  /\ newEdge' = FALSE /\ gap' = 0
  /\ UNCHANGED <<stale, lastAge, lastTrue, s_lastGyroSensor, icm, pollAge, ahrs,
                 chip, sinceUsable>>

Work ==
  /\ newEdge \/ TimedOut
  /\ ~DtShort
  /\ newEdge'  = FALSE
  /\ lastAge'  = IF newEdge THEN stale ELSE lastAge
  /\ lastTrue' = IF newEdge THEN stale ELSE lastTrue
  /\ s_lastGyroSensor' = IF ahrsInputOk THEN Sample ELSE s_lastGyroSensor
  /\ Ahrs_update(CallDt, ahrsInputOk)
  /\ sinceUsable' = IF ahrsInputOk \/ s_ahrsState' # "RUNNING" THEN 0 ELSE sinceUsable
  /\ icm' = Icm42688_reportPlausibility(AfterVerify, Icm42688_plausible, CallDt)
  /\ chip' = IF icm.present THEN chip ELSE ChipAfterStep
  /\ pollAge' = 0 /\ gap' = 0
  /\ UNCHANGED stale

NavTask_step ==
  /\ lag > 0
  /\ lag' = 0
  /\ Quiet \/ Duplicate \/ Work
  /\ UNCHANGED <<spi, int1, gyro>>

-----------------------------------------------------------------------------
(* Time, the interrupt, and what can befall the sensor.                    *)

EdgesCome == chip = "running" /\ int1

Tick ==
  /\ lag < MaxGap
  /\ EdgesCome => stale # PERIOD
  /\ lag' = lag + 1
  /\ stale' = Later(stale) /\ lastAge' = Later(lastAge)
  /\ lastTrue' = AtMost(lastTrue + 1, TICK_MOD)
  /\ sinceUsable' = IF s_ahrsState = "RUNNING" THEN AtMost(sinceUsable + 1, FedBound + 1)
                     ELSE 0
  /\ pollAge' = IF icm.present THEN 0 ELSE Later(pollAge)
  /\ gyro' \in {r \in 0 .. MaxRate : r - gyro <= TURN /\ gyro - r <= TURN}
  /\ UNCHANGED <<newEdge, gap, s_lastGyroSensor, icm, ahrs, chip, spi, int1>>

imuDrdyIsr ==
  /\ EdgesCome /\ stale # 0
  /\ stale' = 0 /\ newEdge' = TRUE /\ gap' = lastTrue
  /\ UNCHANGED <<lastAge, lastTrue, lag, s_lastGyroSensor, icm, pollAge, ahrs, world,
                 sinceUsable>>

Disturbance ==
  /\ \/ chip # "off" /\ chip' \in {"off", "reset"} /\ UNCHANGED <<spi, int1>>
     \/ chip = "off" /\ chip' = "reset" /\ UNCHANGED <<spi, int1>>
     \/ /\ spi' \in {"good", "jump", "sentinel", "flat", "fail"} \ {spi}
        /\ UNCHANGED <<chip, int1>>
     \/ int1' = ~int1 /\ UNCHANGED <<chip, spi>>
  /\ UNCHANGED <<edge, lag, s_lastGyroSensor, icm, pollAge, ahrs, gyro, sinceUsable>>

(* After core1_main: the bounded pump of Icm42688_init has found the part  *)
(* or has failed in both modes.                                            *)
Init ==
  /\ \/ /\ chip = "running" /\ spi = "good"
        /\ \E m \in GoodModes :
             /\ m = 3 => 0 \notin GoodModes
             /\ icm = [present |-> TRUE, reinit |-> "DONE", wait |-> ICM42688_WAKE,
                       pwrWritten |-> TRUE, cfgIndex |-> CFG_TABLE_SIZE,
                       modeRetried |-> m = 3, failedCalls |-> 0, mode |-> m,
                       stuckHold |-> 0, verifySince |-> ICM42688_VERIFY_PERIOD]
     \/ /\ chip \in {"off", "reset"} /\ spi \in {"good", "flat", "fail"}
        /\ icm = [present |-> FALSE, reinit |-> "FAILED", wait |-> ICM42688_RESET,
                  pwrWritten |-> FALSE, cfgIndex |-> 0, modeRetried |-> TRUE,
                  failedCalls |-> 0, mode |-> 3, stuckHold |-> 0, verifySince |-> 0]
  /\ int1 \in BOOLEAN /\ gyro = 0
  /\ stale \in 0 .. (TICK_MOD - 1) /\ lastAge = stale /\ newEdge = FALSE
  /\ gap = 0 /\ lastTrue = TICK_MOD
  /\ lag = 0 /\ s_lastGyroSensor = 0 /\ pollAge = 0
  /\ s_ahrsState = "CALIBRATING" /\ s_faultHoldS = 0 /\ s_calElapsedS = 0
  /\ sinceUsable = 0

Next == NavTask_step \/ Tick \/ imuDrdyIsr \/ Disturbance

(* Time passes, however often the wires change; CPU1 calls the task for    *)
(* ever; an edge that is due comes.                                        *)
Fairness == SF_vars(Tick) /\ WF_vars(NavTask_step) /\ WF_vars(imuDrdyIsr)

Spec     == Init /\ [][Next]_vars
FairSpec == Spec /\ Fairness

-----------------------------------------------------------------------------
(* The interval the running estimator integrates is the true time between  *)
(* the two edges, across missed edges, duplicates and outages: a silence   *)
(* of about one turn of the tick counter, which looks like an ordinary     *)
(* interval, always finds the estimator out of RUNNING.                    *)
IntegratesTrueInterval ==
  [][Work /\ s_ahrsState = "RUNNING" /\ ahrsInputOk => elapsedTime = gap]_vars

(* RUNNING is a claim about the last samples: it is given up within the    *)
(* edge timeout and the fault hold, however the input failed.              *)
RunningMeansFed ==
  s_ahrsState = "RUNNING" => sinceUsable <= FedBound

(* A sensor lost for good is declared, whether it stops answering, keeps   *)
(* giving edges with nothing on the bus, or keeps answering without edges. *)
DeadIsDeclared ==
  \/ <>[](spi \in {"flat", "fail"})
  \/ <>[](chip = "off")
  \/ <>[]~int1
  => <>[](s_ahrsState = "NO_SENSOR")

(* Whatever has happened to the sensor, its wires and the driver's machine *)
(* before: if all end up good and stay so, and the rate is near the last   *)
(* one accepted, the estimator runs.                                       *)
Recovers ==
  /\ <>[][~Disturbance]_vars
  /\ <>[](chip # "off" /\ spi = "good" /\ int1 /\ s_lastGyroSensor = gyro)
  => <>[](s_ahrsState = "RUNNING")

(* NavTask.c:92-94 promises that a real manoeuvre spanning a longer        *)
(* interval is never mistaken for a corrupt sample.  The bound is scaled by *)
(* the time since the last edge consumed, the rate it is compared with is  *)
(* that of the last sample accepted.                                       *)
ManoeuvreIsAccepted ==
  [][Work /\ DtValid /\ elapsedTime = gap /\ Line = "good" /\ icm.present
       => NavTask_gyroSlewOk]_vars
=============================================================================
