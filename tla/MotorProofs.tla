---------------------------- MODULE MotorProofs ----------------------------
(***************************************************************************)
(* Proofs about Motor.tla, for every number of motors, beep delay, link    *)
(* timeout, scheduling lag and tick modulus the assumptions admit.         *)
(***************************************************************************)
EXTENDS MCMotor, TLAPS

-----------------------------------------------------------------------------
(* The speed table.                                                        *)

\* Every speed up to the last breakpoint lies in the segment lower_index names.
LEMMA SegmentFound ==
  ASSUME NEW r \in Nat, r # 0, r <= 8257
  PROVE  /\ lower_index(r) \in Segments
         /\ bp_speed[lower_index(r)] < r
         /\ r <= bp_speed[lower_index(r) + 1]
<1> DEFINE Last(i) == /\ bp_speed[i] < r
                      /\ \A j \in Segments : bp_speed[j] < r => j <= i
<1>1. Segments = 1 .. 9
  BY DEF Segments, MOTOR_TABLE_SIZE
<1>2. \E i \in Segments : Last(i)
  <2>1. CASE r <= 1    BY <1>1, <2>1 DEF bp_speed
  <2>2. CASE 1 < r /\ r <= 129      BY <1>1, <2>2 DEF bp_speed
  <2>3. CASE 129 < r /\ r <= 1300   BY <1>1, <2>3 DEF bp_speed
  <2>4. CASE 1300 < r /\ r <= 2629  BY <1>1, <2>4 DEF bp_speed
  <2>5. CASE 2629 < r /\ r <= 3829  BY <1>1, <2>5 DEF bp_speed
  <2>6. CASE 3829 < r /\ r <= 4929  BY <1>1, <2>6 DEF bp_speed
  <2>7. CASE 4929 < r /\ r <= 5929  BY <1>1, <2>7 DEF bp_speed
  <2>8. CASE 5929 < r /\ r <= 6814  BY <1>1, <2>8 DEF bp_speed
  <2>9. CASE 6814 < r  BY <1>1, <2>9 DEF bp_speed
  <2>10. r \in Int  OBVIOUS
  <2> HIDE DEF Last
  <2> QED BY <2>1, <2>2, <2>3, <2>4, <2>5, <2>6, <2>7, <2>8, <2>9, <2>10
<1>3. lower_index(r) = CHOOSE i \in Segments : Last(i)
  BY DEF lower_index
<1>4. lower_index(r) \in Segments /\ Last(lower_index(r))
  BY <1>2, <1>3
<1>5. r <= bp_speed[lower_index(r) + 1]
  BY <1>1, <1>4 DEF bp_speed
<1> QED BY <1>4, <1>5

\* The table maps a stopped motor to the stop command ...
LEMMA ConvertZero == Motor_convert_speed_to_throttle(0) = 0
<1>1. lower_index(0) = 1
  BY DEF lower_index
<1> QED
  BY <1>1 DEF Motor_convert_speed_to_throttle, Motor_interpolate,
              bp_speed, td_throttle, MOTOR_TABLE_SIZE

\* ... and every speed to a throttle of the calibrated range.
LEMMA ConvertRange ==
  ASSUME NEW r \in UInt16
  PROVE  Motor_convert_speed_to_throttle(r) \in 0 .. 1600
<1>1. CASE r = 0
  BY <1>1, ConvertZero
<1>2. CASE r > 8257
  BY <1>2 DEF Motor_convert_speed_to_throttle, bp_speed, td_throttle,
              MOTOR_TABLE_SIZE
<1>3. CASE r # 0 /\ r <= 8257
  <2> DEFINE i == lower_index(r)
  <2>0. r \in Nat
    BY DEF UInt16
  <2>1. i \in 1 .. 9 /\ bp_speed[i] < r /\ r <= bp_speed[i + 1]
    BY <1>3, <2>0, SegmentFound DEF Segments, MOTOR_TABLE_SIZE
  <2>2. Motor_convert_speed_to_throttle(r)
          = Motor_interpolate(bp_speed[i], bp_speed[i + 1],
                              td_throttle[i], td_throttle[i + 1], r)
    BY <1>3 DEF Motor_convert_speed_to_throttle, bp_speed, MOTOR_TABLE_SIZE, UInt16
  <2> HIDE DEF i
  <2>4. CASE i = 1  BY <2>1, <2>2, <2>4 DEF Motor_interpolate, bp_speed, td_throttle, UInt16
  <2>5. CASE i = 2  BY <2>1, <2>2, <2>5 DEF Motor_interpolate, bp_speed, td_throttle, UInt16
  <2>6. CASE i = 3  BY <2>1, <2>2, <2>6 DEF Motor_interpolate, bp_speed, td_throttle, UInt16
  <2>7. CASE i = 4  BY <2>1, <2>2, <2>7 DEF Motor_interpolate, bp_speed, td_throttle, UInt16
  <2>8. CASE i = 5  BY <2>1, <2>2, <2>8 DEF Motor_interpolate, bp_speed, td_throttle, UInt16
  <2>9. CASE i = 6  BY <2>1, <2>2, <2>9 DEF Motor_interpolate, bp_speed, td_throttle, UInt16
  <2>10. CASE i = 7  BY <2>1, <2>2, <2>10 DEF Motor_interpolate, bp_speed, td_throttle, UInt16
  <2>11. CASE i = 8  BY <2>1, <2>2, <2>11 DEF Motor_interpolate, bp_speed, td_throttle, UInt16
  <2>12. CASE i = 9  BY <2>1, <2>2, <2>12 DEF Motor_interpolate, bp_speed, td_throttle, UInt16
  <2> QED BY <2>1, <2>4, <2>5, <2>6, <2>7, <2>8, <2>9, <2>10, <2>11, <2>12
<1> QED BY <1>1, <1>2, <1>3 DEF UInt16

\* Truncating division gives the integer part of the line through two breakpoints.
LEMMA Truncated ==
  ASSUME NEW i \in 1 .. 9, NEW r \in Nat, bp_speed[i] <= r, r <= bp_speed[i + 1],
         Motor_convert_speed_to_throttle(r)
           = Motor_interpolate(bp_speed[i], bp_speed[i + 1],
                               td_throttle[i], td_throttle[i + 1], r)
  PROVE  OnLine(i, r)
<1> USE DEF OnLine, T, Motor_interpolate, bp_speed, td_throttle
<1>1. CASE i = 1  BY <1>1
<1>2. CASE i = 2  BY <1>2
<1>3. CASE i = 3  BY <1>3
<1>4. CASE i = 4  BY <1>4
<1>5. CASE i = 5  BY <1>5
<1>6. CASE i = 6  BY <1>6
<1>7. CASE i = 7  BY <1>7
<1>8. CASE i = 8  BY <1>8
<1>9. CASE i = 9  BY <1>9
<1> QED BY <1>1, <1>2, <1>3, <1>4, <1>5, <1>6, <1>7, <1>8, <1>9

LEMMA LineFound ==
  ASSUME NEW r \in Nat, r <= 8257
  PROVE  \E i \in Segments : OnLine(i, r)
<1> DEFINE i == lower_index(r)
<1>1. Segments = 1 .. 9 /\ bp_speed[MOTOR_TABLE_SIZE] = 8257
  BY DEF Segments, MOTOR_TABLE_SIZE, bp_speed
<1>2. Motor_convert_speed_to_throttle(r)
        = Motor_interpolate(bp_speed[i], bp_speed[i + 1],
                            td_throttle[i], td_throttle[i + 1], r)
  BY <1>1 DEF Motor_convert_speed_to_throttle
<1>3. CASE r = 0
  <2>1. i = 1 /\ bp_speed[1] = 0 /\ bp_speed[2] = 1
    BY <1>3 DEF lower_index, bp_speed
  <2> HIDE DEF i
  <2>2. OnLine(1, r)
    BY <1>2, <1>3, <2>1, Truncated
  <2> QED BY <1>1, <2>2
<1>4. CASE r # 0
  <2>1. i \in 1 .. 9 /\ bp_speed[i] < r /\ r <= bp_speed[i + 1]
    BY <1>1, <1>4, SegmentFound
  <2> HIDE DEF i
  <2>2. \A k \in 1 .. 9 : bp_speed[k] \in Nat
    BY DEF bp_speed
  <2>3. OnLine(i, r)
    BY <1>2, <2>1, <2>2, Truncated
  <2> QED BY <1>1, <2>1, <2>3
<1> QED BY <1>3, <1>4

SpeedType == speed_rpm \in Nat

(* The table on every speed, beyond the 16 bits of the calibration block   *)
(* too: the segment search and the truncation give the integer part of the *)
(* line, and the last throttle above the last breakpoint.                  *)
THEOREM TableSafety == MCSpec => []TableIsTruncatedLine
<1>1. MCInit => SpeedType
  BY DEF MCInit, SpeedType
<1>2. SpeedType /\ [MCNext]_MCvars => SpeedType'
  BY DEF MCNext, MCvars, Arming, NextSpeed, SpeedType
<1>3. SpeedType => TableIsTruncatedLine
  <2>1. bp_speed[MOTOR_TABLE_SIZE] = 8257
    BY DEF bp_speed, MOTOR_TABLE_SIZE
  <2>2. ASSUME SpeedType, speed_rpm > 8257
        PROVE  TableIsTruncatedLine
    BY <2>1, <2>2 DEF TableIsTruncatedLine, T, Motor_convert_speed_to_throttle
  <2>3. ASSUME SpeedType, speed_rpm <= 8257
        PROVE  TableIsTruncatedLine
    BY <2>1, <2>3, LineFound DEF TableIsTruncatedLine, SpeedType
  <2> QED BY <2>2, <2>3 DEF SpeedType
<1> QED BY <1>1, <1>2, <1>3, PTL DEF MCSpec

-----------------------------------------------------------------------------
(* The inductive invariant.  Its parts say why a session cannot outlive    *)
(* its operator.                                                           *)

\* The measured age of the last frame is its true age until the tick wraps.
AgeIsTrue ==
  sinceCmd < TICK_MOD => Elapsed(g_TickCount_1ms, s_lastCmdMs) = sinceCmd

\* An ARM word that stands while DISARMED was written since the last run.
ArmIsFresh ==
  state = "DISARMED" /\ motorCmd = MOTOR_CMD_ARM => armWritten /\ sinceCmd <= lag

\* The call counter never runs far past the delay the current motor waits for.
BeepBound ==
  motor_beep_counter <= DSHOT_BEEP_DELAY * (motor_id + 1) + 2 * motor_id
                          + (IF motor_beep[motor_id] THEN 1 ELSE 0)

\* The statics of Motor_beep: clean outside INIT, a prefix of the motors inside.
BeepPrefix ==
  /\ state # "INIT" => motor_id = 0 /\ motor_beep = AllMotors(FALSE)
  /\ \A m \in Motors : m > motor_id => ~motor_beep[m]
  /\ state = "INIT" => \A m \in Motors : m < motor_id => m \in beeped
  /\ state = "INIT" /\ motor_beep[motor_id] =>
       /\ motor_id \in beeped
       /\ motor_beep_counter >= DSHOT_BEEP_DELAY * (motor_id + 1)

MaxSilence ==
  MaxLag * (DSHOT_BEEP_DELAY * DSHOT_MEND + 2 * DSHOT_MEND + 1) + XCP_LINK_TIMEOUT_MS

\* How long the operator can have been silent when INIT and ARMED are running.
SilenceBound ==
  /\ state = "INIT"  => sinceCmd <= MaxLag * (motor_beep_counter + 1) + lag
  /\ state = "ARMED" => sinceCmd <= MaxSilence + lag

\* A standing manual setpoint is one of the current session.
SetpointIsFresh ==
  state # "FAILSAFE" => \A m \in Motors : motorManualSp[m] # 0 => m \in spFresh

Inv ==
  /\ TypeOK /\ AgeIsTrue /\ ArmIsFresh /\ BeepBound /\ BeepPrefix
  /\ SilenceBound /\ SetpointIsFresh /\ StaleSetpointNeverFlies

-----------------------------------------------------------------------------
(* Type correctness.                                                       *)

LEMMA CeilingInRange ==
  ASSUME TypeOK
  PROVE  CeilingNow \in DSHOT_CMD_THROTTLE_MIN .. DSHOT_CMD_THROTTLE_MAX
BY DEF TypeOK, CeilingNow

LEMMA ClampRange ==
  ASSUME NEW s \in Nat,
         NEW c \in DSHOT_CMD_THROTTLE_MIN .. DSHOT_CMD_THROTTLE_MAX
  PROVE  /\ Motor_calc_clamp(s, c) \in {0} \cup (DSHOT_CMD_THROTTLE_MIN .. c)
         /\ s = 0 => Motor_calc_clamp(s, c) = 0
BY DEF Motor_calc_clamp, DSHOT_CMD_THROTTLE_MIN, DSHOT_CMD_THROTTLE_MAX,
       DSHOT_CMD_MOTOR_STOP

\* A setpoint is a 16-bit value, and a nonzero one is the motor's manual word.
LEMMA SetpointType ==
  ASSUME TypeOK, NEW m \in Motors
  PROVE  /\ Setpoint(m) \in Nat
         /\ motorManualSp[m] = 0 => Setpoint(m) = 0
<1>1. motorManualSp[m] \in UInt16
  BY DEF TypeOK
<1>2. Motor_convert_speed_to_throttle(motorManualSp[m]) \in 0 .. 1600
  BY <1>1, ConvertRange
<1>3. \/ Setpoint(m) = 0
      \/ Setpoint(m) = motorManualSp[m]
      \/ Setpoint(m) = Motor_convert_speed_to_throttle(motorManualSp[m])
  BY ConvertZero DEF Setpoint
<1>4. motorManualSp[m] \in Nat
  <2>1. \A x \in UInt16 : x \in Nat
    BY DEF UInt16
  <2> QED BY <1>1, <2>1, Zenon
<1>5. Setpoint(m) \in Nat
  <2>1. Motor_convert_speed_to_throttle(motorManualSp[m]) \in Nat
    BY <1>2
  <2> QED BY <1>3, <1>4, <2>1
<1>6. ASSUME motorManualSp[m] = 0 PROVE Setpoint(m) = 0
  BY <1>3, <1>6, ConvertZero
<1> QED
  BY <1>5, <1>6

\* The tick counter turns over later than any sequence of the state machine lasts.
LEMMA TickIsLong ==
  /\ DSHOT_BEEP_DELAY * DSHOT_MEND \in Nat
  /\ MaxSilence \in Nat
  /\ MaxSilence + MaxLag < TICK_MOD
<1>1. DSHOT_BEEP_DELAY * DSHOT_MEND \in Nat
  BY MotorAssumption
<1> DEFINE B == DSHOT_BEEP_DELAY * DSHOT_MEND + 2 * DSHOT_MEND + 1
<1>2. B \in Nat
  BY <1>1, MotorAssumption
<1>3. MaxLag * B \in Nat /\ MaxLag * (B + 1) = MaxLag * B + MaxLag
  <2> HIDE DEF B
  <2> QED BY <1>2, MotorAssumption
<1>4. B + 1 = DSHOT_BEEP_DELAY * DSHOT_MEND + 2 * DSHOT_MEND + 2
  BY <1>1, MotorAssumption
<1>5. MaxSilence = MaxLag * B + XCP_LINK_TIMEOUT_MS
  BY DEF MaxSilence
<1>6. MaxLag * (B + 1) + XCP_LINK_TIMEOUT_MS < TICK_MOD
  BY <1>4, TickAssumption
<1> HIDE DEF B
<1> QED BY <1>1, <1>3, <1>5, <1>6, MotorAssumption

LEMMA TypeInit == Init => TypeOK
<1> SUFFICES ASSUME Init PROVE TypeOK
  OBVIOUS
<1>1. 0 \in Motors /\ 0 \in Tick /\ TICK_MOD \in 0 .. TICK_MOD /\ 0 \in 0 .. MaxLag
  BY MotorAssumption, TickIsLong DEF Motors, Tick
<1>3. 0 \in UInt16 /\ 1 \in UInt16 /\ 1600 \in UInt16
  BY DEF UInt16
<1>4. /\ DSHOT_CMD_THROTTLE_MIN \in DSHOT_CMD_THROTTLE_MIN .. DSHOT_CMD_THROTTLE_MAX
      /\ 0 \in 0 .. DSHOT_CMD_THROTTLE_MAX
  BY DEF DSHOT_CMD_THROTTLE_MIN, DSHOT_CMD_THROTTLE_MAX
<1>5. /\ motorManualSp \in [Motors -> UInt16]
      /\ motor_beep \in [Motors -> BOOLEAN]
      /\ dshot_command_set \in [Motors -> 0 .. DSHOT_CMD_THROTTLE_MAX]
  <2>1. /\ motorManualSp = [m \in Motors |-> 0]
        /\ motor_beep = [m \in Motors |-> FALSE]
        /\ dshot_command_set = [m \in Motors |-> 0]
    BY DEF Init, AllMotors
  <2>2. motorManualSp \in [Motors -> UInt16]
    BY <1>3, <2>1
  <2>3. motor_beep \in [Motors -> BOOLEAN]
    BY <2>1
  <2>4. dshot_command_set \in [Motors -> 0 .. DSHOT_CMD_THROTTLE_MAX]
    BY <1>4, <2>1
  <2> QED BY <2>2, <2>3, <2>4
<1>6. dshot_stream_allowed \in BOOLEAN /\ armWritten \in BOOLEAN
  <2>1. dshot_stream_allowed = FALSE /\ armWritten = FALSE
    BY DEF Init
  <2> QED BY <2>1, Zenon
<1> QED BY <1>1, <1>3, <1>4, <1>5, <1>6 DEF Init, TypeOK, States

\* The frame of a received XCP command keeps the types.
LEMMA FrameType ==
  ASSUME TypeOK, FrameArrives
  PROVE  /\ g_TickCount_1ms' \in Tick /\ s_lastCmdMs' \in Tick
         /\ sinceCmd' \in 0 .. TICK_MOD /\ lag' \in 0 .. MaxLag
         /\ state' \in States
         /\ s_ceiling' \in DSHOT_CMD_THROTTLE_MIN .. DSHOT_CMD_THROTTLE_MAX
         /\ motor_beep' \in [Motors -> BOOLEAN]
         /\ motor_beep_counter' \in Nat /\ motor_id' \in Motors
         /\ dshot_command_set' \in [Motors -> 0 .. DSHOT_CMD_THROTTLE_MAX]
         /\ dshot_stream_allowed' \in BOOLEAN /\ beeped' \subseteq Motors
BY MotorAssumption DEF TypeOK, FrameArrives, beeps, out, Tick

LEMMA DownloadType ==
  ASSUME TypeOK, XcpDownload
  PROVE  TypeOK'
<1>1. FrameArrives
  BY DEF XcpDownload
<1>2. CASE \E v \in CmdWrites :
             /\ motorCmd' = v
             /\ armWritten' = (v = MOTOR_CMD_ARM)
             /\ UNCHANGED <<motorManual, motorManualSp, motorSpMax, motorSpMode, spFresh>>
  BY <1>1, <1>2, FrameType, MotorAssumption DEF TypeOK
<1>3. CASE \E v \in ManualWrites :
             /\ motorManual' = v
             /\ UNCHANGED <<motorCmd, motorManualSp, motorSpMax, motorSpMode,
                            armWritten, spFresh>>
  BY <1>1, <1>3, FrameType, MotorAssumption DEF TypeOK
<1>4. CASE \E m \in Motors, v \in SpWrites :
             /\ motorManualSp' = [motorManualSp EXCEPT ![m] = v]
             /\ spFresh' = spFresh \cup {m}
             /\ UNCHANGED <<motorCmd, motorManual, motorSpMax, motorSpMode, armWritten>>
  BY <1>1, <1>4, FrameType, MotorAssumption DEF TypeOK
<1>5. CASE \E v \in SpMaxWrites :
             /\ motorSpMax' = v
             /\ UNCHANGED <<motorCmd, motorManual, motorManualSp, motorSpMode,
                            armWritten, spFresh>>
  BY <1>1, <1>5, FrameType, MotorAssumption DEF TypeOK
<1>6. CASE \E v \in SpModeWrites :
             /\ motorSpMode' = v
             /\ UNCHANGED <<motorCmd, motorManual, motorManualSp, motorSpMax,
                            armWritten, spFresh>>
  BY <1>1, <1>6, FrameType, MotorAssumption DEF TypeOK
<1> QED BY <1>2, <1>3, <1>4, <1>5, <1>6 DEF XcpDownload

\* What one run of the 1 ms task leaves of the frame, whichever handler it is.
LEMMA TaskFrame ==
  ASSUME TypeOK, Task_Dshot
  PROVE  /\ g_TickCount_1ms' \in Tick /\ s_lastCmdMs' \in Tick
         /\ sinceCmd' \in 0 .. TICK_MOD /\ lag' \in 0 .. MaxLag
         /\ armWritten' \in BOOLEAN
         /\ s_ceiling' \in DSHOT_CMD_THROTTLE_MIN .. DSHOT_CMD_THROTTLE_MAX
         /\ motorSpMax' \in UInt16
<1>1. g_TickCount_1ms' \in Tick /\ s_lastCmdMs' \in Tick
      /\ sinceCmd' \in 0 .. TICK_MOD /\ lag' \in 0 .. MaxLag
  BY MotorAssumption DEF TypeOK, Task_Dshot, link
<1>2. armWritten' \in BOOLEAN
  <2>1. armWritten' = FALSE
    BY DEF Task_Dshot
  <2> QED BY <2>1, Zenon
<1>3. s_ceiling' = CeilingNow /\ motorSpMax' = CeilingNow
  BY DEF Task_Dshot, Motor_task, ValidateCeiling
<1>4. \A c \in DSHOT_CMD_THROTTLE_MIN .. DSHOT_CMD_THROTTLE_MAX : c \in UInt16
  BY DEF DSHOT_CMD_THROTTLE_MIN, DSHOT_CMD_THROTTLE_MAX, UInt16
<1> QED BY <1>1, <1>2, <1>3, <1>4, CeilingInRange

\* A command set of stops, and one of stops with a single beep, are well typed.
LEMMA StopType ==
  /\ AllMotors(DSHOT_CMD_MOTOR_STOP) \in [Motors -> 0 .. DSHOT_CMD_THROTTLE_MAX]
  /\ \A i \in Motors : [AllMotors(DSHOT_CMD_MOTOR_STOP) EXCEPT ![i] = DSHOT_CMD_BEEP1]
                         \in [Motors -> 0 .. DSHOT_CMD_THROTTLE_MAX]
BY DEF AllMotors, DSHOT_CMD_MOTOR_STOP, DSHOT_CMD_BEEP1, DSHOT_CMD_THROTTLE_MAX

LEMMA ClearedSetpoints == AllMotors(0) \in [Motors -> UInt16]
BY DEF AllMotors, UInt16

\* The command of an armed motor is a command.
LEMMA CommandType ==
  ASSUME TypeOK, NEW m \in Motors
  PROVE  Motor_calc_clamp(Setpoint(m), CeilingNow) \in 0 .. DSHOT_CMD_THROTTLE_MAX
<1>1. Setpoint(m) \in Nat
  BY SetpointType
<1>2. PICK c \in DSHOT_CMD_THROTTLE_MIN .. DSHOT_CMD_THROTTLE_MAX : c = CeilingNow
  BY CeilingInRange
<1>3. Motor_calc_clamp(Setpoint(m), c) \in {0} \cup (DSHOT_CMD_THROTTLE_MIN .. c)
  BY <1>1, ClampRange
<1>4. {0} \cup (DSHOT_CMD_THROTTLE_MIN .. c) \subseteq 0 .. DSHOT_CMD_THROTTLE_MAX
  BY DEF DSHOT_CMD_THROTTLE_MIN, DSHOT_CMD_THROTTLE_MAX
<1>5. Motor_calc_clamp(Setpoint(m), c) \in 0 .. DSHOT_CMD_THROTTLE_MAX
  BY <1>3, <1>4, Zenon
<1> QED BY <1>2, <1>5, Zenon

\* TRUE and FALSE as values of a variable.
LEMMA BooleanValue ==
  ASSUME NEW b, b = TRUE \/ b = FALSE
  PROVE  b \in BOOLEAN
BY Zenon

LEMMA BeepType ==
  ASSUME TypeOK, Motor_beep
  PROVE  /\ dshot_command_set' \in [Motors -> 0 .. DSHOT_CMD_THROTTLE_MAX]
         /\ motor_beep' \in [Motors -> BOOLEAN]
         /\ motor_beep_counter' \in Nat
         /\ motor_id' \in Motors
         /\ beeped' \subseteq Motors
<1> USE DEF TypeOK
<1>1. CASE BeepDue
  <2>1. /\ dshot_command_set' = [AllMotors(DSHOT_CMD_MOTOR_STOP)
                                   EXCEPT ![motor_id] = DSHOT_CMD_BEEP1]
        /\ motor_beep' = [motor_beep EXCEPT ![motor_id] = TRUE]
        /\ motor_beep_counter' = motor_beep_counter + 1
        /\ beeped' = beeped \cup {motor_id}
        /\ motor_id' = motor_id
    BY <1>1 DEF Motor_beep, BeepDue, LastBeepDone, CountedOn
  <2> QED BY <2>1, StopType
<1>2. CASE ~BeepDue /\ ~LastBeepDone
  <2>1. /\ dshot_command_set' = AllMotors(DSHOT_CMD_MOTOR_STOP)
        /\ motor_id' = IF motor_beep[motor_id] THEN motor_id + 1 ELSE motor_id
        /\ motor_beep_counter' = motor_beep_counter + 1
        /\ motor_beep' = motor_beep /\ beeped' = beeped
    BY <1>2 DEF Motor_beep, CountedOn
  <2>2. motor_id' \in Motors
    BY <1>2, <2>1, MotorAssumption DEF LastBeepDone, Motors
  <2> QED BY <2>1, <2>2, StopType
<1>3. CASE LastBeepDone
  <2>1. ~BeepDue
    BY <1>3 DEF BeepDue, LastBeepDone
  <2>2. /\ dshot_command_set' = AllMotors(DSHOT_CMD_MOTOR_STOP)
        /\ motor_id' = 0
        /\ motor_beep' = AllMotors(FALSE)
        /\ motor_beep_counter' = 1
        /\ beeped' = beeped
    BY <1>3, <2>1 DEF Motor_beep
  <2>3. 0 \in Motors /\ AllMotors(FALSE) \in [Motors -> BOOLEAN]
    BY MotorAssumption DEF Motors, AllMotors
  <2> QED BY <2>2, <2>3, StopType
<1> QED BY <1>1, <1>2, <1>3

\* The words and the command set after a run of the armed state.
LEMMA ArmedType ==
  ASSUME TypeOK, Motor_state_armed
  PROVE  /\ dshot_command_set' \in [Motors -> 0 .. DSHOT_CMD_THROTTLE_MAX]
         /\ motorCmd' \in Nat /\ motorManual' \in Nat
         /\ motorManualSp' \in [Motors -> UInt16]
         /\ state' \in States /\ spFresh' \subseteq Motors
<1> USE DEF TypeOK, States
<1>1. CASE ~Xcp_linkAlive
  BY <1>1, StopType DEF Motor_state_armed
<1>2. CASE Xcp_linkAlive /\ motorCmd # MOTOR_CMD_ARM
  <2>1. /\ dshot_command_set' = AllMotors(DSHOT_CMD_MOTOR_STOP)
        /\ motorManual' = 0 /\ motorManualSp' = AllMotors(0)
        /\ state' = "DISARMED" /\ spFresh' = {} /\ motorCmd' = motorCmd
    BY <1>2 DEF Motor_state_armed
  <2> QED BY <2>1, StopType, ClearedSetpoints
<1>3. CASE Xcp_linkAlive /\ motorCmd = MOTOR_CMD_ARM
  <2>1. /\ dshot_command_set' = [m \in Motors |-> Motor_calc_clamp(Setpoint(m), CeilingNow)]
        /\ UNCHANGED <<state, motorCmd, motorManual, motorManualSp, spFresh>>
    BY <1>3 DEF Motor_state_armed
  <2> QED BY <2>1, CommandType
<1> QED BY <1>1, <1>2, <1>3

LEMMA TaskType ==
  ASSUME TypeOK, Task_Dshot
  PROVE  TypeOK'
<1>1. CASE Motor_state_disarmed
  <2>1. dshot_stream_allowed' \in BOOLEAN
    BY <1>1, BooleanValue DEF Motor_state_disarmed
  <2> QED BY <1>1, <2>1, TaskFrame, StopType DEF Motor_state_disarmed, TypeOK, States, beeps
<1>2. CASE Motor_state_init
  <2>1. dshot_stream_allowed' \in BOOLEAN
    BY <1>2, BooleanValue DEF Motor_state_init
  <2>2. state' \in States
    BY <1>2 DEF Motor_state_init, States
  <2>3. Motor_beep
    BY <1>2 DEF Motor_state_init
  <2>4. UNCHANGED <<motorCmd, motorManual, motorManualSp, motorSpMode, spFresh>>
    BY <1>2 DEF Motor_state_init
  <2> QED BY <2>1, <2>2, <2>3, <2>4, TaskFrame, BeepType DEF TypeOK
<1>3. CASE Motor_state_armed
  <2>1. dshot_stream_allowed' \in BOOLEAN
    BY <1>3, BooleanValue DEF Motor_state_armed
  <2>2. UNCHANGED <<motorSpMode, beeps, beeped>>
    BY <1>3 DEF Motor_state_armed
  <2> QED BY <1>3, <2>1, <2>2, TaskFrame, ArmedType DEF TypeOK, beeps
<1>4. CASE Motor_state_failsafe
  <2>1. dshot_stream_allowed' \in BOOLEAN
    BY <1>4, BooleanValue DEF Motor_state_failsafe
  <2> QED BY <1>4, <2>1, TaskFrame, StopType, ClearedSetpoints
          DEF Motor_state_failsafe, TypeOK, States, beeps
<1> QED BY <1>1, <1>2, <1>3, <1>4 DEF Task_Dshot, Motor_task

LEMMA TypeStep == TypeOK /\ [Next]_vars => TypeOK'
<1> SUFFICES ASSUME TypeOK, [Next]_vars PROVE TypeOK'
  OBVIOUS
<1>1. CASE TickIsr
  BY <1>1, MotorAssumption, TickIsLong
  DEF TypeOK, TickIsr, NextTick, Tick, cal, beeps, out
<1>2. CASE XcpPoll
  BY <1>2, FrameType DEF XcpPoll, TypeOK, cal
<1>3. CASE XcpDownload
  BY <1>3, DownloadType
<1>4. CASE Task_Dshot
  BY <1>4, TaskType
<1>5. CASE UNCHANGED vars
  BY <1>5 DEF TypeOK, vars, cal, beeps, link, out
<1> QED BY <1>1, <1>2, <1>3, <1>4, <1>5 DEF Next

(* Type correctness, and with it the ranges the 16-bit and 32-bit words of *)
(* the code need, for every number of motors and every timing.             *)
THEOREM TypeCorrect == Spec => []TypeOK
BY TypeInit, TypeStep, PTL DEF Spec

-----------------------------------------------------------------------------
(* The parts of the inductive invariant, one lemma per part.               *)

LEMMA InvInit == Init => Inv
<1> SUFFICES ASSUME Init PROVE Inv
  OBVIOUS
<1>1. TypeOK
  BY TypeInit
<1>2. AgeIsTrue /\ ArmIsFresh /\ SilenceBound
  <2>1. sinceCmd = TICK_MOD /\ state = "DISARMED" /\ motorCmd = 0
    BY DEF Init
  <2> QED BY <2>1, MotorAssumption
          DEF AgeIsTrue, ArmIsFresh, SilenceBound, MOTOR_CMD_ARM
<1>3. BeepBound
  BY MotorAssumption DEF Init, BeepBound, AllMotors
<1>4. BeepPrefix
  BY DEF Init, BeepPrefix, AllMotors, Motors
<1>5. SetpointIsFresh /\ StaleSetpointNeverFlies
  BY DEF Init, SetpointIsFresh, StaleSetpointNeverFlies, Throttle, AllMotors,
         DSHOT_CMD_THROTTLE_MIN
<1> QED BY <1>1, <1>2, <1>3, <1>4, <1>5 DEF Inv

LEMMA AgeStep ==
  ASSUME TypeOK, TypeOK', AgeIsTrue, [Next]_vars
  PROVE  AgeIsTrue'
<1>1. CASE TickIsr
  <2>1. /\ g_TickCount_1ms' = NextTick(g_TickCount_1ms)
        /\ sinceCmd' = IF sinceCmd < TICK_MOD THEN sinceCmd + 1 ELSE TICK_MOD
        /\ s_lastCmdMs' = s_lastCmdMs
    BY <1>1 DEF TickIsr
  <2>2. g_TickCount_1ms \in Tick /\ s_lastCmdMs \in Tick /\ sinceCmd \in 0 .. TICK_MOD
    BY DEF TypeOK
  <2> QED BY <2>1, <2>2, MotorAssumption DEF AgeIsTrue, NextTick, Elapsed, Tick
<1>2. CASE XcpPoll \/ XcpDownload
  <2>1. s_lastCmdMs' = g_TickCount_1ms /\ sinceCmd' = 0
        /\ g_TickCount_1ms' = g_TickCount_1ms
    BY <1>2 DEF XcpPoll, XcpDownload, FrameArrives
  <2>2. g_TickCount_1ms \in Tick
    BY DEF TypeOK
  <2> QED BY <2>1, <2>2, MotorAssumption DEF AgeIsTrue, Elapsed, Tick
<1>3. CASE Task_Dshot
  BY <1>3 DEF AgeIsTrue, Task_Dshot, link
<1>4. CASE UNCHANGED vars
  BY <1>4 DEF AgeIsTrue, vars, link
<1> QED BY <1>1, <1>2, <1>3, <1>4 DEF Next

LEMMA ArmStep ==
  ASSUME TypeOK, TypeOK', ArmIsFresh, [Next]_vars
  PROVE  ArmIsFresh'
<1>1. CASE TickIsr
  <2>1. sinceCmd \in 0 .. TICK_MOD /\ lag \in 0 .. MaxLag
    BY DEF TypeOK
  <2>2. /\ sinceCmd' = IF sinceCmd < TICK_MOD THEN sinceCmd + 1 ELSE TICK_MOD
        /\ lag' = lag + 1 /\ UNCHANGED <<state, motorCmd, armWritten>>
    BY <1>1 DEF TickIsr, cal
  <2> QED BY <2>1, <2>2, MotorAssumption DEF ArmIsFresh
<1>2. CASE XcpPoll
  BY <1>2 DEF TypeOK, ArmIsFresh, XcpPoll, FrameArrives, cal
<1>3. CASE XcpDownload
  BY <1>3 DEF TypeOK, ArmIsFresh, XcpDownload, FrameArrives
<1>4. CASE Task_Dshot
  <2>1. state' = "DISARMED" => motorCmd' # MOTOR_CMD_ARM
    BY <1>4 DEF Task_Dshot, Motor_task, Motor_state_disarmed, Motor_state_init,
                Motor_state_armed, Motor_state_failsafe, MOTOR_CMD_ARM
  <2> QED BY <2>1 DEF ArmIsFresh
<1>5. CASE UNCHANGED vars
  BY <1>5 DEF ArmIsFresh, vars, link, cal
<1> QED BY <1>1, <1>2, <1>3, <1>4, <1>5 DEF Next

LEMMA SetpointStep ==
  ASSUME TypeOK, TypeOK', SetpointIsFresh, [Next]_vars
  PROVE  SetpointIsFresh'
<1>1. CASE TickIsr \/ XcpPoll
  BY <1>1 DEF SetpointIsFresh, TickIsr, XcpPoll, FrameArrives, cal
<1>2. CASE XcpDownload
  BY <1>2 DEF TypeOK, SetpointIsFresh, XcpDownload, FrameArrives
<1>3. CASE Task_Dshot
  <2>1. CASE Motor_state_disarmed \/ Motor_state_init
    BY <2>1 DEF SetpointIsFresh, Motor_state_disarmed, Motor_state_init
  <2>2. CASE Motor_state_armed
    BY <2>2 DEF SetpointIsFresh, Motor_state_armed, AllMotors
  <2>3. CASE Motor_state_failsafe
    BY <2>3 DEF SetpointIsFresh, Motor_state_failsafe, AllMotors
  <2> QED BY <1>3, <2>1, <2>2, <2>3 DEF Task_Dshot, Motor_task
<1>4. CASE UNCHANGED vars
  BY <1>4 DEF SetpointIsFresh, vars, cal
<1> QED BY <1>1, <1>2, <1>3, <1>4 DEF Next

\* One call of Motor_beep keeps the statics in step with the motors beeped.
LEMMA BeepCall ==
  ASSUME TypeOK, BeepBound, BeepPrefix, state = "INIT", Motor_beep
  PROVE  /\ BeepBound'
         /\ \A m \in Motors : m > motor_id' => ~motor_beep'[m]
         /\ ~LastBeepDone =>
              /\ \A m \in Motors : m < motor_id' => m \in beeped'
              /\ motor_beep'[motor_id'] =>
                   /\ motor_id' \in beeped'
                   /\ motor_beep_counter' >= DSHOT_BEEP_DELAY * (motor_id' + 1)
         /\ LastBeepDone => motor_id' = 0 /\ motor_beep' = AllMotors(FALSE)
<1> DEFINE Wait(i) == DSHOT_BEEP_DELAY * (i + 1)
<1>1. /\ motor_id \in Nat /\ motor_id \in Motors /\ motor_beep_counter \in Nat
      /\ motor_beep \in [Motors -> BOOLEAN]
  BY MotorAssumption DEF TypeOK, Motors
<1>2. /\ Wait(motor_id) \in Nat /\ DSHOT_BEEP_DELAY \in Nat
      /\ Wait(motor_id) = DSHOT_BEEP_DELAY + motor_id * DSHOT_BEEP_DELAY
      /\ Wait(motor_id + 1) = Wait(motor_id) + DSHOT_BEEP_DELAY
      /\ Wait(0) = DSHOT_BEEP_DELAY /\ Wait(0) >= 1
  BY <1>1, MotorAssumption
<1>3. /\ motor_beep_counter <= Wait(motor_id) + 2 * motor_id
                                 + (IF motor_beep[motor_id] THEN 1 ELSE 0)
      /\ \A m \in Motors : m > motor_id => ~motor_beep[m]
      /\ \A m \in Motors : m < motor_id => m \in beeped
      /\ motor_beep[motor_id] =>
           motor_id \in beeped /\ motor_beep_counter >= Wait(motor_id)
  BY DEF BeepBound, BeepPrefix
<1>4. BeepDue <=> ~motor_beep[motor_id] /\ motor_beep_counter >= Wait(motor_id)
  BY <1>2 DEF BeepDue
<1>5. BeepBound' <=> motor_beep_counter' <= Wait(motor_id') + 2 * motor_id'
                                 + (IF motor_beep'[motor_id'] THEN 1 ELSE 0)
  BY DEF BeepBound
<1> HIDE DEF Wait
<1>6. CASE BeepDue
  <2>1. /\ motor_beep' = [motor_beep EXCEPT ![motor_id] = TRUE]
        /\ motor_beep_counter' = motor_beep_counter + 1
        /\ beeped' = beeped \cup {motor_id}
        /\ motor_id' = motor_id /\ ~LastBeepDone
    BY <1>6 DEF Motor_beep, BeepDue, LastBeepDone, CountedOn
  <2>2. motor_beep'[motor_id'] /\ \A m \in Motors : m > motor_id => ~motor_beep'[m]
    BY <1>1, <1>3, <2>1
  <2>3. BeepBound'
    BY <1>1, <1>2, <1>3, <1>4, <1>5, <1>6, <2>1, <2>2
  <2>4. motor_beep_counter' >= Wait(motor_id')
    BY <1>1, <1>2, <1>4, <1>6, <2>1
  <2> QED BY <1>3, <2>1, <2>2, <2>3, <2>4 DEF Wait
<1>7. CASE ~BeepDue /\ ~LastBeepDone /\ ~motor_beep[motor_id]
  <2>1. /\ motor_id' = motor_id /\ motor_beep_counter' = motor_beep_counter + 1
        /\ motor_beep' = motor_beep /\ beeped' = beeped
    BY <1>7 DEF Motor_beep, CountedOn
  <2>2. BeepBound'
    BY <1>1, <1>2, <1>4, <1>5, <1>7, <2>1
  <2>3. ~motor_beep'[motor_id']
    BY <1>7, <2>1
  <2>4. /\ \A m \in Motors : m > motor_id' => ~motor_beep'[m]
        /\ \A m \in Motors : m < motor_id' => m \in beeped'
    BY <1>3, <2>1
  <2> QED BY <1>7, <2>2, <2>3, <2>4
<1>8. CASE ~BeepDue /\ ~LastBeepDone /\ motor_beep[motor_id]
  <2>1. /\ motor_id' = motor_id + 1 /\ motor_beep_counter' = motor_beep_counter + 1
        /\ motor_beep' = motor_beep /\ beeped' = beeped
    BY <1>8 DEF Motor_beep, CountedOn
  <2>2. motor_id + 1 \in Motors
    <3>1. motor_id + 1 < DSHOT_MEND
      BY <1>1, <1>8, MotorAssumption DEF LastBeepDone
    <3> QED BY <1>1, <3>1, MotorAssumption DEF Motors
  <2>3. ~motor_beep[motor_id + 1]
    BY <1>1, <1>3, <2>2
  <2>4. BeepBound'
    BY <1>1, <1>2, <1>3, <1>5, <1>8, <2>1, <2>3
  <2>5. \A m \in Motors : m \in Int
    BY DEF Motors
  <2>6. \A m \in Motors : m > motor_id' => ~motor_beep'[m]
    BY <1>1, <1>3, <2>1, <2>5
  <2>7. \A m \in Motors : m < motor_id' => m \in beeped'
    <3> SUFFICES ASSUME NEW m \in Motors, m < motor_id + 1 PROVE m \in beeped
      BY <2>1
    <3>1. m < motor_id \/ m = motor_id
      BY <1>1, <2>5
    <3> QED BY <1>3, <1>8, <3>1
  <2>8. ~motor_beep'[motor_id']
    BY <2>1, <2>3
  <2> QED BY <1>8, <2>4, <2>6, <2>7, <2>8
<1>9. CASE LastBeepDone
  <2>1. ~BeepDue
    BY <1>9 DEF BeepDue, LastBeepDone
  <2>2. /\ motor_id' = 0 /\ motor_beep' = AllMotors(FALSE)
        /\ motor_beep_counter' = 1
    BY <1>9, <2>1 DEF Motor_beep
  <2>3. 0 \in Motors /\ \A m \in Motors : ~motor_beep'[m]
    BY <2>2, MotorAssumption DEF Motors, AllMotors
  <2>4. BeepBound'
    <3>1. Wait(motor_id') = Wait(0) /\ ~motor_beep'[motor_id'] /\ motor_id' = 0
      BY <2>2, <2>3
    <3> QED BY <1>2, <1>5, <2>2, <3>1
  <2> QED BY <1>9, <2>2, <2>3, <2>4
<1> QED BY <1>6, <1>7, <1>8, <1>9

LEMMA BeepStep ==
  ASSUME TypeOK, BeepBound, BeepPrefix, [Next]_vars
  PROVE  BeepBound' /\ BeepPrefix'
<1>1. CASE UNCHANGED <<state, beeps, beeped>>
  BY <1>1 DEF BeepBound, BeepPrefix, beeps
<1>2. CASE TickIsr \/ XcpPoll \/ XcpDownload
  <2>1. UNCHANGED <<state, beeps, beeped>>
    BY <1>2 DEF TickIsr, XcpPoll, XcpDownload, FrameArrives
  <2> QED BY <1>1, <2>1
<1>3. CASE Task_Dshot /\ state = "INIT"
  <2>1. Motor_beep /\ state' = IF LastBeepDone THEN "ARMED" ELSE "INIT"
    BY <1>3 DEF Task_Dshot, Motor_task, Motor_state_disarmed, Motor_state_init,
                Motor_state_armed, Motor_state_failsafe
  <2> QED BY <1>3, <2>1, BeepCall DEF BeepPrefix
<1>4. CASE Task_Dshot /\ state # "INIT"
  <2>1. UNCHANGED beeps
    BY <1>4 DEF Task_Dshot, Motor_task, Motor_state_disarmed, Motor_state_init,
                Motor_state_armed, Motor_state_failsafe
  <2>2. BeepBound'
    BY <2>1 DEF BeepBound, beeps
  <2>3. motor_id = 0 /\ motor_beep = AllMotors(FALSE)
    BY <1>4 DEF BeepPrefix
  <2>4. \A m \in Motors : ~motor_beep[m] /\ ~(m < 0)
    BY <2>3 DEF AllMotors, Motors
  <2>5. motor_id \in Motors
    BY DEF TypeOK
  <2> QED BY <2>1, <2>2, <2>3, <2>4, <2>5 DEF BeepPrefix, beeps
<1>5. CASE UNCHANGED vars
  BY <1>1, <1>5 DEF vars
<1> QED BY <1>2, <1>3, <1>4, <1>5 DEF Next

\* The link test of a running session measures the operator's true silence.
LEMMA AliveIsRecent ==
  ASSUME TypeOK, AgeIsTrue, SilenceBound, state = "ARMED", Xcp_linkAlive
  PROVE  sinceCmd < XCP_LINK_TIMEOUT_MS
<1>1. sinceCmd \in Nat /\ lag \in 0 .. MaxLag
  BY MotorAssumption DEF TypeOK
<1>2. sinceCmd <= MaxSilence + lag
  BY DEF SilenceBound
<1>3. sinceCmd < TICK_MOD
  BY <1>1, <1>2, TickIsLong, MotorAssumption
<1>4. Elapsed(g_TickCount_1ms, s_lastCmdMs) = sinceCmd
  BY <1>3 DEF AgeIsTrue
<1> QED BY <1>4 DEF Xcp_linkAlive

LEMMA SilenceStep ==
  ASSUME TypeOK, TypeOK', AgeIsTrue, ArmIsFresh, BeepBound, SilenceBound, [Next]_vars
  PROVE  SilenceBound'
<1>1. /\ sinceCmd \in Nat /\ sinceCmd <= TICK_MOD /\ lag \in 0 .. MaxLag
      /\ MaxLag \in Nat /\ motor_beep_counter \in Nat /\ TICK_MOD \in Nat
  BY MotorAssumption DEF TypeOK
<1>2. /\ MaxLag * (motor_beep_counter + 1) \in Nat
      /\ MaxLag * (motor_beep_counter + 2) = MaxLag * (motor_beep_counter + 1) + MaxLag
  BY <1>1
<1>3. MaxSilence \in Nat
  BY TickIsLong
<1>4. CASE TickIsr
  <2>1. /\ sinceCmd' = IF sinceCmd < TICK_MOD THEN sinceCmd + 1 ELSE TICK_MOD
        /\ lag' = lag + 1 /\ state' = state
        /\ motor_beep_counter' = motor_beep_counter
    BY <1>4 DEF TickIsr, beeps
  <2>2. sinceCmd' <= sinceCmd + 1
    BY <1>1, <2>1
  <2> HIDE DEF MaxSilence
  <2>3. state' = "INIT" => sinceCmd' <= MaxLag * (motor_beep_counter + 1) + lag'
    BY <1>1, <1>2, <2>1, <2>2 DEF SilenceBound
  <2>4. state' = "ARMED" => sinceCmd' <= MaxSilence + lag'
    BY <1>1, <1>3, <2>1, <2>2 DEF SilenceBound
  <2> QED BY <2>1, <2>3, <2>4 DEF SilenceBound, MaxSilence
<1>5. CASE XcpPoll \/ XcpDownload
  <2>1. sinceCmd' = 0 /\ lag' = lag /\ motor_beep_counter' = motor_beep_counter
    BY <1>5 DEF XcpPoll, XcpDownload, FrameArrives, beeps
  <2>2. 0 <= MaxLag * (motor_beep_counter + 1) + lag /\ 0 <= MaxSilence + lag
    BY <1>1, <1>2, <1>3
  <2> QED BY <2>1, <2>2 DEF SilenceBound, MaxSilence
<1>6. CASE Task_Dshot /\ state = "DISARMED"
  <2>1. /\ state' \in {"INIT", "DISARMED"} /\ sinceCmd' = sinceCmd /\ lag' = 0
        /\ motor_beep_counter' = motor_beep_counter
        /\ state' = "INIT" => motorCmd = MOTOR_CMD_ARM
    BY <1>6 DEF Task_Dshot, Motor_task, Motor_state_disarmed, Motor_state_init,
                Motor_state_armed, Motor_state_failsafe, link, beeps
  <2>2. state' = "INIT" => sinceCmd <= MaxLag
    BY <1>1, <1>6, <2>1 DEF ArmIsFresh
  <2>3. MaxLag <= MaxLag * (motor_beep_counter + 1)
    BY <1>1
  <2>4. state' = "INIT" => sinceCmd' <= MaxLag * (motor_beep_counter + 1) + 0
    BY <1>1, <1>2, <2>1, <2>2, <2>3
  <2> QED BY <2>1, <2>4 DEF SilenceBound
<1>7. CASE Task_Dshot /\ state = "INIT"
  <2>1. Motor_beep /\ state' = IF LastBeepDone THEN "ARMED" ELSE "INIT"
    BY <1>7 DEF Task_Dshot, Motor_task, Motor_state_disarmed, Motor_state_init,
                Motor_state_armed, Motor_state_failsafe
  <2>2. sinceCmd' = sinceCmd /\ lag' = 0
    BY <1>7 DEF Task_Dshot, link
  <2>3. sinceCmd <= MaxLag * (motor_beep_counter + 1) + lag
    BY <1>7 DEF SilenceBound
  <2>4. sinceCmd <= MaxLag * (motor_beep_counter + 2)
    BY <1>1, <1>2, <2>3
  <2>5. CASE ~LastBeepDone
    <3>1. motor_beep_counter' = motor_beep_counter + 1
      BY <2>1, <2>5 DEF Motor_beep, CountedOn
    <3>2. MaxLag * (motor_beep_counter' + 1) = MaxLag * (motor_beep_counter + 2)
      BY <1>1, <3>1
    <3>3. state' = "INIT"
      BY <2>1, <2>5
    <3>4. sinceCmd' <= MaxLag * (motor_beep_counter' + 1) + lag'
      BY <1>1, <1>2, <2>2, <2>4, <3>2
    <3> QED BY <3>3, <3>4 DEF SilenceBound
  <2>6. CASE LastBeepDone
    <3>1. motor_id = DSHOT_MEND - 1 /\ motor_beep[motor_id]
      BY <2>6, MotorAssumption DEF LastBeepDone, TypeOK, Motors
    <3>2. DSHOT_BEEP_DELAY * (motor_id + 1) = DSHOT_BEEP_DELAY * DSHOT_MEND
      BY <3>1, MotorAssumption
    <3>3. motor_beep_counter + 2
            <= DSHOT_BEEP_DELAY * DSHOT_MEND + 2 * DSHOT_MEND + 1
      BY <1>1, <3>1, <3>2, TickIsLong, MotorAssumption DEF BeepBound
    <3>4. \A a, b \in Nat : a <= b => MaxLag * a <= MaxLag * b
      BY <1>1
    <3>5. MaxLag * (motor_beep_counter + 2)
            <= MaxLag * (DSHOT_BEEP_DELAY * DSHOT_MEND + 2 * DSHOT_MEND + 1)
      BY <1>1, <3>3, <3>4, TickIsLong, MotorAssumption
    <3>6. MaxLag * (DSHOT_BEEP_DELAY * DSHOT_MEND + 2 * DSHOT_MEND + 1) <= MaxSilence
      <4> DEFINE P == MaxLag * (DSHOT_BEEP_DELAY * DSHOT_MEND + 2 * DSHOT_MEND + 1)
      <4>1. P \in Nat
        BY TickIsLong, MotorAssumption
      <4>2. MaxSilence = P + XCP_LINK_TIMEOUT_MS
        BY DEF MaxSilence
      <4> HIDE DEF P
      <4>3. P <= MaxSilence
        BY <4>1, <4>2, MotorAssumption
      <4> QED BY <4>3 DEF P
    <3>7. sinceCmd <= MaxSilence
      <4> DEFINE P == MaxLag * (DSHOT_BEEP_DELAY * DSHOT_MEND + 2 * DSHOT_MEND + 1)
                 Q == MaxLag * (motor_beep_counter + 2)
      <4>1. P \in Nat /\ Q \in Nat
        BY <1>1, TickIsLong, MotorAssumption
      <4>2. sinceCmd <= Q /\ Q <= P /\ P <= MaxSilence
        BY <2>4, <3>5, <3>6
      <4> HIDE DEF P, Q
      <4> QED BY <1>1, <1>3, <4>1, <4>2
    <3>8. state' = "ARMED"
      BY <2>1, <2>6
    <3>9. sinceCmd' <= MaxSilence + lag'
      BY <1>1, <1>3, <2>2, <3>7
    <3> QED BY <3>8, <3>9 DEF SilenceBound, MaxSilence
  <2> QED BY <2>5, <2>6
<1>8. CASE Task_Dshot /\ state = "ARMED"
  <2>1. /\ state' # "INIT" /\ sinceCmd' = sinceCmd /\ lag' = 0
        /\ state' = "ARMED" => Xcp_linkAlive
    BY <1>8 DEF Task_Dshot, Motor_task, Motor_state_disarmed, Motor_state_init,
                Motor_state_armed, Motor_state_failsafe, link
  <2>2. state' = "ARMED" => sinceCmd < XCP_LINK_TIMEOUT_MS
    BY <1>8, <2>1, AliveIsRecent
  <2>3. XCP_LINK_TIMEOUT_MS <= MaxSilence
    <3>1. MaxLag * (DSHOT_BEEP_DELAY * DSHOT_MEND + 2 * DSHOT_MEND + 1) \in Nat
      BY TickIsLong, MotorAssumption
    <3> QED BY <3>1, MotorAssumption DEF MaxSilence
  <2>4. state' = "ARMED" => sinceCmd' <= MaxSilence + lag'
    BY <1>1, <1>3, <2>1, <2>2, <2>3, MotorAssumption
  <2> QED BY <2>1, <2>4 DEF SilenceBound, MaxSilence
<1>9. CASE Task_Dshot /\ state = "FAILSAFE"
  <2>1. state' \notin {"INIT", "ARMED"}
    BY <1>9 DEF Task_Dshot, Motor_task, Motor_state_disarmed, Motor_state_init,
                Motor_state_armed, Motor_state_failsafe
  <2> QED BY <2>1 DEF SilenceBound
<1>10. CASE UNCHANGED vars
  BY <1>10 DEF SilenceBound, MaxSilence, vars, link, beeps
<1> QED BY <1>4, <1>5, <1>6, <1>7, <1>8, <1>9, <1>10 DEF Next, TypeOK, States

\* The commands one run of the task can leave behind.
LEMMA CommandsOfTask ==
  ASSUME TypeOK, Task_Dshot, NEW m \in Motors
  PROVE  \/ dshot_command_set'[m] \in {DSHOT_CMD_MOTOR_STOP, DSHOT_CMD_BEEP1}
         \/ /\ state = "ARMED" /\ Xcp_linkAlive /\ motorCmd = MOTOR_CMD_ARM
            /\ dshot_command_set'[m] = Motor_calc_clamp(Setpoint(m), CeilingNow)
            /\ spFresh' = spFresh
<1>1. CASE Motor_state_disarmed \/ Motor_state_failsafe
  BY <1>1 DEF Motor_state_disarmed, Motor_state_failsafe, AllMotors
<1>2. CASE Motor_state_init
  <2>1. motor_id \in Motors
    BY DEF TypeOK
  <2> QED BY <1>2, <2>1 DEF Motor_state_init, Motor_beep, AllMotors
<1>3. CASE Motor_state_armed
  BY <1>3 DEF Motor_state_armed, AllMotors
<1> QED BY <1>1, <1>2, <1>3 DEF Task_Dshot, Motor_task

\* A throttle command comes from the armed state and from a nonzero setpoint.
LEMMA ThrottleOfTask ==
  ASSUME TypeOK, Task_Dshot, NEW m \in Motors, Throttle(m)'
  PROVE  /\ state = "ARMED" /\ Xcp_linkAlive /\ motorCmd = MOTOR_CMD_ARM
         /\ motorManualSp[m] # 0 /\ spFresh' = spFresh
<1>1. dshot_command_set'[m] >= DSHOT_CMD_THROTTLE_MIN
  BY DEF Throttle
<1>2. dshot_command_set'[m] \notin {DSHOT_CMD_MOTOR_STOP, DSHOT_CMD_BEEP1}
  BY <1>1 DEF DSHOT_CMD_THROTTLE_MIN, DSHOT_CMD_MOTOR_STOP, DSHOT_CMD_BEEP1
<1>3. /\ state = "ARMED" /\ Xcp_linkAlive /\ motorCmd = MOTOR_CMD_ARM
      /\ dshot_command_set'[m] = Motor_calc_clamp(Setpoint(m), CeilingNow)
      /\ spFresh' = spFresh
  BY <1>2, CommandsOfTask
<1>4. motorManualSp[m] # 0
  <2> SUFFICES ASSUME motorManualSp[m] = 0 PROVE FALSE
    OBVIOUS
  <2>1. Setpoint(m) = 0
    BY SetpointType
  <2>2. dshot_command_set'[m] = DSHOT_CMD_MOTOR_STOP
    BY <1>3, <2>1 DEF Motor_calc_clamp
  <2> QED BY <1>2, <2>2
<1> QED BY <1>3, <1>4

LEMMA StaleStep ==
  ASSUME TypeOK, SetpointIsFresh, StaleSetpointNeverFlies, [Next]_vars
  PROVE  StaleSetpointNeverFlies'
<1>1. CASE TickIsr \/ XcpPoll \/ UNCHANGED vars
  BY <1>1 DEF StaleSetpointNeverFlies, Throttle, TickIsr, XcpPoll, FrameArrives,
              vars, out
<1>2. CASE XcpDownload
  <2>1. dshot_command_set' = dshot_command_set
    BY <1>2 DEF XcpDownload, FrameArrives, out
  <2>2. spFresh \subseteq spFresh'
    BY <1>2 DEF XcpDownload
  <2> QED BY <2>1, <2>2 DEF StaleSetpointNeverFlies, Throttle
<1>3. CASE Task_Dshot
  <2> SUFFICES ASSUME NEW m \in Motors, Throttle(m)' PROVE m \in spFresh'
    BY DEF StaleSetpointNeverFlies
  <2>1. state = "ARMED" /\ motorManualSp[m] # 0 /\ spFresh' = spFresh
    BY <1>3, ThrottleOfTask
  <2> QED BY <2>1 DEF SetpointIsFresh
<1> QED BY <1>1, <1>2, <1>3 DEF Next

LEMMA InvStep == Inv /\ [Next]_vars => Inv'
<1> SUFFICES ASSUME Inv, [Next]_vars PROVE Inv'
  OBVIOUS
<1>1. TypeOK'
  BY TypeStep DEF Inv
<1> QED
  BY <1>1, AgeStep, ArmStep, BeepStep, SilenceStep, SetpointStep, StaleStep DEF Inv

(* The inductive invariant holds of every reachable state.                 *)
THEOREM Invariance == Spec => []Inv
BY InvInit, InvStep, PTL DEF Spec

-----------------------------------------------------------------------------
(* What the arming state machine promises, for every timing.               *)

(* SYS2-SAF-002: Motor_task never hands a throttle value to the driver     *)
(* unless an XCP frame arrived within the link timeout and the machine is  *)
(* ARMED by a standing ARM word; the wrap of the 32-bit tick cannot revive *)
(* a dead session, because no session outlives MaxSilence.                 *)
THEOREM ThrottleSafety == Spec => ThrottleNeedsOperator
<1>1. Inv /\ [Next]_vars =>
        [Task_Dshot /\ (\E m \in Motors : Throttle(m)')
           => /\ sinceCmd < XCP_LINK_TIMEOUT_MS
              /\ state = "ARMED" /\ motorCmd = MOTOR_CMD_ARM]_vars
  <2> SUFFICES ASSUME Inv, Task_Dshot, NEW m \in Motors, Throttle(m)'
               PROVE  /\ sinceCmd < XCP_LINK_TIMEOUT_MS
                      /\ state = "ARMED" /\ motorCmd = MOTOR_CMD_ARM
    OBVIOUS
  <2>1. state = "ARMED" /\ Xcp_linkAlive /\ motorCmd = MOTOR_CMD_ARM
    BY ThrottleOfTask DEF Inv
  <2> QED BY <2>1, AliveIsRecent DEF Inv
<1> QED BY <1>1, Invariance, PTL DEF Spec, ThrottleNeedsOperator

(* No silent re-arm (Diagnostics.h): Motor_state_disarmed starts the beep  *)
(* sequence only on an ARM written since the previous run of the task.     *)
THEOREM RearmSafety == Spec => NoSilentRearm
<1>1. Inv /\ [Next]_vars =>
        [state # "INIT" /\ state' = "INIT" => armWritten]_vars
  <2> SUFFICES ASSUME Inv, Next, state # "INIT", state' = "INIT"
               PROVE  armWritten
    OBVIOUS
  <2>1. state = "DISARMED" /\ motorCmd = MOTOR_CMD_ARM
    BY DEF Next, TickIsr, XcpPoll, XcpDownload, FrameArrives, Task_Dshot, Motor_task,
           Motor_state_disarmed, Motor_state_init, Motor_state_armed,
           Motor_state_failsafe
  <2> QED BY <2>1 DEF Inv, ArmIsFresh
<1> QED BY <1>1, Invariance, PTL DEF Spec, NoSilentRearm

(* A motor that turns was given its setpoint in this armed session: every  *)
(* exit from ARMED clears motorManualSp before the next session starts.    *)
THEOREM SetpointSafety == Spec => []StaleSetpointNeverFlies
<1>1. Inv => StaleSetpointNeverFlies
  BY DEF Inv
<1> QED BY <1>1, Invariance, PTL

(* ARMED is entered only after every motor beeped and the last delay ran,  *)
(* whatever the statics of Motor_beep carried over.                        *)
THEOREM BeepSafety == Spec => ArmedOnlyAfterBeeps
<1>1. Inv /\ [Next]_vars =>
        [state = "INIT" /\ state' = "ARMED" =>
           beeped = Motors /\ motor_beep_counter >= DSHOT_MEND * DSHOT_BEEP_DELAY]_vars
  <2> SUFFICES ASSUME Inv, Next, state = "INIT", state' = "ARMED"
               PROVE  /\ beeped = Motors
                      /\ motor_beep_counter >= DSHOT_MEND * DSHOT_BEEP_DELAY
    OBVIOUS
  <2>1. LastBeepDone
    BY DEF Next, TickIsr, XcpPoll, XcpDownload, FrameArrives, Task_Dshot, Motor_task,
           Motor_state_disarmed, Motor_state_init, Motor_state_armed,
           Motor_state_failsafe
  <2>2. motor_id = DSHOT_MEND - 1 /\ motor_beep[motor_id]
    BY <2>1, MotorAssumption DEF LastBeepDone, Inv, TypeOK, Motors
  <2>3. \A m \in Motors : m < motor_id \/ m = motor_id
    BY <2>2, MotorAssumption DEF Motors
  <2>4. \A m \in Motors : m \in beeped
    BY <2>2, <2>3 DEF Inv, BeepPrefix
  <2>5. motor_beep_counter >= DSHOT_BEEP_DELAY * (motor_id + 1)
    BY <2>2 DEF Inv, BeepPrefix
  <2>6. DSHOT_BEEP_DELAY * (motor_id + 1) = DSHOT_MEND * DSHOT_BEEP_DELAY
    BY <2>2, MotorAssumption
  <2> QED BY <2>4, <2>5, <2>6 DEF Inv, TypeOK
<1> QED BY <1>1, Invariance, PTL DEF Spec, ArmedOnlyAfterBeeps

(* SWE1-FW-025: no throttle above the ceiling, and no ceiling the operator *)
(* did not write into motorSpMax.                                          *)
THEOREM CeilingSafety == Spec => CeilingHolds
<1>1. TypeOK /\ [Next]_vars =>
        [Task_Dshot =>
           /\ \A m \in Motors : dshot_command_set'[m] <= s_ceiling'
           /\ s_ceiling' # s_ceiling => s_ceiling' = motorSpMax]_vars
  <2> SUFFICES ASSUME TypeOK, Task_Dshot
               PROVE  /\ \A m \in Motors : dshot_command_set'[m] <= s_ceiling'
                      /\ s_ceiling' # s_ceiling => s_ceiling' = motorSpMax
    OBVIOUS
  <2>1. s_ceiling' = CeilingNow
    BY DEF Task_Dshot, Motor_task, ValidateCeiling
  <2>2. ASSUME NEW m \in Motors PROVE dshot_command_set'[m] <= s_ceiling'
    <3>1. PICK c \in DSHOT_CMD_THROTTLE_MIN .. DSHOT_CMD_THROTTLE_MAX : c = CeilingNow
      BY CeilingInRange
    <3>2. Motor_calc_clamp(Setpoint(m), c) \in {0} \cup (DSHOT_CMD_THROTTLE_MIN .. c)
      BY SetpointType, ClampRange
    <3> QED
      BY <2>1, <3>1, <3>2, CommandsOfTask
      DEF DSHOT_CMD_MOTOR_STOP, DSHOT_CMD_BEEP1, DSHOT_CMD_THROTTLE_MIN,
          DSHOT_CMD_THROTTLE_MAX
  <2> QED BY <2>1, <2>2 DEF CeilingNow
<1> QED BY <1>1, TypeCorrect, PTL DEF Spec, CeilingHolds

(* The ESC is never given one of its special commands 2..47.               *)
THEOREM CommandSafety == Spec => []NoSpecialCommand
<1>1. Init => NoSpecialCommand
  BY DEF Init, NoSpecialCommand, AllMotors, DSHOT_CMD_MOTOR_STOP
<1>2. TypeOK /\ NoSpecialCommand /\ [Next]_vars => NoSpecialCommand'
  <2> SUFFICES ASSUME TypeOK, NoSpecialCommand, [Next]_vars PROVE NoSpecialCommand'
    OBVIOUS
  <2>1. CASE Task_Dshot
    <3> SUFFICES ASSUME NEW m \in Motors
                 PROVE  dshot_command_set'[m] \in {DSHOT_CMD_MOTOR_STOP, DSHOT_CMD_BEEP1}
                          \cup (DSHOT_CMD_THROTTLE_MIN .. DSHOT_CMD_THROTTLE_MAX)
      BY DEF NoSpecialCommand
    <3>1. PICK c \in DSHOT_CMD_THROTTLE_MIN .. DSHOT_CMD_THROTTLE_MAX : c = CeilingNow
      BY CeilingInRange
    <3>2. Motor_calc_clamp(Setpoint(m), c) \in {0} \cup (DSHOT_CMD_THROTTLE_MIN .. c)
      BY SetpointType, ClampRange
    <3>3. \/ dshot_command_set'[m] \in {DSHOT_CMD_MOTOR_STOP, DSHOT_CMD_BEEP1}
          \/ dshot_command_set'[m] = Motor_calc_clamp(Setpoint(m), c)
      BY <2>1, <3>1, CommandsOfTask
    <3>4. c \in DSHOT_CMD_THROTTLE_MIN .. DSHOT_CMD_THROTTLE_MAX =>
            \A x \in {0} \cup (DSHOT_CMD_THROTTLE_MIN .. c) :
              x = DSHOT_CMD_MOTOR_STOP
                \/ x \in DSHOT_CMD_THROTTLE_MIN .. DSHOT_CMD_THROTTLE_MAX
      BY DEF DSHOT_CMD_MOTOR_STOP, DSHOT_CMD_THROTTLE_MIN, DSHOT_CMD_THROTTLE_MAX
    <3>5. \/ Motor_calc_clamp(Setpoint(m), c) = DSHOT_CMD_MOTOR_STOP
          \/ Motor_calc_clamp(Setpoint(m), c)
               \in DSHOT_CMD_THROTTLE_MIN .. DSHOT_CMD_THROTTLE_MAX
      BY <3>1, <3>2, <3>4, Zenon
    <3> QED BY <3>3, <3>5
  <2>2. CASE UNCHANGED out
    BY <2>2 DEF NoSpecialCommand, out
  <2> QED
    BY <2>1, <2>2 DEF Next, TickIsr, XcpPoll, XcpDownload, FrameArrives, vars
<1> QED BY <1>1, <1>2, TypeCorrect, PTL DEF Spec

\* A standing throttle command is no older than the timeout and one lag.
ThrottleIsYoung ==
  (\E m \in Motors : Throttle(m)) => sinceCmd < XCP_LINK_TIMEOUT_MS + lag

(* The deadline on the wire: an operator silent for the timeout and one    *)
(* scheduling lag has stopped every motor.                                 *)
THEOREM DeadlineSafety == Spec => []StopsWithinDeadline
<1>1. Init => ThrottleIsYoung
  BY DEF Init, ThrottleIsYoung, Throttle, AllMotors, DSHOT_CMD_THROTTLE_MIN
<1>2. Inv /\ ThrottleIsYoung /\ [Next]_vars => ThrottleIsYoung'
  <2> SUFFICES ASSUME Inv, ThrottleIsYoung, [Next]_vars,
                      NEW m \in Motors, Throttle(m)'
               PROVE  sinceCmd' < XCP_LINK_TIMEOUT_MS + lag'
    BY DEF ThrottleIsYoung
  <2>1. /\ sinceCmd \in Nat /\ lag \in Nat /\ TICK_MOD \in Nat
        /\ XCP_LINK_TIMEOUT_MS \in Nat /\ XCP_LINK_TIMEOUT_MS > 0
        /\ sinceCmd <= TICK_MOD
    BY MotorAssumption DEF Inv, TypeOK
  <2>2. CASE ~Task_Dshot
    <3>0. UNCHANGED out
      BY <2>2 DEF Next, TickIsr, XcpPoll, XcpDownload, FrameArrives, vars
    <3>1. sinceCmd < XCP_LINK_TIMEOUT_MS + lag
      BY <3>0 DEF ThrottleIsYoung, Throttle, out
    <3>2. CASE TickIsr
      <4>1. /\ sinceCmd' = IF sinceCmd < TICK_MOD THEN sinceCmd + 1 ELSE TICK_MOD
            /\ lag' = lag + 1
        BY <3>2 DEF TickIsr
      <4> QED BY <2>1, <3>1, <4>1
    <3>3. CASE XcpPoll \/ XcpDownload
      BY <2>1, <3>3 DEF XcpPoll, XcpDownload, FrameArrives
    <3>4. CASE UNCHANGED vars
      BY <3>1, <3>4 DEF vars, link
    <3> QED BY <2>2, <3>2, <3>3, <3>4 DEF Next
  <2>3. CASE Task_Dshot
    <3>1. state = "ARMED" /\ Xcp_linkAlive
      BY <2>3, ThrottleOfTask DEF Inv
    <3>2. sinceCmd < XCP_LINK_TIMEOUT_MS
      BY <3>1, AliveIsRecent DEF Inv
    <3> QED BY <2>1, <2>3, <3>2 DEF Task_Dshot, link
  <2> QED BY <2>2, <2>3
<1>3. Inv /\ ThrottleIsYoung => StopsWithinDeadline
  BY MotorAssumption DEF Inv, TypeOK, ThrottleIsYoung, StopsWithinDeadline
<1> QED BY <1>1, <1>2, <1>3, Invariance, PTL DEF Spec
=============================================================================
