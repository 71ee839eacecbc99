----------------------------- MODULE MotorTable -----------------------------
(***************************************************************************)
(* The two pure stages every DShot setpoint passes in motor.c: the speed   *)
(* table (rpm -> DShot throttle, 32-bit truncating interpolation) and the  *)
(* clamp into {0} \cup 48..ceiling.                                        *)
(***************************************************************************)
EXTENDS Integers

DSHOT_CMD_MOTOR_STOP   == 0
DSHOT_CMD_BEEP1        == 1
DSHOT_CMD_THROTTLE_MIN == 48
DSHOT_CMD_THROTTLE_MAX == 2047

\* Every setpoint word of the calibration block is 16 bits wide.
UInt16 == 0 .. 65535

MOTOR_TABLE_SIZE == 10

bp_speed    == <<0, 1, 129, 1300, 2629, 3829, 4929, 5929, 6814, 8257>>
td_throttle == <<0, 48, 48, 200, 400, 600, 800, 1000, 1200, 1600>>

Segments == 1 .. (MOTOR_TABLE_SIZE - 1)

(* The last segment whose lower breakpoint lies strictly below the speed;  *)
(* the first one when there is none (speed 0).                             *)
lower_index(speed_rpm) ==
  IF speed_rpm = 0 THEN 1
  ELSE CHOOSE i \in Segments :
         /\ bp_speed[i] < speed_rpm
         /\ \A j \in Segments : bp_speed[j] < speed_rpm => j <= i

\* Mutant: rounding instead of truncating.
Motor_interpolate_Round(x0, x1, y0, y1, x) ==
  y0 + ((x - x0) * (y1 - y0) + (x1 - x0) \div 2) \div (x1 - x0)

Motor_interpolate(x0, x1, y0, y1, x) ==
  y0 + ((x - x0) * (y1 - y0)) \div (x1 - x0)

Motor_convert_speed_to_throttle(speed_rpm) ==
  IF speed_rpm > bp_speed[MOTOR_TABLE_SIZE]
  THEN td_throttle[MOTOR_TABLE_SIZE]
  ELSE LET i == lower_index(speed_rpm)
       IN  Motor_interpolate(bp_speed[i], bp_speed[i + 1],
                             td_throttle[i], td_throttle[i + 1], speed_rpm)

\* Mutant: the clamp before SWE1-FW-025, protocol range only.
Motor_calc_clamp_NoCeiling(motor_speed_rqst, ceiling) ==
  IF motor_speed_rqst = 0 THEN DSHOT_CMD_MOTOR_STOP
  ELSE IF motor_speed_rqst < DSHOT_CMD_THROTTLE_MIN THEN DSHOT_CMD_THROTTLE_MIN
  ELSE IF motor_speed_rqst > DSHOT_CMD_THROTTLE_MAX THEN DSHOT_CMD_THROTTLE_MAX
  ELSE motor_speed_rqst

(* One motor's entry of Motor_calc_clamp: a zero request leaves the        *)
(* caller's zero-initialised command alone.                                *)
Motor_calc_clamp(motor_speed_rqst, ceiling) ==
  IF motor_speed_rqst = 0 THEN DSHOT_CMD_MOTOR_STOP
  ELSE IF motor_speed_rqst < DSHOT_CMD_THROTTLE_MIN THEN DSHOT_CMD_THROTTLE_MIN
  ELSE IF motor_speed_rqst > ceiling THEN ceiling
  ELSE IF motor_speed_rqst > DSHOT_CMD_THROTTLE_MAX THEN DSHOT_CMD_THROTTLE_MAX
  ELSE motor_speed_rqst
=============================================================================
