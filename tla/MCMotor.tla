------------------------------- MODULE MCMotor -------------------------------
(***************************************************************************)
(* The arming machine, and the speed table of motor.c on every input.  A   *)
(* behaviour follows one of them.                                          *)
(***************************************************************************)
EXTENDS Motor

CONSTANT Ramp      \* the speeds visited, an interval of UInt16

VARIABLES subject, speed_rpm

MCvars == <<subject, speed_rpm, vars>>

MCInit == subject \in {"arming", "table"} /\ speed_rpm = 0 /\ Init

NextSpeed ==
  /\ subject = "table"
  /\ speed_rpm' = IF speed_rpm + 1 \in Ramp THEN speed_rpm + 1 ELSE speed_rpm
  /\ UNCHANGED <<subject, vars>>

Arming == subject = "arming" /\ UNCHANGED <<subject, speed_rpm>>

MCNext == (Arming /\ Next) \/ NextSpeed

MCSpec == /\ MCInit /\ [][MCNext]_MCvars
          /\ WF_MCvars(Arming /\ TickIsr) /\ WF_MCvars(Arming /\ Task_Dshot)

T(r) == Motor_convert_speed_to_throttle(r)

(* The reference: the integer part of the line through the two breakpoints *)
(* around the speed, whichever segment the code picks (docs/DSHOT.md,      *)
(* "linear interpolation with uint32 integer truncation"), so that a       *)
(* request is neither an ESC command 1..47 nor falls where speed rises;    *)
(* above the last breakpoint its throttle.                                 *)
OnLine(i, r) ==
  LET run  == bp_speed[i + 1] - bp_speed[i]
      rise == (r - bp_speed[i]) * (td_throttle[i + 1] - td_throttle[i])
      dy   == T(r) - td_throttle[i]
  IN  /\ r \in bp_speed[i] .. bp_speed[i + 1]
      /\ dy * run <= rise /\ rise < (dy + 1) * run

TableIsTruncatedLine ==
  IF speed_rpm > bp_speed[MOTOR_TABLE_SIZE]
    THEN T(speed_rpm) = td_throttle[MOTOR_TABLE_SIZE]
    ELSE \E i \in Segments : OnLine(i, speed_rpm)
=============================================================================
