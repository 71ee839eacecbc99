------------------------------- MODULE Motor -------------------------------
(***************************************************************************)
(* The arming state machine of motor.c with the two inputs it lives on:    *)
(* the motor words of the calibration block g_xcpCal, which the operator   *)
(* overwrites through XCP DOWNLOADs at any moment between two runs of the  *)
(* 1 ms task, and the link age Xcp_linkAlive() computes from the 32-bit    *)
(* millisecond tick.  Everything here runs on CPU0: the tick is an         *)
(* interrupt, frames are received by the cooperative Task_Lwip and the     *)
(* state machine runs in the cooperative Task_Dshot, so each of the three  *)
(* is atomic for the others.                                               *)
(*                                                                         *)
(* The last variables are history:       no action of the code reads them. *)
(***************************************************************************)
EXTENDS MotorTable

CONSTANTS
  DSHOT_MEND,           \* number of motors (4 in the code)
  DSHOT_BEEP_DELAY,     \* calls of Motor_beep between two beeps (1000)
  XCP_LINK_TIMEOUT_MS,  \* link timeout in ticks (500)
  TICK_MOD,             \* modulus of g_TickCount_1ms (2^32)
  MaxLag,               \* most ticks the scheduler lets pass between two Task_Dshot
  CmdWrites,            \* values the operator writes to motorCmd ...
  ManualWrites,         \* ... to motorManual,
  SpWrites,             \* ... to a motorManualSp entry,
  SpMaxWrites,          \* ... to motorSpMax,
  SpModeWrites          \* ... and to motorSpMode

MOTOR_CMD_ARM    == 1
MOTOR_CMD_MANUAL == 1

ASSUME MotorAssumption ==
  /\ DSHOT_MEND \in Nat \ {0}
  /\ DSHOT_BEEP_DELAY \in Nat \ {0}
  /\ XCP_LINK_TIMEOUT_MS \in Nat \ {0}
  /\ MaxLag \in Nat \ {0}
  /\ TICK_MOD \in Nat
  /\ CmdWrites \subseteq Nat
  /\ ManualWrites \subseteq Nat
  /\ SpWrites \subseteq UInt16
  /\ SpMaxWrites \subseteq UInt16
  /\ SpModeWrites \subseteq UInt16

(* The arming sequence and the link timeout are short against one turn of  *)
(* the tick counter (4 s and 0.5 s against 49.7 days).                     *)
ASSUME TickAssumption ==
  MaxLag * (DSHOT_BEEP_DELAY * DSHOT_MEND + 2 * DSHOT_MEND + 2)
    + XCP_LINK_TIMEOUT_MS < TICK_MOD

Motors == 0 .. (DSHOT_MEND - 1)
States == {"DISARMED", "INIT", "ARMED", "FAILSAFE"}
Tick   == 0 .. (TICK_MOD - 1)

\* The unsigned arithmetic of the tick: one more, and the time from last to now.
NextTick(now)      == IF now + 1 = TICK_MOD THEN 0 ELSE now + 1
Elapsed(now, last) == IF now >= last THEN now - last ELSE now - last + TICK_MOD

VARIABLES
  g_TickCount_1ms,      \* counted up by updateLwIPStackISR
  s_lastCmdMs,          \* tick of the last well-formed XCP frame, 0 = never
  motorCmd, motorManual, motorManualSp, motorSpMax, motorSpMode,  \* g_xcpCal
  state,                \* Task_Dshot's static Motor_states_t
  s_ceiling,            \* Motor_task's last valid motorSpMax
  motor_beep, motor_beep_counter, motor_id,    \* Motor_beep's statics
  dshot_command_set,    \* what the last Task_Dshot handed to the driver,
  dshot_stream_allowed, \* and whether the driver was allowed to send it
  lag,                  \* ticks since the last Task_Dshot
  \* history variables
  sinceCmd,             \* true age of the last frame, saturating at TICK_MOD
  armWritten,           \* ARM was written since the last Task_Dshot
  spFresh,              \* motors whose setpoint was written since ARMED was left
  beeped                \* motors beeped since INIT was entered

cal   == <<motorCmd, motorManual, motorManualSp, motorSpMax, motorSpMode>>
beeps == <<motor_beep, motor_beep_counter, motor_id>>
link  == <<g_TickCount_1ms, s_lastCmdMs, sinceCmd>>
out   == <<dshot_command_set, dshot_stream_allowed>>
vars  == <<link, cal, state, s_ceiling, beeps, out, lag, armWritten, spFresh, beeped>>

AllMotors(v) == [m \in Motors |-> v]

-----------------------------------------------------------------------------
(* Boot: diag_loadDefaults has filled g_xcpCal, no frame has arrived yet.  *)
Init ==
  /\ g_TickCount_1ms = 0 /\ s_lastCmdMs = 0 /\ sinceCmd = TICK_MOD
  /\ motorCmd = 0 /\ motorManual = 0 /\ motorManualSp = AllMotors(0)
  /\ motorSpMax = 1600 /\ motorSpMode = 1
  /\ state = "DISARMED" /\ s_ceiling = DSHOT_CMD_THROTTLE_MIN
  /\ motor_beep = AllMotors(FALSE) /\ motor_beep_counter = 0 /\ motor_id = 0
  /\ dshot_command_set = AllMotors(0) /\ dshot_stream_allowed = FALSE
  /\ lag = 0 /\ armWritten = FALSE /\ spFresh = {} /\ beeped = {}

-----------------------------------------------------------------------------
(* The tick interrupt and the operator.                                    *)

TickIsr ==
  /\ lag < MaxLag
  /\ lag' = lag + 1
  /\ g_TickCount_1ms' = NextTick(g_TickCount_1ms)
  /\ sinceCmd' = IF sinceCmd < TICK_MOD THEN sinceCmd + 1 ELSE TICK_MOD
  /\ UNCHANGED <<s_lastCmdMs, cal, state, s_ceiling, beeps, out,
                 armWritten, spFresh, beeped>>

(* Every well-formed frame counts as link activity, connected or not.      *)
FrameArrives ==
  /\ s_lastCmdMs' = g_TickCount_1ms
  /\ sinceCmd' = 0
  /\ UNCHANGED <<g_TickCount_1ms, state, s_ceiling, beeps, out, lag, beeped>>

XcpPoll ==
  /\ FrameArrives
  /\ UNCHANGED <<cal, armWritten, spFresh>>

(* A DOWNLOAD into the motor words.  One word per frame: a longer range is *)
(* the same words one after the other with nothing in between.             *)
XcpDownload ==
  /\ FrameArrives
  /\ \/ \E v \in CmdWrites :
          /\ motorCmd' = v
          /\ armWritten' = (v = MOTOR_CMD_ARM)
          /\ UNCHANGED <<motorManual, motorManualSp, motorSpMax, motorSpMode, spFresh>>
     \/ \E v \in ManualWrites :
          /\ motorManual' = v
          /\ UNCHANGED <<motorCmd, motorManualSp, motorSpMax, motorSpMode,
                         armWritten, spFresh>>
     \/ \E m \in Motors, v \in SpWrites :
          /\ motorManualSp' = [motorManualSp EXCEPT ![m] = v]
          /\ spFresh' = spFresh \cup {m}
          /\ UNCHANGED <<motorCmd, motorManual, motorSpMax, motorSpMode, armWritten>>
     \/ \E v \in SpMaxWrites :
          /\ motorSpMax' = v
          /\ UNCHANGED <<motorCmd, motorManual, motorManualSp, motorSpMode,
                         armWritten, spFresh>>
     \/ \E v \in SpModeWrites :
          /\ motorSpMode' = v
          /\ UNCHANGED <<motorCmd, motorManual, motorManualSp, motorSpMax,
                         armWritten, spFresh>>

\* Mutants: the age test with <= instead of <, and without the age.
Xcp_linkAlive_Le ==
  s_lastCmdMs # 0 /\ Elapsed(g_TickCount_1ms, s_lastCmdMs) <= XCP_LINK_TIMEOUT_MS
Xcp_linkAlive_Once == s_lastCmdMs # 0

(* Unsigned 32-bit subtraction; tick 0 doubles as "no command yet".        *)
Xcp_linkAlive ==
  LET ageMs == Elapsed(g_TickCount_1ms, s_lastCmdMs)
  IN  s_lastCmdMs # 0 /\ ageMs < XCP_LINK_TIMEOUT_MS

-----------------------------------------------------------------------------
(* Motor_task: the ceiling is validated first, then one handler runs.      *)

\* Mutant: without the lower bound.
CeilingNow_NoFloor ==
  IF motorSpMax <= DSHOT_CMD_THROTTLE_MAX THEN motorSpMax ELSE s_ceiling

CeilingNow ==
  IF motorSpMax \in DSHOT_CMD_THROTTLE_MIN .. DSHOT_CMD_THROTTLE_MAX
  THEN motorSpMax ELSE s_ceiling

ValidateCeiling ==
  /\ s_ceiling'  = CeilingNow
  /\ motorSpMax' = CeilingNow

Motor_state_disarmed ==
  /\ state = "DISARMED"
  /\ dshot_stream_allowed' = TRUE
  /\ dshot_command_set' = AllMotors(DSHOT_CMD_MOTOR_STOP)
  /\ state' = IF motorCmd = MOTOR_CMD_ARM THEN "INIT" ELSE "DISARMED"
  /\ beeped' = {}
  /\ UNCHANGED <<motorCmd, motorManual, motorManualSp, motorSpMode, beeps, spFresh>>

(* One motor after the other: wait, one frame of BEEP1, then the next.     *)
BeepDue ==
  /\ ~motor_beep[motor_id]
  /\ motor_beep_counter >= DSHOT_BEEP_DELAY + motor_id * DSHOT_BEEP_DELAY

\* Mutant: a count of beeps instead of calls.
CountedOn_Beeps    == IF BeepDue THEN motor_beep_counter + 1 ELSE motor_beep_counter

LastBeepDone ==
  motor_beep[motor_id] /\ motor_id + 1 >= DSHOT_MEND

\* Counted at the end of every call (16 bits; MotorProofs bounds it far below).
CountedOn == motor_beep_counter + 1

Motor_beep ==
  \/ /\ BeepDue
     /\ dshot_command_set' = [AllMotors(DSHOT_CMD_MOTOR_STOP)
                                EXCEPT ![motor_id] = DSHOT_CMD_BEEP1]
     /\ motor_beep' = [motor_beep EXCEPT ![motor_id] = TRUE]
     /\ motor_beep_counter' = CountedOn
     /\ beeped' = beeped \cup {motor_id}
     /\ UNCHANGED motor_id
  \/ /\ ~BeepDue /\ ~LastBeepDone
     /\ dshot_command_set' = AllMotors(DSHOT_CMD_MOTOR_STOP)
     /\ motor_id' = IF motor_beep[motor_id] THEN motor_id + 1 ELSE motor_id
     /\ motor_beep_counter' = CountedOn
     /\ UNCHANGED <<motor_beep, beeped>>
  \/ /\ LastBeepDone
     /\ dshot_command_set' = AllMotors(DSHOT_CMD_MOTOR_STOP)
     /\ motor_id' = 0
     /\ motor_beep' = AllMotors(FALSE)
     /\ motor_beep_counter' = 1          \* cleared, then counted once
     /\ UNCHANGED beeped

Motor_state_init ==
  /\ state = "INIT"
  /\ dshot_stream_allowed' = TRUE
  /\ Motor_beep
  /\ state' = IF LastBeepDone THEN "ARMED" ELSE "INIT"
  /\ UNCHANGED <<motorCmd, motorManual, motorManualSp, motorSpMode, spFresh>>

(* The manual words when selected, else the flight controller's request,   *)
(* which Task_Dshot still passes as four zeros.                            *)
Setpoint(m) ==
  IF motorManual # MOTOR_CMD_MANUAL THEN Motor_convert_speed_to_throttle(0)
  ELSE IF motorSpMode = 0 THEN motorManualSp[m]
  ELSE Motor_convert_speed_to_throttle(motorManualSp[m])

Motor_state_armed ==
  /\ state = "ARMED"
  /\ dshot_stream_allowed' = TRUE
  /\ \/ /\ ~Xcp_linkAlive
        /\ state' = "FAILSAFE"
        /\ dshot_command_set' = AllMotors(DSHOT_CMD_MOTOR_STOP)
        /\ spFresh' = {}
        /\ UNCHANGED <<motorCmd, motorManual, motorManualSp>>
     \/ /\ Xcp_linkAlive /\ motorCmd # MOTOR_CMD_ARM
        /\ state' = "DISARMED"
        /\ dshot_command_set' = AllMotors(DSHOT_CMD_MOTOR_STOP)
        /\ motorManual' = 0
        /\ motorManualSp' = AllMotors(0)
        /\ spFresh' = {}
        /\ UNCHANGED motorCmd
     \/ /\ Xcp_linkAlive /\ motorCmd = MOTOR_CMD_ARM
        /\ dshot_command_set' = [m \in Motors |-> Motor_calc_clamp(Setpoint(m), CeilingNow)]
        /\ UNCHANGED <<state, motorCmd, motorManual, motorManualSp, spFresh>>
  /\ UNCHANGED <<motorSpMode, beeps, beeped>>

\* Mutants: the words of the last session stay; failsafe waits for an ARM.
Motor_state_failsafe_KeepsWords ==
  /\ state = "FAILSAFE"
  /\ dshot_stream_allowed' = FALSE
  /\ dshot_command_set' = AllMotors(DSHOT_CMD_MOTOR_STOP)
  /\ state' = IF Xcp_linkAlive THEN "DISARMED" ELSE "FAILSAFE"
  /\ UNCHANGED <<motorCmd, motorManual, motorManualSp, motorSpMode, beeps,
                 spFresh, beeped>>
Motor_state_failsafe_WaitsForArm ==
  /\ state = "FAILSAFE"
  /\ dshot_stream_allowed' = FALSE
  /\ dshot_command_set' = AllMotors(DSHOT_CMD_MOTOR_STOP)
  /\ motorCmd' = 0 /\ motorManual' = 0 /\ motorManualSp' = AllMotors(0)
  /\ state' = IF Xcp_linkAlive /\ motorCmd = MOTOR_CMD_ARM THEN "DISARMED" ELSE "FAILSAFE"
  /\ UNCHANGED <<motorSpMode, beeps, spFresh, beeped>>

Motor_state_failsafe ==
  /\ state = "FAILSAFE"
  /\ dshot_stream_allowed' = FALSE
  /\ dshot_command_set' = AllMotors(DSHOT_CMD_MOTOR_STOP)
  /\ motorCmd' = 0
  /\ motorManual' = 0
  /\ motorManualSp' = AllMotors(0)
  /\ state' = IF Xcp_linkAlive THEN "DISARMED" ELSE "FAILSAFE"
  /\ UNCHANGED <<motorSpMode, beeps, spFresh, beeped>>

Motor_task ==
  /\ ValidateCeiling
  /\ \/ Motor_state_disarmed \/ Motor_state_init
     \/ Motor_state_armed    \/ Motor_state_failsafe

(* The part of Task_Dshot this module covers.                              *)
Task_Dshot ==
  /\ Motor_task
  /\ lag' = 0
  /\ armWritten' = FALSE
  /\ UNCHANGED link

Next == TickIsr \/ XcpPoll \/ XcpDownload \/ Task_Dshot

(* The tick timer never stops and Scheduler_run is called in an endless    *)
(* loop; the operator owes nothing.                                        *)
Fairness == WF_vars(TickIsr) /\ WF_vars(Task_Dshot)

Spec     == Init /\ [][Next]_vars
FairSpec == Spec /\ Fairness

-----------------------------------------------------------------------------
TypeOK ==
  /\ g_TickCount_1ms \in Tick /\ s_lastCmdMs \in Tick /\ sinceCmd \in 0 .. TICK_MOD
  /\ motorCmd \in Nat /\ motorManual \in Nat
  /\ motorManualSp \in [Motors -> UInt16]
  /\ motorSpMax \in UInt16 /\ motorSpMode \in UInt16
  /\ state \in States
  /\ s_ceiling \in DSHOT_CMD_THROTTLE_MIN .. DSHOT_CMD_THROTTLE_MAX
  /\ motor_beep \in [Motors -> BOOLEAN] /\ motor_beep_counter \in Nat
  /\ motor_id \in Motors
  /\ dshot_command_set \in [Motors -> 0 .. DSHOT_CMD_THROTTLE_MAX]
  /\ dshot_stream_allowed \in BOOLEAN
  /\ lag \in 0 .. MaxLag /\ armWritten \in BOOLEAN
  /\ spFresh \subseteq Motors /\ beeped \subseteq Motors

Throttle(m) == dshot_command_set[m] >= DSHOT_CMD_THROTTLE_MIN

(* SYS2-SAF-002, "stops the stream 500 ms after the last XCP command": no  *)
(* throttle value is ever handed to the driver in a run of Task_Dshot      *)
(* whose last XCP frame is XCP_LINK_TIMEOUT_MS old or older, not even when *)
(* the tick counter has turned over in the meantime, and only while ARMED  *)
(* with the ARM word still standing.                                       *)
ThrottleNeedsOperator ==
  [][Task_Dshot /\ (\E m \in Motors : Throttle(m)')
       => /\ sinceCmd < XCP_LINK_TIMEOUT_MS
          /\ state = "ARMED" /\ motorCmd = MOTOR_CMD_ARM]_vars

(* The same as a deadline on what is on the wire: once the operator has    *)
(* been silent for the timeout and one scheduling lag, no throttle stands. *)
StopsWithinDeadline ==
  sinceCmd >= XCP_LINK_TIMEOUT_MS + MaxLag => \A m \in Motors : ~Throttle(m)

(* No silent re-arm: whatever happened before (failsafe, link recovery,    *)
(* disarm by any value), the arming sequence starts only from an ARM the   *)
(* operator wrote after the previous run of the task.                      *)
NoSilentRearm ==
  [][state # "INIT" /\ state' = "INIT" => armWritten]_vars

(* A setpoint of an earlier armed session never flies: a motor that gets   *)
(* throttle had its setpoint word written after ARMED was last left.       *)
StaleSetpointNeverFlies ==
  \A m \in Motors : Throttle(m) => m \in spFresh

(* Every throttle respects the ceiling in force, and only a valid value    *)
(* the operator put into motorSpMax can become the ceiling (SWE1-FW-025).  *)
CeilingHolds ==
  [][Task_Dshot =>
       /\ \A m \in Motors : dshot_command_set'[m] <= s_ceiling'
       /\ s_ceiling' # s_ceiling => s_ceiling' = motorSpMax]_vars

(* ARMED is reached only through a complete beep sequence: every motor     *)
(* beeped in this session and the last delay has elapsed, also when the    *)
(* statics of Motor_beep carry over from an earlier session.               *)
ArmedOnlyAfterBeeps ==
  [][state = "INIT" /\ state' = "ARMED" =>
       beeped = Motors /\ motor_beep_counter >= DSHOT_MEND * DSHOT_BEEP_DELAY]_vars

(* A command is a value the ESC takes for throttle, stop or the arming     *)
(* beep, never one of its other special commands 2..47.                    *)
NoSpecialCommand ==
  \A m \in Motors : dshot_command_set[m] \in {DSHOT_CMD_MOTOR_STOP, DSHOT_CMD_BEEP1}
                                      \cup (DSHOT_CMD_THROTTLE_MIN .. DSHOT_CMD_THROTTLE_MAX)

(* An operator who keeps the link up and leaves ARM standing gets ARMED.   *)
ArmingCompletes ==
  <>[](motorCmd = MOTOR_CMD_ARM /\ Xcp_linkAlive) => <>[](state = "ARMED")

(* With the link back for good the machine leaves FAILSAFE.                *)
FailsafeIsLeft ==
  <>[]Xcp_linkAlive => <>[](state # "FAILSAFE")
=============================================================================
