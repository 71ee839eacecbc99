SPECIFICATION FairSpec
CONSTANTS
  TICK_MOD = 7
  NAVTASK_DT_MIN = 2
  NAVTASK_DT_MAX = 5
  NAVTASK_NO_EDGE_TIMEOUT = 2
  NAVTASK_STUCK_VERIFY_TIMEOUT = 4
  SLEW = 1
  TURN = 1
  AHRS_FAULT_HOLD = 2
  AHRS_CAL_DEADLINE = 3
  ICM42688_STUCK_HOLD = 2
  ICM42688_VERIFY_PERIOD = 2
  ICM42688_HOLD_DT_MAX = 5
  ICM42688_RESET = 1
  ICM42688_WAKE = 1
  ICM42688_RECOVERY_PERIOD = 2
  CFG_TABLE_SIZE = 1
  PERIOD = 2
  MaxGap = 1
  GoodModes = {3}
  MaxRate = 0
  JumpRate = 3
INVARIANTS
  RunningMeansFed
PROPERTIES
  DeadIsDeclared
  Recovers
  IntegratesTrueInterval
