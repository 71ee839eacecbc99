SPECIFICATION MCSpec
CONSTANTS
  DSHOT_MEND = 2
  DSHOT_BEEP_DELAY = 1
  XCP_LINK_TIMEOUT_MS = 3
  TICK_MOD = 12
  MaxLag = 1
  Ramp <- UInt16
  CmdWrites = {0, 1}
  ManualWrites = {1}
  SpWrites = {3000}
  SpMaxWrites = {30, 1000}
  SpModeWrites = {0}
INVARIANTS
  TableIsTruncatedLine
  StopsWithinDeadline
  NoSpecialCommand
  StaleSetpointNeverFlies
PROPERTIES
  ThrottleNeedsOperator
  NoSilentRearm
  CeilingHolds
  ArmingCompletes
  FailsafeIsLeft
