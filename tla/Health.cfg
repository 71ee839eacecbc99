SPECIFICATION FairSpec
CONSTANTS
  Period <- MCPeriod
  TICK_MOD = 4
  MaxGap = 2
  I2C_RECOVERY_PULSES = 1
  I2C_MAX_ATTEMPTS = 1
  RECOVERY_PERIOD = 2
  STATUS_READS = 1
  CONFIG_WRITES = 2
  Shown <- MCShown
  PD_TIMEOUT_TICKS = 2
  PD_STUCK_TICKS = 2
  PD_IMPLAUSIBLE_TICKS = 2
  PD_BUS_STUCK_TICKS = 2
  COUNTER_MAX = 2
  NoValue = NoValue
  WorldAt = {0}
  Devices = {"i2c", "imu"}
PROPERTIES
  SampledBeforeUse
  ReleasedOnTime
  HealthyIsQuiet
  DeadIsReported
  PresenceReturns
  DiagnosisSettles
