SPECIFICATION MCSpec
CONSTANTS
  DSHOT_MEND = 2
  ESC_T_MESSAGE_LENGTH = 2
  TLM_SLOT = 3
  MISS_LIMIT = 1
  STREAK_MAX = 1
  MaxAnswer = 1
  Periods <- MCPeriods
  Tags <- MCTags
  Payloads <- MCPayloads
  g_replyTicksPerBit = 4
  Jitter = 1
  ECNT_MOD = 32
  TBU_MOD = 128
INVARIANTS
  PacketOfItsMotor
  AliveMeansAnswered
  ReplyIsReadAsSent
PROPERTIES
  SlotOutcome
  DeadEscIsReported
