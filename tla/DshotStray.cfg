SPECIFICATION Spec
CONSTANTS
  DSHOT_MEND = 2
  ESC_T_MESSAGE_LENGTH = 2
  TLM_SLOT = 3
  MISS_LIMIT = 1
  STREAK_MAX = 1
  MaxAnswer = 1
INVARIANTS
  PacketAlwaysOfItsMotor
