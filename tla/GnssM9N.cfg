SPECIFICATION FairSpec
CONSTANTS
  RING_BUFFER_SIZE = 3
  GNSS_NOT_PRESENT_TICKS = 2
  GNSS_UBX_MAX_RX_PAYLOAD = 2
  SETTINGS = 2
  ACK_MOD = 4
  Fixes = {"fix1", "fix2", "wild"}
  Absurd = {"wild"}
  NoFix = "none"
  MaxDisturbances = 1
INVARIANTS
  CfgOkMeansAccepted
PROPERTIES
  NothingLostUncounted
  FixIsFresh
  FixesArrive
