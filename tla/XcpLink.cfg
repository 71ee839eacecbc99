SPECIFICATION FairSpec
CONSTANTS
  XCP_DAQ_MAX_ODTS = 2
  XCP_DAQ_MAX_ENTRIES = 2
  XCP_DAQ_MAX_ODT_DATA = 2
  Objects = {"a", "b", "big"}
  Size <- MCSize
  NoObject = "null"
  Clients = {"gui", "tool"}
  NoClient = NoClient
  Master = "gui"
  Plans <- MCPlans
  MaxQueue = 3
INVARIANTS
  DaqInBounds
PROPERTIES
  DecodesAsConfigured
  SilentWhileConfiguring
  StreamFlows
