SPECIFICATION Spec
CONSTANTS
  Words = {b, c, n}
  Payloads = {{n}, {b, c, n}}
  GEN_MOD = 4
  MaxStall = 3
  MaxPublish = 4
PROPERTIES
  AcceptedCopyIsConsistent
