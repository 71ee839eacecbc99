SPECIFICATION MCSpec
CONSTANTS
  Words = {alt, ref, ok}
  Payloads = {{ok}, {alt, ref, ok}}
  GEN_MOD = 3
  MaxStall = 2
  MaxPublish = 4
  FUSION_REJECT_MAX = 3
  FUSION_MEASB_MAX = 1
  GATE_MAX = 2
  FAR = 4
  VEL_MAX = 4
PROPERTIES
  FusedSampleIsWhole
  NothingStaleTaken
  ConsumerCatchesUp
  VerticalRecovers
  HorizontalRecovers
