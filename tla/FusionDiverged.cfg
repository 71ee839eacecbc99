SPECIFICATION FusionSpec
CONSTANTS
  FUSION_REJECT_MAX = 3
  FUSION_MEASB_MAX = 1
  GATE_MAX = 2
  FAR = 4
  VEL_MAX = 4
PROPERTIES
  DivergedFilterRecovers
