SPECIFICATION FairSpec
CONSTANTS
  Values = {z, d, v}
  Default = d
  Zero = z
  SEQ_MOD = 4
INVARIANTS
  LastGoodRecordStands
PROPERTIES
  StoreSpec
  SaveAnswered
