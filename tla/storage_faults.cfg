SPECIFICATION FaultSpec
CONSTANTS
  p = p
  q = q
  SlotCount = 1
  Profiles = {p, q}
  Factory = Factory
  Invalid = Invalid
  LegacyRecords <- SomeLegacy
  GenModulus = 8
  SaveBound = 5
  Faults = {"rot", "read", "badwrite"}
  MaxFaults = 1
INVARIANTS FaultInv OneFaultLosesOneSave
PROPERTIES NeverWritesActiveCopy
