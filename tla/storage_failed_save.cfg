SPECIFICATION Spec
CONSTANTS
  p = p
  q = q
  SlotCount = 1
  Profiles = {p, q}
  Factory = Factory
  Invalid = Invalid
  LegacyRecords <- NoLegacy
  GenModulus = 8
  SaveBound = 5
  Faults = {"alloc"}
  MaxFaults = 1
INVARIANT FailedSaveKeepsOld
