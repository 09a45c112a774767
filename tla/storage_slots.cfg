SPECIFICATION FairSpec
CONSTANTS
  p = p
  q = q
  SlotCount = 2
  Profiles = {p}
  Factory = Factory
  Invalid = Invalid
  LegacyRecords <- SomeLegacy
  GenModulus = 6
  SaveBound = 3
  Faults = {"alloc", "sparerot", "load"}
  MaxFaults = 1
INVARIANTS StoreInv
PROPERTIES ImplementsProfileStore BootSettles
