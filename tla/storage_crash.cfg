SPECIFICATION Spec
CONSTANTS
  p = p
  q = q
  SlotCount = 1
  Profiles = {p, q}
  Factory = Factory
  Invalid = Invalid
  LegacyRecords <- NoLegacy
  GenModulus = 6
  SaveBound = 4
  Faults = {"badwrite", "sparerot"}
  MaxFaults = 1
INVARIANTS ParityInv LearnedIsDurable
PROPERTIES NeverWritesActiveCopy SaveKeepsPrevious ImplementsProfileStore
