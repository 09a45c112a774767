SPECIFICATION Spec
CONSTANTS
  StateBytes = 5
  ByteBits = 2
  SignatureBytes = 3
  Signature <- SmallSignature
  Transmissions <- MCTransmissions
  MaxNoise = 2
  Spots = {1, 23, 26}
  MIN_VALID_PULSES = 10
INVARIANTS LearnsOnlyWhatWasSent SurvivesInterference AmbiguousIsRefused CaptureIsCanonical SendsOneFrame LearnedCanBeSent LegibleIsLearned UndisturbedIsLearned
