SPECIFICATION HistorySpec
CONSTANTS
  DEBOUNCE = 2
  LONG_PRESS = 5
  MaxGap = 3
INVARIANTS ButtonInv NoSecondSwallow
PROPERTIES Debounced BothLongOnce ChordIsSilent
