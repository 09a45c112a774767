SPECIFICATION Spec
CONSTANTS
  Frames = {f}
  Factory = Factory
  None = None
  TxMax = 1
  TxMayHang = TRUE
  SlotCount = 1
  LEARNING_TIMEOUT = 1
  SENDING_TIMEOUT = 1
  SENT_AUTO_RETURN = 1
  MENU_TIMEOUT = 1
  MaxLag = 0
INVARIANTS TransmitBufferStable
