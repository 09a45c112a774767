SPECIFICATION Spec
CONSTANTS
  Frames = {f}
  Factory = Factory
  None = None
  TxMax = 1
  TxMayHang = FALSE
  SlotCount = 1
  LEARNING_TIMEOUT = 1
  SENDING_TIMEOUT = 3
  SENT_AUTO_RETURN = 1
  MENU_TIMEOUT = 1
  MaxLag = 1
INVARIANTS ChannelInv TransmitBufferStable SentMeansDelivered
