SPECIFICATION RingSpec
CONSTANTS
  RX_BUFFER_SIZE = 5
  UART_DEPTH = 2
  Byte = {b1, b2, b3}
  NoByte = NoByte
INVARIANTS
  RingTypeOK
PROPERTIES
  RingIsFifo
