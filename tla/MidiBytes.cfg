SPECIFICATION Spec
CONSTANTS
  Capacity = 1
  UART_DEPTH = 1
  N_MIDI_CHANNELS = 4
  Byte <- MCByte
  NoByte <- MCNoByte
  Messages <- MCMessages
  RealTime <- MCRealTime
  RunningLengths <- MCLong
INVARIANTS
  TypeOK
PROPERTIES
  DeliveredAsSent
  RealTimeAlwaysHeard
  UsbAgrees
