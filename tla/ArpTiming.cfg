SPECIFICATION Spec
CONSTANTS
  MAX_NOTES = 2
  ARP_MAX_NOTES = 2
  PPQ = 12
  ARP_TIME_DIVISION_MAX = 2
  MaxPulse = 13
  MaxTime = 0
  ChordIntervals <- MCChords
  Key <- MCNoKey
  Root <- MCNoRoot
  Control <- MCTiming
INVARIANTS
  TypeOK
  NoHangingNotes
  NeverStuck
