SPECIFICATION Spec
CONSTANTS
  MAX_NOTES = 1
  ARP_MAX_NOTES = 2
  PPQ = 12
  ARP_TIME_DIVISION_MAX = 2
  MaxPulse = 4
  MaxTime = 1
  ChordIntervals <- MCOneNote
  Key <- MCKey
  Root <- MCOneRoot
  Control <- MCKeys
INVARIANTS
  ArpeggioOfKeys
  PositionAmongKeys
