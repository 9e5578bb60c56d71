SPECIFICATION Spec
CONSTANTS
  MAX_NOTES = 2
  SEQ_LENGTH = 2
  SEQ_NUM_TRACKS = 2
  seqStartPulse = 3
  WORD = 65536
  MaxPulse = 7
  MaxMoves = 7
  SampleChosen <- MCWaves
  Key <- MCKey
  DrumKey <- MCDrumKey
  DrumPitch <- MCDrumPitch
  Control <- MCControl
  KnobAt <- MCKnobAt
  Cost <- MCCost
INVARIANTS
  TypeOK
  TrackOwnsItsVoice
  HeldOrTimed
PROPERTIES
  StopsEverything
