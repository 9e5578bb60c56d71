SPECIFICATION FairSpec
CONSTANTS
  Velocity <- MCVelocity
  Sustain <- MCSustain
  LevelTime <- MCLevelTime
  Junk <- MCJunk
  Waveform <- MCAnyBuf
INVARIANTS
  TypeOK
  InTable
PROPERTIES
  NeverSwells
  ReleaseEnds
  VoiceEnvelopeSpec
