SPECIFICATION Spec
CONSTANTS
  MAX_NOTES = 2
  N_MIDI_CHANNELS = 1
  N_NOTE_BUTTONS = 1
  MaxSteps = 0
  PreviewLeft <- MCNoPreview
  MaxTime = 1
  Pitch <- MCOnePitch
  DrumKey <- MCDrumKey
  DrumPitch <- MCDrumPitch
  Slow <- MCSlow
  ButtonPitch <- MCButtonPitch
  WireChannel <- MCWireDrumOnly
  Waveform <- MCWaveSample
INVARIANTS
  VoiceLifecycle
PROPERTIES
  RestartedAtBoundary
  StealsInOrder
