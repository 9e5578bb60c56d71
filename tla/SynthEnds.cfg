SPECIFICATION FairSpec
CONSTANTS
  MAX_NOTES = 1
  N_MIDI_CHANNELS = 1
  N_NOTE_BUTTONS = 1
  MaxSteps = 1
  PreviewLeft <- MCPreview
  MaxTime = 0
  Pitch <- MCOnePitch
  DrumKey <- MCDrumKey
  DrumPitch <- MCDrumPitch
  Slow <- MCSlow
  ButtonPitch <- MCButtonPitch
  WireChannel <- MCWireMelodic
  Waveform <- MCAnyWaveform
PROPERTIES
  CallReturns
  ReleasedVoiceEnds
