SPECIFICATION Spec
CONSTANTS
  MAX_NOTES = 1
  N_MIDI_CHANNELS = 2
  N_NOTE_BUTTONS = 1
  MaxSteps = 1
  PreviewLeft <- MCPreview
  MaxTime = 0
  Pitch <- MCPitch
  DrumKey <- MCDrumKey
  DrumPitch <- MCDrumPitch
  Slow <- MCSlow
  ButtonPitch <- MCButtonPitch
  WireChannel <- MCWireDrums
  Waveform <- MCWaveSample
INVARIANTS
  TypeOK
  DrumVoicesAreSamples
  NoHangingNotes
  WaveformFollowsChannel
  ButtonVoiceInStep
