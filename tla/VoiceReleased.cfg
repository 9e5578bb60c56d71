SPECIFICATION Spec
CONSTANTS
  Pitch = {60, 61}
  Slow = {61}
  Bend = {0, 1}
  Waveform = {"wave", "noise", "sample"}
PROPERTIES
  ReleaseHolds
