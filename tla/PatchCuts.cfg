SPECIFICATION Spec
CONSTANTS
  N_SETTINGS = 1
  SEQ_NUM_TRACKS = 1
  SEQ_LENGTH = 1
  NUM_PATCHES = 2
  PATCH_BASE_ADDR = 5
  PATCH_SIZE = 29
  EEPROM_SIZE = 63
  Tuning <- MCTuning
  Version = {1}
  Mode = {1, 3}
  MaxSaves = 2
  MaxCuts = 1
INVARIANTS
  TypeOK
  SavedIsLoaded
  PlayedIsStored
  TuningInRange
PROPERTIES
  PatchesApart
