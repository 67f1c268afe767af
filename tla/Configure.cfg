SPECIFICATION FairSpec
CONSTANTS
  Engines = {"parakeet", "whisper"}
  Pinned = {"parakeet"}
  DefaultConfig <- MCDefault
  HandEdits <- MCHandEdits
  Workloads <- MCWorkloads
  Backend = "auto"
  Display <- MCDisplay
  Screen <- MCScreen
  OptionsOf <- MCOptionsOf
INVARIANTS
  MicrophoneHeld
  SavedConfigStarts
  ModelWhole
PROPERTIES
  UnsavedKept
  UserChoicesKept
  SetupMakesReady
CHECK_DEADLOCK FALSE
