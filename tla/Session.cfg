CONSTANTS
  MaxRecordings = 2
  Texts = {"failed", "rejected", "accepted"}
  NoId = NoId
SPECIFICATION FairSpec
INVARIANTS
  
  LiveRecordingShown
  PastedOnce
  CancelledNotShown
  RestShowsIdle
PROPERTIES
  OnlyOwnSilenceEnds
  SilenceEndsRecording
  NothingWaitsForever
  KeepsPromise
