CONSTANTS
  Clips = {c1, c2}
  NoClip = NoClip
  MaxCopies = 1
SPECIFICATION FairSpec
INVARIANTS
  ClipboardKept
  TranscriptNotLeft
PROPERTIES
  InsertsItsOwn
  DeliveryEnds
