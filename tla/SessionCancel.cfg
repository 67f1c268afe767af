CONSTANTS
  MaxRecordings = 2
  Texts = {"failed", "rejected", "accepted"}
  NoId = NoId
SPECIFICATION Spec
PROPERTY CancelStopsInjection
