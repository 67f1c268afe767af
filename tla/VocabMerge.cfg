SPECIFICATION Spec
CONSTANTS
  c1 = c1
  c2 = c2
  e1 = e1
  Clips = {c1, e1}
  Earlier <- EarlierRun
  Newline = newline
  None = none
  Cap = 1
  MaxBody = 60
  Engines = {"parakeet"}
  Spoken <- SpokenDashed
  Language = "en"
  NoSpeechMax = 60
  LogprobMin <- MinusHundred
  Vocabulary <- MCVocabulary
  Corrections <- MCCorrections
  Snippets <- MCSnippets
  Workflows <- MCWorkflows
  Blacklist <- MCBlacklist
  FuzzyRatio = 85
INVARIANT PunctuationKept
CHECK_DEADLOCK FALSE
