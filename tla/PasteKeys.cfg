CONSTANTS
  Clips = {c1, c2}
  NoClip = NoClip
  MaxCopies = 1
SPECIFICATION Spec
INVARIANT ClipboardPreserved
