SPECIFICATION Spec
CONSTANTS
  Attachments = 1
  MaxFrames = 3
INVARIANTS
  CompleteAnswerKept
PROPERTIES
  KeepsContract
  ComesBack
