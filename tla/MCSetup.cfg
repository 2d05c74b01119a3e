SPECIFICATION Spec
CONSTANTS
  Optional <- MCOptional
  Settings <- MCSettings
  Foreign <- MCForeign
  Matchers = {"Bash", "Read", "^Bash$"}
  Bounds <- MCBounds
INVARIANTS
  OthersSurvive
  InstalledOnce
  UninstalledIsGone
PROPERTIES
  EditsSurvive
CHECK_DEADLOCK FALSE
