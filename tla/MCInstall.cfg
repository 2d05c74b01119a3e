SPECIFICATION InstallSpec
CONSTANTS
  Platforms = {"linux", "darwin", "windows"}
  Versions = {1, 2, 3, 4}
  MinVersion = 2
  Pins = {0, 1, 3, 4}
  ReleaseLists <- MCReleaseLists
  Oversized = {4}
  Bare = {1}
  Models = {"gemma.gguf", "embed.safetensors"}
  Remains = {"unit", "thlibod"}
INVARIANTS
  FreshIsWhole
  StableUnlessPinned
  ModelNeverLost
PROPERTIES
  HealthyLeftAlone
