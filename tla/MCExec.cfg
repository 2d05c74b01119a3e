SPECIFICATION ExecSpec
CONSTANTS
  Native <- MCNative
  Script <- MCScript
  Prompt <- MCPrompt
  Signature <- MCSignature
  Routable <- MCRoutable
  Builtin <- MCBuiltin
  Ndjson <- MCNdjson
  Cordon <- MCCordon
  Rank <- MCRank
  Strangers <- MCStrangers
  Inputs <- MCInputs
  Registries <- MCRegistries
  Sizes <- MCSizes
  MaxChain = 2
  InferdTimeout = 3
  ScriptTimeout = 6
  CordonTimeout = 6
  HelpersOutlive = FALSE
  Policies <- MCPolicies
  Fates <- MCFates
INVARIANTS
  NoUninvitedProcessor
  SignatureDecides
  NativeNeverGrows
  CordonNeverWorsens
  DeadlineIsTold
  DeniedNeverRuns
  ChildSpeaksThrough
PROPERTIES
  KeepsPromise
  Exits
