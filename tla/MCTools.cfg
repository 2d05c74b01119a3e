SPECIFICATION ToolsSpec
CONSTANTS
  Outputs <- MCOutputs
  Instructions <- MCFiles
  Answers <- MCAnswers
  Rewrites <- MCRewrites
  ShorthandRuns = 2
INVARIANTS
  VerdictsKept
  DiffsCounted
  TextSurvives
  FindingsTold
  RecordsTold
  RareIsReported
  AnswerSurvives
  ConfigsKnown
  WrappedAsInstalled
  PriorIsKept
PROPERTY DirectivesSurvive
