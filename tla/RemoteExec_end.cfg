\* One command from end to end; everything on its way may die.
SPECIFICATION FairSpec
CONSTANTS
  Platform = "darwin"
  Call = {c1}
  Codes <- ExitCodes
INVARIANTS TypeOK AnswerIsTheCommands UnsentNeverRuns OtherCodesAreTheCommands ReceivedZeroIsSuccess
PROPERTIES CallReturns ControllerEnds
