SPECIFICATION Spec
CONSTANTS
  MaxToolCalls = 3
  ServedContext = 20
  PromptTokens = 8
  WrapperTokens = 0
  MaxReply = 2
  MaxNote = 1
  EvidenceBudget = 6
  ReplySizes <- MCReplySizes
  NoteSizes <- MCNoteSizes
  EvidenceSizes <- MCEvidenceSizes
INVARIANT
  HistoryFitsServedContext
