SPECIFICATION FairSpec
CONSTANTS
  MaxToolCalls = 3
  ServedContext = 14
  PromptTokens = 8
  WrapperTokens = 1
  MaxReply = 2
  MaxNote = 1
  EvidenceBudget = 6
  ReplySizes <- MCReplySizes
  NoteSizes <- MCNoteSizes
  EvidenceSizes <- MCEvidenceSizes
INVARIANTS
  TypeOK
  DecisionMatchesTrace
  AuditedCallsAreShownEvidence
  WithheldEvidenceIsFlagged
  StatusMatchesOutcome
  HistoryOverrunBounded
  AnswerIsRecordedFirst
PROPERTIES
  RefusalIsFinal
  AskReturns
