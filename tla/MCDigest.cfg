SPECIFICATION FairSpec
CONSTANTS
  MaxInput = 11
  maxMessageBytes = 3
  Day = 5
  DigestAt = 0
  CheckAt = 3
  MaxAge = 6
  RunHours = 1
  SectionCount = 2
  Answers <- MCAnswers
PROPERTIES
  PostedIsInTheChannel
  SilenceIsNoticed
  AlarmTellsAboutToday
  SilenceIsHeard
