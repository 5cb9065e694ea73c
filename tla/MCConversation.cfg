SPECIFICATION Spec
CONSTANTS
  Answers <- MCAnswers
  Models <- MCModels
  Wishes <- MCWishes
  Plain <- MCPlain
  Words <- MCWords
  Results <- MCResults
  Media = {"anthropic"}
  MaxAnswers = 2
  MaxTries = 2
CHECK_DEADLOCK FALSE
INVARIANTS
  Remembered
  SealsComeHome
  CallsAnswered
  AskedAsMeant
