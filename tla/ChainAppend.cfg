SPECIFICATION FairSpec
CONSTANTS
  Calls = {c1, c2, c3}
  Genesis = Genesis
  NoBlock = NoBlock
  LockIsCleared = TRUE
  MaxCrashes = 0
INVARIANTS
  ChainValid
  AnswersAreTrue
  VerifyNeverRefuses
  OneAppender
PROPERTIES
  AppendOnly
  ImplementsLog
  AppendEnds
