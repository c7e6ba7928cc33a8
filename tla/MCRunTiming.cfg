SPECIFICATION FairSpec
CONSTANTS
  CallTimes = {0, 20}
  ModelTimes = {5, 255}
  DirectoryTimes = {0, 280, 3000}
  MaxSlow = 1
  RunTimeout = 300
  TicketTimeout = 90
  SpawnTimeout = 60
  UserLife = 900
  AssertionLife = 300
  AccessLife = 300
  Skew = 60
INVARIANT TypeOK
INVARIANT WritesExpire
INVARIANT NothingExpiresWhileWaited
PROPERTY UserIsAnswered
PROPERTY OnlyTheDirectoryHangs
