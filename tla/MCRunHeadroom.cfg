SPECIFICATION Spec
CONSTANTS
  CallTimes = {0}
  ModelTimes = {5, 240}
  DirectoryTimes = {0}
  MaxSlow = 0
  RunTimeout = 300
  TicketTimeout = 90
  SpawnTimeout = 60
  UserLife = 900
  AssertionLife = 300
  AccessLife = 300
  Skew = 60
INVARIANT HeadroomCoversRun
