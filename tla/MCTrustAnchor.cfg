SPECIFICATION FairSpec
CONSTANTS
  Issuers = {"org-a", "org-b"}
  Passes = {p1, p2}
  Clients = {"opencode"}
  IssuerOf <- OrgOf
  MaxTries = 2
  MaxStarts = 2
  MaxFaults = 1
INVARIANT TypeOK
INVARIANT BootstrapEstablishesTrust
INVARIANT ProofsHoldUntilLoss
PROPERTY BootstrapEnds
PROPERTY BootstrapIsRepeatable
