SPECIFICATION Spec
CONSTANTS
  Issuers = {"org-a"}
  Passes = {p1, p2}
  Clients = {"opencode"}
  IssuerOf <- OrgOf
  MaxTries = 2
  MaxStarts = 2
  MaxFaults = 1
PROPERTY SkippedMeansSameKey
