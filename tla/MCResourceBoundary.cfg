CONSTANTS
  w1 = w1
  w2 = w2
  s1 = s1
  s2 = s2
  Workers <- MCWorkers
  Suffixes <- MCSuffixes
  Repos <- MCRepos
  OwnRepos <- MCRepos
  ProtectedRepos <- MCProtected
  BadgeRepos <- MCBadgeRepos
  Findings <- MCFindings
  WellFormed <- MCFindings
  Seeded <- MCSeeded
  MaxCalls = 2
  MaxFaults = 2
SPECIFICATION Spec
SYMMETRY MCSymmetry
INVARIANT TypeOK
INVARIANT PullsComeFromOwnPushes
INVARIANT UnhurtRemediationsSucceed
INVARIANT UnhurtFailuresLeaveNothing
INVARIANT ProtectedReposAreSpared
INVARIANT OnlyDelegatedWrites
INVARIANT GatewayAgreesWithEnvoy
