CONSTANTS
  Repos <- MCRepos
  OwnRepos <- MCOwn
  ProtectedRepos <- MCProtected
  BadgeRepos <- MCBadgeRepos
  Findings <- MCFindings
  WellFormed <- MCWellFormed
  Runs = {r1}
  MaxFaults = 0
SPECIFICATION Spec
INVARIANT ScanReplyNeverFailsRun
