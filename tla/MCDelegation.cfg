CONSTANTS
  Repos <- MCRepos
  OwnRepos <- MCOwn
  ProtectedRepos <- MCProtected
  BadgeRepos <- MCBadgeRepos
  Findings <- MCFindings
  WellFormed <- MCWellFormed
  Runs = {r1}
  MaxFaults = 3
SPECIFICATION FairSpec
INVARIANT TypeOK
INVARIANT VerdictIsTruthful
INVARIANT OkVerdictIsFinal
INVARIANT WritesFollowApproval
INVARIANT HaltedRunsHaveNoEffect
INVARIANT RefusedRunsLeaveNothing
INVARIANT AuthorityNarrows
PROPERTY EveryRunEnds
PROPERTY CleanRunSucceeds
PROPERTY KeepsPromise
