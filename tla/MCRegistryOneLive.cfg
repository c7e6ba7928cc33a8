CONSTANTS
  h1 = h1
  h2 = h2
  h3 = h3
  payments = payments
  other = other
  opencode = opencode
  Handlers <- MCHandlers
  Grants <- MCGrants
  GrantOf <- MCGrantOf
  SubjectOf <- MCSubjectOf
  TTL = 2
  MaxClock = 3
SPECIFICATION Spec
CHECK_DEADLOCK FALSE
INVARIANT OneLiveCredential
