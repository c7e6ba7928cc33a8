--------------------------- MODULE DelegationBase ---------------------------
(***************************************************************************)
(* The state the three agents of one remediation run share, and the idiom  *)
(* their handlers have in common.  POST /api/run starts OpenCode's         *)
(* handler, which calls Triage's POST /api/ticket, which calls the         *)
(* Sub-Agent's POST /api/run.  Each handler appends one entry per step to  *)
(* its report; here the report is a function from step id to status and    *)
(* the handler's position is the id of the step it is about to run.        *)
(***************************************************************************)
EXTENDS Policies, FiniteSets

CONSTANTS
  Runs,      \* ids of the runs started through OpenCode's /api/run
  MaxFaults  \* how many calls may fail, answers be lost or agents crash

ASSUME FaultAssumption == MaxFaults \in Nat

VARIABLES
  opc, osteps, verdict,  \* OpenCode: position, report, the "ok" it answers
  tpc, tsteps,           \* Triage: position, report
  spc, ssteps,           \* Sub-Agent: position, report
  task,                  \* what a run was asked to do, and the finding
  badges,                \* agent badges published to the Identity Node
  minted,                \* ID-JAGs the two Keycloaks minted
  tokens,                \* access tokens Keycloak B issued for them
  sent,                  \* writes the gateway ever passed on to Gitea
  branches, pulls,       \* what the runs left in Gitea
  faults                 \* failures so far

ocVars == <<opc, osteps, verdict>>
trVars == <<tpc, tsteps>>
saVars == <<spc, ssteps>>
world  == <<task, badges, minted, tokens, sent, branches, pulls>>
vars   == <<ocVars, trVars, saVars, world, faults>>

Statuses == {"none", "ok", "error", "denied", "skipped"}

\* A remote call fails, its answer is lost, a caller gives up, an agent dies.
Fault == faults < MaxFaults /\ faults' = faults + 1

-----------------------------------------------------------------------------
(* What the agents ask for                                                 *)

ReadAssertion(r) ==
  [iss |-> "org-a", sub |-> "sarah", azp |-> OpenCode,
   scope |-> {"openid", "gitea:read"}, chain |-> <<OpenCode>>,
   intent |-> {"scan-source"}, resource |-> {task[r].repo}]

TriageAssertion(r) ==
  [iss |-> "org-a", sub |-> "sarah", azp |-> Triage,
   scope |-> {"openid", "triage:create"}, chain |-> <<OpenCode>>,
   intent |-> {"create-pr-fix"}, resource |-> {}]

\* The body of POST /api/ticket.
Ticket(r) ==
  [agent |-> OpenCode, chain |-> <<OpenCode>>, intent |-> "create-pr-fix",
   repo |-> task[r].repo, cve |-> task[r].cve]

\* t3 asks the PDP for SUBBADGE_SCOPE_REQUEST and is answered with the same
\* scope and repository, which t5 mints the sub-badge with.
SubbadgeScope == {"openid", "gitea:write", "gitea:pr"}

SubChain(r) == Append(Ticket(r).chain, Triage)

SubBadge(r) ==
  [iss |-> "org-b", sub |-> "sarah", azp |-> SubAgent, scope |-> SubbadgeScope,
   chain |-> SubChain(r), intent |-> {Ticket(r).intent},
   resource |-> {Ticket(r).repo}]

\* The body of the Sub-Agent's POST /api/run.
Spawn(r) ==
  [chain |-> Append(SubChain(r), SubAgent), intent |-> Ticket(r).intent,
   repo |-> Ticket(r).repo]

-----------------------------------------------------------------------------
(* Keycloak, the Identity Node and the badges in it                        *)

\* Keycloak signs the assertion the client declared.
Mint(r, assertion) == minted' = minted \cup {[run |-> r, claims |-> assertion]}

\* jwt-bearer at Keycloak B: an assertion's jti is accepted once, and the
\* access token goes to the client the assertion targets.
Redeem(r, assertion, scope) ==
  LET grant == [run |-> r, claims |-> assertion] IN
  /\ grant \in minted
  /\ \A t \in tokens : t.grant # grant
  /\ tokens' = tokens \cup
       {[grant |-> grant,
         access |-> [azp |-> assertion.azp, user |-> assertion.sub, scope |-> scope]]}

\* The access token a handler holds for the assertion it redeemed.
HasToken(r, assertion) ==
  \E t \in tokens : t.grant = [run |-> r, claims |-> assertion]

TokenOf(r, assertion) ==
  (CHOOSE t \in tokens : t.grant = [run |-> r, claims |-> assertion]).access

\* issue_badge: publish the badge unless a live one says the same.
IssueBadge(subject, caps, delegatable, chain) ==
  badges' = badges \cup
    {[subject |-> subject, caps |-> caps, delegatable |-> delegatable,
      chain |-> chain]}
=============================================================================
