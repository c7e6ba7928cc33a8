----------------------------- MODULE TriageAgent -----------------------------
(***************************************************************************)
(* Triage's POST /api/ticket (triage-agent/app.py): verify the ID-JAG and  *)
(* the sender's badge, register, have Org B's PDP approve the narrowing,   *)
(* publish a badge, mint the sub-badge at Keycloak B and spawn the         *)
(* Sub-Agent with it.  The handler starts in OpenCodeAgent!CreateTicket.   *)
(***************************************************************************)
EXTENDS DelegationBase

TrSteps ==
  {"opa-ingress", "verify-idjag", "verify-sender-badge", "cimd-generate-id",
   "cimd-resolve-id", "subbadge-scope-check", "resolve-badge", "plan",
   "mint-sub-badge", "dir-push", "dir-search", "spawn-sub-agent"}

TrPositions ==
  (TrSteps \ {"opa-ingress", "plan"})
     \cup {"idle", "await-sub-agent", "replied", "crashed"}

TrBusy(r) == tpc[r] \notin {"idle", "replied", "crashed"}

TrFatal ==
  {"verify-idjag", "verify-sender-badge", "cimd-generate-id", "cimd-resolve-id",
   "subbadge-scope-check", "resolve-badge", "mint-sub-badge"}

TrInit ==
  /\ tpc    = [r \in Runs |-> "idle"]
  /\ tsteps = [r \in Runs |-> [s \in TrSteps |-> "none"]]

-----------------------------------------------------------------------------
TrRecord(r, step, status, next) ==
  /\ tpc[r] = step
  /\ tsteps' = [tsteps EXCEPT ![r][step] = status]
  /\ tpc' = [tpc EXCEPT ![r] = next]

TrOk(r, step, next) == TrRecord(r, step, "ok", next) /\ UNCHANGED faults

\* Mutant: a status outside the report's vocabulary.
TrHaltFailed(r, step) == TrRecord(r, step, "failed", "replied")

\* return JSONResponse({"ok": False, ...}) with the failed step in the report.
TrHalt(r, step) == TrRecord(r, step, "error", "replied")

TrRefused(r, step) == TrHalt(r, step) /\ UNCHANGED faults

TrAnswered(r, step, next) == TrOk(r, step, next) \/ (TrHalt(r, step) /\ Fault)

-----------------------------------------------------------------------------
\* A verification, registration, PDP or token call that fails or times out.
TrCallFails(r) ==
  /\ Fault
  /\ \E step \in TrFatal : TrHalt(r, step)
  /\ UNCHANGED <<ocVars, saVars, world>>

\* t1b: the ID-JAG itself, independently of Envoy.
VerifyIdJag(r) ==
  /\ IF IdJagAccepted(TriageAssertion(r), Ticket(r))
       THEN TrOk(r, "verify-idjag", "verify-sender-badge")
       ELSE TrRefused(r, "verify-idjag")
  /\ UNCHANGED <<ocVars, saVars, world>>

\* t1c: the first badge listed for the sender that delegates anything must
\* agree with the assertion; which one is listed first is the node's choice.
VerifyOpenCodeBadge(r) ==
  /\ LET candidates == {b \in badges : b.subject = OpenCode /\ b.delegatable # {}} IN
       \/ \E b \in candidates :
            IF SenderBadgeAgrees(b, TriageAssertion(r), Ticket(r).chain)
              THEN TrOk(r, "verify-sender-badge", "cimd-generate-id")
              ELSE TrRefused(r, "verify-sender-badge")
       \/ candidates = {} /\ TrRefused(r, "verify-sender-badge")
  /\ UNCHANGED <<ocVars, saVars, world>>

\* t2: register Triage's own identity and resolve it.
RegisterTriage(r) ==
  /\ \/ TrOk(r, "cimd-generate-id", "cimd-resolve-id")
     \/ TrOk(r, "cimd-resolve-id", "subbadge-scope-check")
  /\ UNCHANGED <<ocVars, saVars, world>>

\* t3: may this delegation be narrowed?
SubbadgeScopeCheck(r) ==
  /\ IF /\ HasToken(r, TriageAssertion(r))
        /\ SubbadgeScopeAllows(TokenOf(r, TriageAssertion(r)), SubbadgeScope,
                               Ticket(r).repo, Ticket(r).intent)
       THEN TrOk(r, "subbadge-scope-check", "resolve-badge")
       ELSE TrRefused(r, "subbadge-scope-check")
  /\ UNCHANGED <<ocVars, saVars, world>>

\* t3b and t4: Triage's own badge says what it holds and what t3 lets it
\* delegate; the ticket is then planned, which cannot fail.
TriageBadge(r) ==
  /\ IssueBadge(Triage, TriageAssertion(r).scope, SubbadgeScope, SubChain(r))
  /\ \/ /\ tpc[r] = "resolve-badge"
        /\ tpc' = [tpc EXCEPT ![r] = "mint-sub-badge"]
        /\ tsteps' = [tsteps EXCEPT ![r]["resolve-badge"] = "ok", ![r]["plan"] = "ok"]
        /\ UNCHANGED faults
     \/ TrHalt(r, "resolve-badge") /\ Fault
  /\ UNCHANGED <<ocVars, saVars, task, minted, tokens, sent, branches, pulls>>

\* t5: Keycloak B mints the narrowed sub-badge from Triage's access token.
MintSubBadge(r) ==
  /\ IF DelegationPermitted("org-b", Triage, SubBadge(r).scope)
       THEN TrAnswered(r, "mint-sub-badge", "dir-push") /\ Mint(r, SubBadge(r))
       ELSE TrRefused(r, "mint-sub-badge") /\ UNCHANGED minted
  /\ UNCHANGED <<ocVars, saVars, task, badges, tokens, sent, branches, pulls>>

\* t6, t6b: the turn record and the search for the Sub-Agent; neither failure
\* ends the handler.
UseDirectoryB(r) ==
  /\ \/ TrOk(r, "dir-push", "dir-search")
     \/ TrRecord(r, "dir-push", "error", "dir-search") /\ Fault
     \/ TrOk(r, "dir-search", "spawn-sub-agent")
     \/ TrRecord(r, "dir-search", "error", "spawn-sub-agent") /\ Fault
  /\ UNCHANGED <<ocVars, saVars, world>>

\* t7: POST /api/run at the Sub-Agent, whose handler starts ...
SpawnSubAgent(r) ==
  /\ tpc[r] = "spawn-sub-agent"
  /\ tpc' = [tpc EXCEPT ![r] = "await-sub-agent"]
  /\ spc' = [spc EXCEPT ![r] = "verify-subbadge"]
  /\ UNCHANGED <<tsteps, ssteps, ocVars, world, faults>>

\* ... or the request is lost.
SpawnLost(r) ==
  /\ TrRecord(r, "spawn-sub-agent", "error", "replied") /\ Fault
  /\ UNCHANGED <<ocVars, saVars, world>>

SpawnFinishes(r, status) ==
  /\ tpc[r] = "await-sub-agent"
  /\ tpc' = [tpc EXCEPT ![r] = "replied"]
  /\ tsteps' = [tsteps EXCEPT ![r]["spawn-sub-agent"] = status]
  /\ UNCHANGED <<ocVars, saVars, world>>

\* Mutant: the Sub-Agent is started and not waited for.
SpawnForgotten(r) ==
  /\ spc[r] # "idle"
  /\ SpawnFinishes(r, "ok")
  /\ UNCHANGED faults

\* An HTTP 200 makes t7 "ok" whatever the Sub-Agent's own "ok" says.
SpawnAnswered(r) ==
  /\ spc[r] = "replied"
  /\ SpawnFinishes(r, "ok")
  /\ UNCHANGED faults

\* The Sub-Agent died, or timeout=60 ran out while it goes on working.
SpawnAbandoned(r) ==
  /\ \/ spc[r] = "crashed" /\ UNCHANGED faults
     \/ spc[r] # "crashed" /\ Fault
  /\ SpawnFinishes(r, "error")

TriageCrash ==
  /\ Fault
  /\ \E r \in Runs : TrBusy(r)
  /\ tpc' = [r \in Runs |-> IF TrBusy(r) THEN "crashed" ELSE tpc[r]]
  /\ UNCHANGED <<tsteps, ocVars, saVars, world>>

TrNext(r) ==
  \/ TrCallFails(r) \/ VerifyIdJag(r) \/ VerifyOpenCodeBadge(r)
  \/ RegisterTriage(r) \/ SubbadgeScopeCheck(r) \/ TriageBadge(r)
  \/ MintSubBadge(r) \/ UseDirectoryB(r) \/ SpawnSubAgent(r) \/ SpawnLost(r)
  \/ SpawnAnswered(r) \/ SpawnAbandoned(r)
=============================================================================
