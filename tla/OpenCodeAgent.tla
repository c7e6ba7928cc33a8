---------------------------- MODULE OpenCodeAgent ----------------------------
(***************************************************************************)
(* OpenCode's POST /api/run (opencode-agent/app.py): Sarah signs in, the   *)
(* agent registers itself, gets a policy-scoped badge, reads Org B's       *)
(* source under a read assertion, scans it, and delegates the fix to       *)
(* Triage under a second assertion.  A step that fails ends the handler,   *)
(* except the scan, the plan and the two Directory steps.                  *)
(***************************************************************************)
EXTENDS DelegationBase

OcSteps ==
  {"sarah-login", "cimd-generate-id", "cimd-resolve-id", "badge-scope-check",
   "resolve-badge", "mint-read-idjag", "read-egress-check", "kc-b-read-exchange",
   "fetch-source", "scan", "opencode-plan", "dir-push", "dir-search",
   "kc-a-exchange", "mint-idjag", "egress-check", "kc-b-exchange",
   "create-ticket"}

OcPositions == OcSteps \cup {"idle", "await-ticket", "done", "crashed"}

OcBusy(r) == opc[r] \in OcSteps \cup {"await-ticket"}

\* Steps whose failure makes _fail() end the handler.
OcFatal ==
  OcSteps \ {"scan", "opencode-plan", "dir-push", "dir-search", "create-ticket"}

OcInit ==
  /\ opc     = [r \in Runs |-> "idle"]
  /\ osteps  = [r \in Runs |-> [s \in OcSteps |-> "none"]]
  /\ verdict = [r \in Runs |-> "none"]

-----------------------------------------------------------------------------
\* Append one step to the report and go on to the next.
OcRecord(r, step, status, next) ==
  /\ opc[r] = step
  /\ osteps' = [osteps EXCEPT ![r][step] = status]
  /\ opc' = [opc EXCEPT ![r] = next]

OcOk(r, step, next) ==
  OcRecord(r, step, "ok", next) /\ UNCHANGED <<verdict, faults>>

\* s.update(status="error"); steps.append(s); return _fail()
OcHalt(r, step) ==
  OcRecord(r, step, "error", "done") /\ verdict' = [verdict EXCEPT ![r] = "failed"]

OcRefused(r, step) == OcHalt(r, step) /\ UNCHANGED faults

\* A call that took effect: its answer arrives, or is lost.
OcAnswered(r, step, next) ==
  OcOk(r, step, next) \/ (OcHalt(r, step) /\ Fault)

\* A step that never ends the handler: ok, or its own failure status.
OcTolerated(r, step, failure, next) ==
  \/ OcOk(r, step, next)
  \/ OcRecord(r, step, failure, next) /\ Fault /\ UNCHANGED verdict

-----------------------------------------------------------------------------
\* POST /api/run: the repository and the fallback finding come with the request.
StartRun(r, repo, cve) ==
  /\ opc[r] = "idle"
  /\ opc' = [opc EXCEPT ![r] = "sarah-login"]
  /\ task' = [task EXCEPT ![r] = [repo |-> repo, cve |-> cve]]
  /\ UNCHANGED <<osteps, verdict, trVars, saVars, badges, minted, tokens,
                 sent, branches, pulls, faults>>

\* Any fatal step may fail before it has had an effect.
OcCallFails(r) ==
  /\ Fault
  /\ \E step \in OcFatal : OcHalt(r, step)
  /\ UNCHANGED <<trVars, saVars, world>>

\* Steps 1-3: sign in at Keycloak A, generate and resolve the agent's own id.
SignIn(r) ==
  /\ \/ OcOk(r, "sarah-login", "cimd-generate-id")
     \/ OcOk(r, "cimd-generate-id", "cimd-resolve-id")
     \/ OcOk(r, "cimd-resolve-id", "badge-scope-check")
  /\ UNCHANGED <<trVars, saVars, world>>

\* Step 4: Org A's PDP decides whether the task may have a badge at all.
BadgeScopeCheck(r) ==
  /\ IF BadgeScopeAllows("sarah", OpenCode, task[r].repo)
       THEN OcOk(r, "badge-scope-check", "resolve-badge")
       ELSE OcRefused(r, "badge-scope-check")
  /\ UNCHANGED <<trVars, saVars, world>>

\* Step 5: the badge is published, then verified.
ResolveBadge(r) ==
  /\ OcAnswered(r, "resolve-badge", "mint-read-idjag")
  /\ IssueBadge(OpenCode, {"scan", "remediate", "delegate", "gitea:read"},
                {"openid", "triage:create"}, <<OpenCode>>)
  /\ UNCHANGED <<trVars, saVars, task, minted, tokens, sent, branches, pulls>>

\* Step 5b: Keycloak A mints the read assertion.
MintRead(r) ==
  /\ IF DelegationPermitted("org-a", OpenCode, ReadAssertion(r).scope)
       THEN /\ OcAnswered(r, "mint-read-idjag", "read-egress-check")
            /\ Mint(r, ReadAssertion(r))
       ELSE OcRefused(r, "mint-read-idjag") /\ UNCHANGED minted
  /\ UNCHANGED <<trVars, saVars, task, badges, tokens, sent, branches, pulls>>

\* Step 5c: Org A's egress PDP on the read assertion.
ReadEgressCheck(r) ==
  /\ IF EgressAllows(ReadAssertion(r))
       THEN OcOk(r, "read-egress-check", "kc-b-read-exchange")
       ELSE OcRefused(r, "read-egress-check")
  /\ UNCHANGED <<trVars, saVars, world>>

\* Step 5d: Keycloak B trades it for an access token that carries gitea:read.
RedeemRead(r) ==
  /\ OcAnswered(r, "kc-b-read-exchange", "fetch-source")
  /\ Redeem(r, ReadAssertion(r), {"openid", "gitea:read"})
  /\ UNCHANGED <<trVars, saVars, task, badges, minted, sent, branches, pulls>>

\* Mutant: a source that cannot be read is reported, but does not end the run.
FetchSourceTolerated(r) ==
  /\ OcTolerated(r, "fetch-source", "error", "scan")
  /\ UNCHANGED <<trVars, saVars, world>>

\* Step 5e: the source, through Envoy B and gitea-gateway.
FetchSource(r) ==
  /\ IF /\ HasToken(r, ReadAssertion(r))
        /\ ReadAllows(TokenOf(r, ReadAssertion(r)), ReadAssertion(r), task[r].repo)
       THEN OcOk(r, "fetch-source", "scan")
       ELSE OcRefused(r, "fetch-source")
  /\ UNCHANGED <<trVars, saVars, world>>

\* Step 6: an empty file is an error that does not end the run; otherwise the
\* finding is whatever id the model's reply carries, or the known fixture.
Scan(r) ==
  /\ UNCHANGED <<trVars, saVars, badges, minted, tokens, sent, branches, pulls, faults,
                 verdict>>
  /\ \/ OcRecord(r, "scan", "error", "opencode-plan") /\ UNCHANGED task
     \/ /\ OcRecord(r, "scan", "ok", "opencode-plan")
        /\ \E cve \in Findings : task' = [task EXCEPT ![r].cve = cve]

\* Step 6b: the plan is skipped when no model answers.
Plan(r) ==
  /\ \E status \in {"ok", "skipped"} :
       OcRecord(r, "opencode-plan", status, "dir-push")
  /\ UNCHANGED <<verdict, faults, trVars, saVars, world>>

\* Steps 7-8: the turn record and the search for Triage.
UseDirectory(r) ==
  /\ \/ OcTolerated(r, "dir-push", "error", "dir-search")
     \/ OcTolerated(r, "dir-search", "error", "kc-a-exchange")
  /\ UNCHANGED <<trVars, saVars, world>>

\* Step 9: the standard token exchange at Keycloak A.
ExchangeAtA(r) ==
  /\ OcOk(r, "kc-a-exchange", "mint-idjag")
  /\ UNCHANGED <<trVars, saVars, world>>

\* Mutant: the failed mint is reported, but the handler does not return.
MintIdJagGoesOn(r) ==
  /\ \/ OcOk(r, "mint-idjag", "egress-check")
     \/ /\ OcRecord(r, "mint-idjag", "error", "egress-check")
        /\ verdict' = [verdict EXCEPT ![r] = "failed"]
        /\ Fault
  /\ Mint(r, TriageAssertion(r))
  /\ UNCHANGED <<trVars, saVars, task, badges, tokens, sent, branches, pulls>>

\* Step 10: Keycloak A mints the assertion for Triage.
MintIdJag(r) ==
  /\ IF DelegationPermitted("org-a", OpenCode, TriageAssertion(r).scope)
       THEN /\ OcAnswered(r, "mint-idjag", "egress-check")
            /\ Mint(r, TriageAssertion(r))
       ELSE OcRefused(r, "mint-idjag") /\ UNCHANGED minted
  /\ UNCHANGED <<trVars, saVars, task, badges, tokens, sent, branches, pulls>>

\* Step 10b: Org A's egress PDP on it.
EgressCheck(r) ==
  /\ IF EgressAllows(TriageAssertion(r))
       THEN OcOk(r, "egress-check", "kc-b-exchange")
       ELSE OcRefused(r, "egress-check")
  /\ UNCHANGED <<trVars, saVars, world>>

\* Mutant: Keycloak B adds the client's default scopes to the token.
RedeemAtBWithDefaults(r) ==
  /\ OcAnswered(r, "kc-b-exchange", "create-ticket")
  /\ Redeem(r, TriageAssertion(r), {"openid", "triage:create", "gitea:write"})
  /\ UNCHANGED <<trVars, saVars, task, badges, minted, sent, branches, pulls>>

\* Step 11: Keycloak B trades it for Triage's access token.
RedeemAtB(r) ==
  /\ OcAnswered(r, "kc-b-exchange", "create-ticket")
  /\ Redeem(r, TriageAssertion(r), {"openid", "triage:create"})
  /\ UNCHANGED <<trVars, saVars, task, badges, minted, sent, branches, pulls>>

\* Step 12: POST /api/ticket.  Envoy B refuses it, or Triage's handler starts:
\* its guards see the ALLOW Envoy added and t1 records the decision.
CreateTicket(r) ==
  /\ HasToken(r, TriageAssertion(r))
  /\ IF TicketAllows(TokenOf(r, TriageAssertion(r)), TriageAssertion(r), Ticket(r))
       THEN /\ opc[r] = "create-ticket"
            /\ opc' = [opc EXCEPT ![r] = "await-ticket"]
            /\ tpc' = [tpc EXCEPT ![r] = "verify-idjag"]
            /\ tsteps' = [tsteps EXCEPT ![r]["opa-ingress"] = "ok"]
            /\ UNCHANGED <<osteps, verdict, faults>>
       ELSE OcRefused(r, "create-ticket") /\ UNCHANGED trVars
  /\ UNCHANGED <<saVars, world>>

\* The ticket never reaches Triage.
TicketLost(r) ==
  /\ Fault /\ OcHalt(r, "create-ticket")
  /\ UNCHANGED <<trVars, saVars, world>>

\* What the report says of Triage's steps, and of the Sub-Agent's when the
\* answer to t7 carried them.
OkStatus == {"ok", "denied", "skipped"}

TriageOk(r) == \A s \in DOMAIN tsteps[r] : tsteps[r][s] \in {"none", "ok", "denied"}

\* Mutant: the report is not flattened, so only Triage's own steps count.
NestedNotFlattened(r) == tsteps[r]["spawn-sub-agent"] \in {"none", "ok"}

NestedOk(r) ==
  tsteps[r]["spawn-sub-agent"] = "ok" =>
    \A s \in DOMAIN ssteps[r] : ssteps[r][s] \in {"none"} \cup OkStatus

OwnOk(r) == \A s \in OcSteps : osteps[r][s] \in {"none"} \cup OkStatus

\* Step 12 finishes: the ticket's status, and the verdict over the whole
\* flattened report.
TicketFinishes(r, status, nestedOk) ==
  /\ opc[r] = "await-ticket"
  /\ opc' = [opc EXCEPT ![r] = "done"]
  /\ osteps' = [osteps EXCEPT ![r]["create-ticket"] = status]
  /\ verdict' = [verdict EXCEPT ![r] =
       IF status = "ok" /\ OwnOk(r) /\ nestedOk THEN "ok" ELSE "failed"]
  /\ UNCHANGED <<trVars, saVars, world>>

TicketAnswered(r) ==
  /\ tpc[r] = "replied"
  /\ TicketFinishes(r, IF TriageOk(r) THEN "ok" ELSE "error", NestedOk(r))
  /\ UNCHANGED faults

\* The connection breaks with Triage, or timeout=90 runs out; the reply, if
\* there ever is one, is not read.
TicketAbandoned(r) ==
  /\ \/ tpc[r] = "crashed" /\ UNCHANGED faults
     \/ tpc[r] # "crashed" /\ Fault
  /\ TicketFinishes(r, "error", TRUE)

\* The agent's container dies: its runs are never answered.
OpenCodeCrash ==
  /\ Fault
  /\ \E r \in Runs : OcBusy(r)
  /\ opc' = [r \in Runs |-> IF OcBusy(r) THEN "crashed" ELSE opc[r]]
  /\ UNCHANGED <<osteps, verdict, trVars, saVars, world>>

OcNext(r) ==
  \/ \E repo \in Repos, cve \in Findings : StartRun(r, repo, cve)
  \/ OcCallFails(r) \/ SignIn(r) \/ BadgeScopeCheck(r) \/ ResolveBadge(r)
  \/ MintRead(r) \/ ReadEgressCheck(r) \/ RedeemRead(r) \/ FetchSource(r)
  \/ Scan(r) \/ Plan(r) \/ UseDirectory(r) \/ ExchangeAtA(r) \/ MintIdJag(r)
  \/ EgressCheck(r) \/ RedeemAtB(r) \/ CreateTicket(r) \/ TicketLost(r)
  \/ TicketAnswered(r) \/ TicketAbandoned(r)
=============================================================================
