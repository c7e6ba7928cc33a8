------------------------------ MODULE Policies ------------------------------
(***************************************************************************)
(* The decisions of the cross-domain demo as operators on verified claims: *)
(* the three Rego policies (Org A egress, Org B ticket ingress, Org B      *)
(* resource access), the minting check of keycloak-idjag-spi with the      *)
(* realm attributes it reads, and the checks the agents make themselves.   *)
(*                                                                         *)
(* A token is the record of the claims these decisions look at; that its   *)
(* signature verifies is part of being a token.  Scopes, intents and       *)
(* resources are sets, an act_chain is a sequence of client ids.           *)
(***************************************************************************)
EXTENDS Naturals, Sequences

CONSTANTS
  Repos,           \* repositories a request may name
  OwnRepos,        \* those under the owner demo-admin
  ProtectedRepos,  \* demo-protected: the deny-listed ones
  BadgeRepos,      \* Org A's badge_repo_allowlist
  Findings,        \* ids a scan may report
  WellFormed       \* those that start with CVE- or CWE-

ASSUME RepoAssumption ==
  /\ Repos # {}
  /\ OwnRepos \subseteq Repos
  /\ ProtectedRepos \subseteq OwnRepos
  /\ BadgeRepos \subseteq OwnRepos \ ProtectedRepos

ASSUME FindingAssumption == Findings # {} /\ WellFormed \subseteq Findings

OpenCode == "opencode-agent"
Triage   == "triage-agent"
SubAgent == "sub-agent"
Agents   == {OpenCode, Triage, SubAgent}

Orgs  == {"org-a", "org-b"}
Users == {"sarah", "other"}

Scopes  == {"openid", "triage:create", "gitea:read", "gitea:write", "gitea:pr"}
Intents == {"scan-source", "create-pr-fix"}

\* An ID-JAG: its issuing realm, subject, target client, act.act_chain, ...
AssertionClaims ==
  [iss : Orgs, sub : Users, azp : Agents, scope : SUBSET Scopes,
   chain : Seq(Agents), intent : SUBSET Intents, resource : SUBSET Repos]

\* A Keycloak access token: the client it was issued to, its user and scope.
AccessClaims == [azp : Agents, user : Users, scope : SUBSET Scopes]

\* What a badge may say its subject may do.
Capabilities == Scopes \cup {"scan", "remediate", "delegate"}

\* An agent badge: what its subject holds and what it may grant onward.
BadgeClaims ==
  [subject : Agents, caps : SUBSET Capabilities, delegatable : SUBSET Scopes,
   chain : Seq(Agents)]

LastOf(chain) == chain[Len(chain)]
ButLast(chain) == SubSeq(chain, 1, Len(chain) - 1)

-----------------------------------------------------------------------------
(* Keycloak: who may mint which assertion                                  *)

\* idjag.allowed.scopes of the two clients that may mint; the others have none.
AllowedScopes(realm, client) ==
  CASE realm = "org-a" /\ client = OpenCode ->
         {"openid", "triage:create", "gitea:read"}
    [] realm = "org-b" /\ client = Triage ->
         {"openid", "gitea:write", "gitea:pr"}
    [] OTHER -> {}

\* DelegationAuthorization.check; the audience is Keycloak B in both realms.
DelegationPermitted(realm, client, scope) ==
  /\ scope # {}
  /\ scope \subseteq AllowedScopes(realm, client)

-----------------------------------------------------------------------------
(* Org A: the egress and badge-scope decisions (Envoy A + OPA)             *)

BadgeScopeAllows(user, azp, repo) ==
  user = "sarah" /\ azp = OpenCode /\ repo \in BadgeRepos

RemediationEgressAllows(actor) ==
  /\ actor.iss = "org-a" /\ actor.sub = "sarah" /\ actor.azp = Triage
  /\ "triage:create" \in actor.scope
  /\ "create-pr-fix" \in actor.intent
  /\ Len(actor.chain) \in 1..2
  /\ actor.chain[1] = OpenCode
  /\ LastOf(actor.chain) = OpenCode

ReadEgressAllows(actor) ==
  /\ actor.iss = "org-a" /\ actor.sub = "sarah" /\ actor.azp = OpenCode
  /\ "gitea:read" \in actor.scope
  /\ actor.scope \cap {"gitea:write", "gitea:pr", "triage:create"} = {}
  /\ "scan-source" \in actor.intent
  /\ actor.chain = <<OpenCode>>
  /\ \E repo \in BadgeRepos : actor.resource = {repo}

EgressAllows(actor) == RemediationEgressAllows(actor) \/ ReadEgressAllows(actor)

-----------------------------------------------------------------------------
(* Org B: ticket ingress and sub-badge scope (Envoy B + OPA)               *)

TicketAllows(access, actor, body) ==
  /\ "triage:create" \in access.scope \cap actor.scope
  /\ access.azp = Triage /\ actor.azp = Triage
  /\ access.user = actor.sub /\ actor.sub = "sarah"
  /\ actor.chain # <<>>
  /\ body.agent = LastOf(actor.chain)
  /\ body.chain = actor.chain
  /\ Len(actor.chain) \in 1..2
  /\ body.intent = "create-pr-fix" /\ body.intent \in actor.intent
  /\ body.repo \in OwnRepos
  /\ body.cve \in WellFormed

SubbadgeScopeAllows(access, scope, repo, intent) ==
  /\ access.azp = Triage /\ access.user = "sarah"
  /\ "triage:create" \in access.scope
  /\ scope \subseteq {"openid", "gitea:write", "gitea:pr"}
  /\ intent = "create-pr-fix"
  /\ repo \in OwnRepos \ ProtectedRepos

-----------------------------------------------------------------------------
(* Org B: resource access (Envoy B + OPA in front of gitea-gateway)        *)

RequiredScope(action) == IF action = "push-file" THEN "gitea:write" ELSE "gitea:pr"

\* Mutant: the policy has no clause for the body of a push.
PullRequestBody(req) ==
  req.action = "open-pr" /\ req.head = "agent/feature" /\ req.title = "remediate"

\* Mutant: the policy knows the branch by the name the Sub-Agent gave it.
SubAgentBranchBody(req) ==
  \/ req.action = "push-file"
  \/ req.action = "open-pr" /\ req.head = "sub-agent/fix" /\ req.title = "remediate"

\* valid_action_body: only a feature branch the gateway created may become a
\* pull request, and only under the remediation title.
ValidActionBody(req) ==
  \/ req.action = "push-file"
  \/ req.action = "open-pr" /\ req.head = "agent/feature" /\ req.title = "remediate"

\* The route's jwt_authn rule admits only an actor token of Keycloak B here,
\* and only one of Keycloak A on the source route.
WriteAllows(access, actor, req) ==
  /\ actor.iss = "org-b"
  /\ access.azp = SubAgent /\ actor.azp = SubAgent
  /\ access.user = actor.sub /\ actor.sub = "sarah"
  /\ RequiredScope(req.action) \in access.scope \cap actor.scope
  /\ "triage:create" \notin access.scope \cup actor.scope
  /\ actor.chain = <<OpenCode, Triage>>
  /\ req.chain = Append(actor.chain, actor.azp)
  /\ req.intent = "create-pr-fix" /\ req.intent \in actor.intent
  /\ req.ticket
  /\ req.repo \in actor.resource
  /\ req.repo \in OwnRepos \ ProtectedRepos
  /\ ValidActionBody(req)

ReadAllows(access, actor, repo) ==
  /\ actor.iss = "org-a"
  /\ access.azp = OpenCode /\ actor.azp = OpenCode /\ actor.sub = "sarah"
  /\ "gitea:read" \in access.scope \cap actor.scope
  /\ (access.scope \cup actor.scope)
        \cap {"gitea:write", "gitea:pr", "triage:create"} = {}
  /\ actor.chain = <<OpenCode>>
  /\ actor.intent = {"scan-source"}
  /\ repo \in actor.resource
  /\ repo \in OwnRepos \ ProtectedRepos

-----------------------------------------------------------------------------
(* The agents' own checks of what they are handed                          *)

\* Triage: _verify_idjag_sync.
IdJagAccepted(actor, body) ==
  /\ actor.iss = "org-a" /\ actor.sub = "sarah"
  /\ actor.chain = body.chain
  /\ body.intent \in actor.intent
  /\ "triage:create" \in actor.scope

\* Sub-Agent: _verify_subbadge_sync, against ALLOWED_SCOPES.
SubBadgeAccepted(actor, body) ==
  /\ actor.iss = "org-b" /\ actor.azp = SubAgent
  /\ body.chain # <<>>
  /\ LastOf(body.chain) = SubAgent
  /\ actor.chain = ButLast(body.chain)
  /\ actor.scope # {}
  /\ actor.scope \subseteq {"openid", "gitea:write", "gitea:pr"}
  /\ body.repo \in actor.resource
  /\ body.intent \in actor.intent

\* The sender's badge agrees with the assertion: the same chain, and nothing
\* granted that the sender may not delegate.
SenderBadgeAgrees(badge, actor, chain) ==
  badge.chain = chain /\ actor.scope \subseteq badge.delegatable
=============================================================================
