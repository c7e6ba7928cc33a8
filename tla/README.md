# A verification development for the cross-domain ID-JAG / VC demo

This directory holds TLA+ models of `src/cross-domain-id-jag-vc`, the TLC
configurations that check them and TLAPS proofs about them. The program: Sarah,
a user of Org A, asks the OpenCode agent to remediate a finding in a repository
of Org B. OpenCode reads the source across the border, delegates the fix to
Org B's Triage agent, which delegates a narrower part of it to a Sub-Agent,
which pushes a branch and opens a pull request through Gitea's gateway. Every
hop is authorised by a signed assertion (ID-JAG), an access token redeemed for
it, an agent badge published at the Identity Node, and an Envoy + OPA policy.

Paths below are relative to `src/cross-domain-id-jag-vc`.

## 1. The system

### Components, their state and operations

| Component | Source | State | Operations |
|---|---|---|---|
| Web application | `webapp/` | none on the server | proxies a run with a timeout of its own, animates the answer |
| OpenCode agent | `opencode-agent/app.py` | one report per run, nothing persistent | `POST /api/run` (18 steps), `GET /api/plan-stream` |
| Triage agent | `triage-agent/app.py` | one report per ticket | `POST /api/ticket` (12 steps) |
| Sub-Agent | `sub-agent/app.py` | one report per task | `POST /api/run` (13 steps) |
| Org A policy | `envoy-org-a/policies/egress.rego` | none | badge-scope decision, egress decision (read, remediation) |
| Org B policy | `envoy/policies/*.rego`, `envoy/envoy.yaml` | none | ticket ingress, sub-badge scope, resource write, source read |
| Keycloak A and B | `keycloak-*/*.json` | spent assertion ids, sessions | password grant, exchange, jwt-bearer redemption |
| ID-JAG provider in both | `keycloak-idjag-spi/` | the JWKS cache, shared by all request threads | `exchange` |
| Identity Node client | `agntcy_identity_client/vc.py`, `cimd.py` | none | `issue_badge`, `find_live_badge`, `publish_badge`, `verify_badge` |
| Identity Node (external) | — | credentials, issuers, ids | publish, verify, list, register |
| Vault client | `agntcy_identity_client/vault.py` | process-wide cache of the issuer key | sign, proof JWT |
| Identity Node bootstrap | `identity-node-init.py` | none; creates Vault keys and registrations | one pass per run of the container |
| Gitea gateway | `gitea-gateway/app.py` | none; Gitea's branches and pull requests behind it | read source, push, open PR, list and create repositories |
| Directory | `agntcy_identity_client/directory.py`, `agent-dir-init/init.py` | records in the external store | push, search |
| Tracing, deployment | `*/tracing.py`, `docker-compose.yaml`, shell scripts | — | — |

### How they interact

A run is a chain of nested synchronous calls, each with a client timeout: the
web application waits 300 s for OpenCode, OpenCode 90 s for Triage, Triage 60 s
for the Sub-Agent, the Sub-Agent 20 s for the gateway, the gateway 15 s for
Gitea. Giving up on a call does not stop the callee. Within a handler every step
is a call to another service that may fail, or take effect while its answer is
lost. Runs share the badges at the Identity Node, the Keycloaks' memory of spent
assertions, the repositories at Gitea and, in Keycloak, a cache that request
threads update without a lock. Every proof and badge rests on the key an issuer
registered when the system was bootstrapped.

### What is hard about it

* a report computed in three places: Triage calls a spawn `ok` on any HTTP 200,
  OpenCode recomputes the verdict over a flattened report in which `denied` is a
  success;
* long handlers in which each error branch has to return by itself;
* late answers, lost answers of single-use redemptions, lost answers of writes;
* nested timeouts next to credential lifetimes, configured in different files,
  and one call (the Directory's gRPC) that has no deadline at all;
* agreement of nine copies of the scope and chain rules (three agents, two
  realms, three policies, the gateway);
* check-then-act on a listing fetched two awaits earlier (`issue_badge`), and on
  a published key read before a registration (the bootstrap);
* a badge that is live when it is found and expired when it is used;
* three volatile statics read and written one by one (`BadgeAttestation`);
* an in-memory Vault against a persistent Identity Node, and agents that cache
  the key of a Vault that has since restarted;
* one repository, branches told apart by three random bytes, a reviewer who
  merges in between.

`PROJECT.json` lists each of these at its line with the properties that watch it.

### What makes the components correct

* a run: `ok` only when the pull request is open on the repository asked for, and
  nobody acts for the run any more; a run that failed early had no effect; every
  run ends; its user is answered;
* the policies: nothing is written that was not approved at every boundary, and
  no token carries more than its hop;
* the resource boundary: a pull request shows the work of the remediation that
  opened it; the gateway and Envoy agree;
* badges: what Keycloak accepted is resolvable and was live; duplicates are
  explained by races only;
* the key cache: no refusal from stale data, no key older than the TTL;
* the trust anchor: a bootstrap that completes leaves the key registered that
  Vault signs with, and the agents' proofs hold for as long as neither changes.

## 2. The modules

| Module | Models | Extends |
|---|---|---|
| `Policies` | the Rego rules, the minting check, the agents' own checks, as operators on verified claims | — |
| `DelegationBase` | what the handlers of one run share: variables, requests, minting, redeeming, publishing a badge | `Policies` |
| `OpenCodeAgent` | `POST /api/run` of OpenCode | `DelegationBase` |
| `TriageAgent` | `POST /api/ticket` | `DelegationBase` |
| `SubAgentLifecycle` | `POST /api/run` of the Sub-Agent, and its writes | `DelegationBase` |
| `Delegation` | the composition, its properties, fairness | the three agents |
| `Remediation` | the abstract specification: what one run promises | — |
| `DelegationRefinement` | the refinement mapping from `Delegation` to `Remediation` | `Delegation` |
| `ResourceBoundary` | Sub-Agents, Envoy B, the gateway, Gitea and a reviewer | `Policies` |
| `RunTiming` | the timeouts and credential lifetimes of one run, web application included | — |
| `Registry` | `issue_badge` run concurrently, presenting and handing off badges | — |
| `JwksCache` | `BadgeAttestation.resolveKey` over request threads | — |
| `TrustAnchor` | Vault, the Identity Node's registrations, the bootstrap, the agents' key cache | — |
| `MC*` | constants for TLC | the module after the `MC` |
| `DelegationProofs`, `AuthorityProofs`, `PromiseProofs` | theorems about `Delegation` and its refinement | `Delegation`, `DelegationRefinement` |
| `ResourceBoundaryProofs`, `RegistryProofs`, `JwksProofs`, `TrustAnchorProofs`, `RunTimingProofs` | theorems about the module they are named after | that module |

### Policies

A token is the record of the claims the decisions look at (issuer, subject,
target client, scope, `act_chain`, intent, resource). That its signature
verifies is part of being a token: forged tokens are not in the model. Each
`allow` rule with conditions of its own is one operator (`BadgeScopeAllows`,
`ReadEgressAllows`, `TicketAllows`, `SubbadgeScopeAllows`, `WriteAllows`,
`ReadAllows`); the agents' in-process checks are `IdJagAccepted`,
`SubBadgeAccepted` and `SenderBadgeAgrees`. `iss` in `WriteAllows` and
`ReadAllows` is Envoy's `jwt_authn` rule of the route, not Rego.

### The agents and their composition

A handler's position (`opc`, `tpc`, `spc`) is the id of the step it is about to
run, its report (`osteps`, `tsteps`, `ssteps`) maps step ids to the status the
code records, and `verdict` is the `ok` OpenCode answers. There is one action per
step, with the same three kinds of outcome everywhere:

* `Ok`: the step is recorded and the handler goes on;
* `Refused`/`Halt`: recorded as an error, `return _fail()`;
* `Answered`: the call took effect (a badge published, an assertion minted or
  spent) and its answer arrives or is lost.

`OcCallFails`, `TrCallFails`, `SaCallFails` are the failures before any effect. The Directory, the scan, the plan and everything from the
Sub-Agent's push on never end a handler, as in the code. Two steps the code
records in one go are one action (`TriageBadge` for t3b and t4, `RedeemSubBadge`
for s3 and s4, `Conclude` for s5d, s6 and s7). Calls between the agents are
`CreateTicket` and `SpawnSubAgent`; their answers are `TicketAnswered` and
`SpawnAnswered`; a caller that stops waiting is `TicketAbandoned` and
`SpawnAbandoned`, after which the callee's actions stay enabled. A crash stops
all runs of one agent.

`minted` and `tokens` are what Keycloak signed and issued. `Redeem` accepts an
assertion once, as the realm is configured.

A write takes three steps. `PushFile` and `OpenPr` bring the request to the
gateway, which refuses it or passes it on to Gitea (`PassOn`, recorded in `sent`)
while the Sub-Agent waits in `pushing` or `opening`. Gitea carries out a call in
`sent` at any later time, or never (`GiteaWrites`); `branches` and `pulls` are
what it holds. The Sub-Agent goes on when the answer arrives (`WriteAnswered`) or
when the call fails (`WriteFails`): the gateway gives up after 15 s and the
Sub-Agent after 20 s, but nobody takes the call back, so the branch or the pull
request may still appear while the handler is further on or after all three
handlers have ended.

`badges` holds badges without their dates; their lifetime is the subject
of `Registry`, that of tokens the subject of `RunTiming`; a badge Keycloak
refuses because it expired is one of the failures of a mint here.

Abstractions: text (plans, titles, ids) is left out except where a decision looks
at it: a finding id is well formed or not, a branch name is a feature branch or
not, a title is the remediation title or not. Repositories stand for the
cases the policies tell apart: allowed, own, protected, foreign.

### Remediation and DelegationRefinement

`Remediation` is what a run looks like to the person who asks for it and to the
owner of the repository: how far its authority has come (`stage`), what was
`requested` of Gitea, where a branch and a pull request exist, and what the user
was told. It leaves out the handlers, tokens, badges and policies. Org B takes the
work on only for a user who still waits (`Delegate`); a branch is requested only
by authorised work, and a pull request only when the branch is there
(`RequestBranch`, `RequestPull`); what was requested appears on the target, once,
at any later time (`Push`, `Open`), and nothing else ever does. `AnswerOk`
requires finished work with a pull request on the target and nowhere else.
`AnswerFailed` and `Die` may come at any time: a failed answer promises nothing
about work that has begun, nor about requests that Gitea has yet to carry out.

The mapping computes `stage` from the three handlers' positions (`StageOf`: the
run is "authorised" from the redemption of the sub-badge on and "ended" when
Triage and the Sub-Agent are both at rest), `answer` from the verdict
(`AnswerOf`: "lost" when OpenCode died), `requested` from what the gateway passed
on (`RequestsOf`) and `branch` and `pull` from what is in Gitea. `KeepsPromise`
says that every run implements `Remediation`. That each run also ends is
`EveryRunEnds`, said of the handlers themselves.

### ResourceBoundary

A worker is a Sub-Agent from its push on (`Begin`, `Push`, `Open`, `Attempt`),
with the branch name it made up (`MadeUpName`) until the gateway's answer brings
the one the gateway drew (`Draw`, a member of `Suffixes`). A request passes Envoy
(`EnvoyAllows`, from `Policies`) and the gateway's own checks: `TokenGate` and
`SourceGate` for the decision headers, `ContextGate` for the delegation context,
`DenyListed` and the scope, or, with `REQUIRE_ENVOY_POLICY` off, the scope of the
access token alone. `DirectCall` are all five operations called without Envoy, as
the setting allows. What the gateway asks of Gitea is an operation in `pending`:
it may be carried out and answered (`GiteaAnswers`), carried out with its answer
lost, carried out after the gateway has given up (`GiteaIsLate`), or never
(`CallLost`). `Possible` is Gitea's own conditions: a push creates `AGENTS.md` on
a new branch off main and fails if the file is there already, a pull request
needs its branch. `Review` merges or closes.

Two workers that draw the same suffix count as a fault: three random bytes make
it rare, and the properties are about remediations nothing went wrong for
(`hurt`). Gitea's contents are reduced to branches, pull requests and whether
`AGENTS.md` is on main.

### RunTiming

Time is in seconds since the user's `POST /api/run` reached the web application.
A step `began` at one time and is `due` at another; the earliest due step is the
next to happen (`Turn`), so concurrent handlers interleave by their durations
only. What a step decides is in `Delegation`; here it goes well (`Step`), fails
(`StepFails`, `Tolerant` for those that do not end the handler), or finds that a
credential it presents has expired. `Trade` is a step that turns one credential
into another: what it presents is checked when the step ends, what it obtains was
issued when the step began or when it ended. `HandOver` starts the callee and sets the caller's deadline; `GivesUp` and
`WebGivesUp` are the deadlines passing. `DirectoryHangs` is the gRPC call without
a deadline.

The httpx timeouts are per phase (connect, write, read), so a server that trickles
its answer could hold a call for longer than the number in the code. The services
here answer in one piece; a call is taken to last at most its timeout.

### Registry

One handler is one invocation of `issue_badge`, with an action for each await:
list, reuse or build, send, register at the node, answer, verify; then
presenting the badge to Keycloak A (`BadgeAttestation.verify` looks at the
expiration date) and the handoff at which the next agent resolves the sender's
badge. A request on its way may still be registered after its sender gave up. A
credential carries what its issuer had been shown, a history field for
`DuplicatesOnlyFromRaces`. Time is a tick; a credential lives `TTL` ticks.

### JwksCache

One action per read or write of the three statics. `Rotate` is the issuer
changing its key, under the same kid (which the code fixes to `<key>-v1`) or
another. A tick happens only between requests, whose calls time out after 5 s
against a TTL of 300 s. A key set records when it was fetched, and `overlapped`
whether two requests were ever in the method at once (histories).

### TrustAnchor

A key is named by the number of the start of Vault it was created after; 0 is no
key. A pass is one run of the bootstrap container: it waits for Vault and for the
node (`WaitFor`, `Ready`, `NotReady` counting up to `MaxTries`), then for each
issuer enables the transit engine, creates the key, reads it, checks it against
the published one (`CheckMatches`, `CheckMismatch`, `CheckUnread` for any answer
but 200), signs its own proof and registers (`RegisterNew`, `RegisterAgain`). Any
request whose answer is lost is an uncaught exception that ends the pass (`Goto`,
`PassFails`, `RequestLost`). Passes overlap freely. An agent (`AgentStarts`,
`NameKey`, `SignProof`, `Post`) caches the public key at its first proof and asks
Vault to sign each one; `VaultStops` loses every key, `DropRegistrations` is the
remedy the mismatch prints.

## 3. The runs

| Run | Constants | Asks |
|---|---|---|
| `delegation` | 1 run, 4 repositories, 2 findings, 3 faults | does the verdict tell the truth (`VerdictIsTruthful`) and is it final (`OkVerdictIsFinal`); do approvals precede writes (`WritesFollowApproval`); are failed runs without effect (`HaltedRunsHaveNoEffect`); does a refusal come before the first write (`RefusedRunsLeaveNothing`); does authority narrow (`AuthorityNarrows`); does everything end (`EveryRunEnds`), well if nothing fails (`CleanRunSucceeds`); is the promise kept (`KeepsPromise`), however late Gitea writes |
| `scan_reply` | 1 run, no faults | violated: `ScanReplyNeverFailsRun` |
| `resource_boundary` | 2 workers, 2 suffixes, 3 repositories, 2 faults, 2 direct calls | is a pull request its author's own work (`PullsComeFromOwnPushes`); does a remediation succeed that nothing hurt (`UnhurtRemediationsSucceed`); are protected repositories free of pull requests (`ProtectedReposAreSpared`); are all writes delegated ones while the policy is required (`OnlyDelegatedWrites`); does the gateway refuse nothing Envoy admits (`GatewayAgreesWithEnvoy`); does a remediation that fails by no mishap of its own leave nothing behind (`UnhurtFailuresLeaveNothing`) |
| `run_timing` | the deployment's own timeouts and lifetimes; calls 0 or 20 s, the model 5 or 255 s, the Directory 0, 280 or 3000 s or never, 1 slow call | do writes stop at the end of the chain of credentials (`WritesExpire`); does nothing expire while the user waits (`NothingExpiresWhileWaited`); is the user answered (`UserIsAnswered`); can only the Directory hold a handler (`OnlyTheDirectoryHangs`) |
| `run_headroom` | calls that take no time, the model 5 or 240 s | violated: `HeadroomCoversRun` |
| `registry` | 3 calls, 2 of the same grant, TTL 2, clock to 3 | `DuplicatesOnlyFromRaces`, `AttestedBadgesAreResolvable` |
| `registry_one_live` | the same | violated: `OneLiveCredential` |
| `registry_handoff` | the same | violated: `AcceptedBadgesAreLive` |
| `jwks_threads` | 2 threads, 2 kids, 3 keys, TTL 2, clock to 5 | `RefusalsAreCurrent` for any interleaving; `SerialKeysAreRecent` and `RotationIsPickedUp` as long as requests did not overlap |
| `jwks_torn` | 2 threads, 2 keys, clock to 4 | violated: `KeysAreRecent` |
| `trust_anchor` | 2 issuers, 2 passes, 1 agent, 2 tries, 2 starts of Vault, 1 fault | does a completed pass establish trust (`BootstrapEstablishesTrust`); do proofs hold (`ProofsHoldUntilLoss`); does a pass end (`BootstrapEnds`), and complete when nothing fails (`BootstrapIsRepeatable`) |
| `trust_skipped` | 1 issuer | violated: `SkippedMeansSameKey` |

Every passing run checks its module's `TypeOK` as well.

Why the bounds are enough.

* `delegation`: `MaxFaults` bounds failures per behaviour: with three, each
  handler can fail once, and a lost write, an abandoned call and a crash can meet
  in one run. One run visits every step of the three handlers. Runs influence
  each other only through badges, spent assertions and crashes; that more of them
  change nothing is what the proofs show, for any number of runs. The four
  repositories are the four classes the policies distinguish, the two findings
  the two classes of id.
* `resource_boundary`: two remediations of one repository, one before, after or
  beside the other, with two suffixes, so that names may be distinct or collide;
  two faults put a late write of one against a lost answer of the other.
* `run_timing`: the real numbers of the deployment. The short and the long value
  of each duration, next to the timeout it meets: a model call of 255 s brings a
  run to the brink of the web application's 300 s, a Directory of 280 s past the
  shortest credential, one of 3000 s past all of them.
* `registry`: a race for one grant with a third call for another grant of the
  same subject; clock and TTL let a badge expire between any two of its uses.
* `jwks_*`: two threads are what a torn read takes; three keys allow two
  rotations, so a key may come and go within a TTL.
* `trust_anchor`: two issuers leave a pass between them, two passes overlap, two
  starts are one loss of every key.

Symmetry is declared only where handlers, workers or threads are interchangeable
and no liveness is checked. Deadlock is checked except in `Registry`, where all
calls end, and the clock at its bound; the other modules have an explicit `Rest`
step for when everything has finished (in `JwksCache` a thread can always serve
another request).

### Fairness

* `Delegation!FairSpec`: weak fairness of each handler that has started. Every
  remote call over HTTP carries a client timeout (20 s, 60 s, 90 s), and an
  expired one is an exception each step catches, so a handler never waits for
  ever. `SaWork` counts Gitea's carrying out of the call the Sub-Agent waits for
  as the Sub-Agent's progress: such a call is carried out or given up, and one
  that was given up may be carried out never. No user has to start a run, and no
  failure or crash is forced. The
  Directory's gRPC calls carry no deadline; `Delegation` takes them to be answered
  or to fail, and what happens when they are not is the subject of `RunTiming`.
* `RunTiming!FairSpec`: weak fairness of `Next`, that is, time passes. A hung
  handler is no longer `Pending` and takes no step.
* `TrustAnchor!FairSpec`: weak fairness of each pass that has begun; its requests
  have timeouts and its waits are bounded. No service has to come back.

### What the violated properties show

1. `ScanReplyNeverFailsRun`: `_parse_finding` is documented as forgiving, but an
   id the model makes up is sent on and refused at Org B's ingress.
2. `HeadroomCoversRun`: the web application's headroom is for one model call, a
   run makes two; its user is told of a failure while the run goes on.
3. `OneLiveCredential`: concurrent runs each find no badge and each publish one.
4. `AcceptedBadgesAreLive`: the handoffs do not look at the expiration date,
   which the README of the demo says consumers must.
5. `KeysAreRecent`: a request that reads the cached keys before another thread's
   refresh and the time stamp after it takes the old keys for fresh.
6. `SkippedMeansSameKey`: the bootstrap says "already registered with the same
   key" of a key it could not read, or that changed since it read it.

Four more observations have no property:

* the gateway's docstring (`gitea-gateway/app.py:17-19`) says that a read-only
  token can list repositories; with `REQUIRE_ENVOY_POLICY` on, as deployed,
  neither listing nor creating is ever admitted;
* the deny-listed attempt of the Sub-Agent (`sub-agent/app.py:557`) is refused by
  Envoy's policy, before it comes to the gateway's deny-list;
* once a pull request is merged, `AGENTS.md` is on main and every later push to
  that repository fails with 502. `UnhurtRemediationsSucceed` excludes such
  repositories, and `UnhurtFailuresLeaveNothing` says what still holds of them;
* the gateway's deny-list covers reading and pull requests but not the push,
  which matters only with the policy off.

## 4. The proofs

Everything below holds for every value of the constants that satisfies the named
assumptions: any number of runs, repositories, handlers, threads, issuers,
passes, failures.

| Module | Assumptions | Inductive invariant | Theorems |
|---|---|---|---|
| `DelegationProofs` | `RepoAssumption`, `FindingAssumption`, `FaultAssumption` | `IInv` | `TypeCorrect`, `ApprovalInvariant`, `ApprovedWrites` (`WritesFollowApproval`), `HaltedIsInert` (`HaltedRunsHaveNoEffect`) |
| `AuthorityProofs` | the same | `AuthInv`, `CleanInv`, `RefusalInv` | `AuthorityInvariant`, `AuthorityIsNarrow` (`AuthorityNarrows`), `CleanInvariant`, `CleanRunsDoNotFail` (the safety half of `CleanRunSucceeds`), `RefusalInvariant`, `RefusalsLeaveNothing` (`RefusedRunsLeaveNothing`) |
| `PromiseProofs` | the same | `VInv`, `PInv` | `ReportInvariant`, `OkIsTrue` (`VerdictIsTruthful`), `OkIsFinal` (`OkVerdictIsFinal`), `PromiseInvariant`, `StepsKeepPromise` (`KeepsPromise`) |
| `ResourceBoundaryProofs` | `RepoAssumption`, `BoundaryAssumption` | `BoundaryInv`, `BareInv` | `TypeCorrect`, `BoundaryInvariant`, `PullsAreOwn` (`PullsComeFromOwnPushes`), `UnhurtSucceed` (`UnhurtRemediationsSucceed`), `ProtectedSpared` (`ProtectedReposAreSpared`), `WritesAreDelegated` (`OnlyDelegatedWrites`), `GatewayAgrees` (`GatewayAgreesWithEnvoy`), `UnhurtLeaveNothing` (`UnhurtFailuresLeaveNothing`), and of the operators `GatewayAdmitsWrites`, `GatewayAdmitsReads` |
| `RegistryProofs` | `RegistryAssumption` | `IInv` | `RegistryInvariant`, `TypeCorrect`, `OnlyRacesDuplicate`, `AttestedAreResolvable` |
| `JwksProofs` | `JwksAssumption` | `IInv` | `TypeCorrect`, `CacheInvariant`, `RefusalsCurrent`, `SerialRecent`, `RotationPickedUp` |
| `TrustAnchorProofs` | `TrustAssumption` | `TrustInv` | `TypeCorrect`, `TrustInvariant`, `CompletedBootstrapIsTrusted`, `ProofsHold` |
| `RunTimingProofs` | `TimesAssumption`, `LifeAssumption` | `IInv` | `TypeCorrect`, `ChainInvariant`, `ChainOfCredentialsEnds` (`WritesExpire`), `NoExpiryWhileWaited` |

### Why each invariant is needed

* `DelegationProofs`. `WritesFollowApproval` and `HaltedRunsHaveNoEffect` speak of
  the end of a run and of steps recorded by other handlers long before. `IInv`
  adds, for each run, `CallOrder` (Triage works only after OpenCode has sent the
  ticket, the Sub-Agent only after the spawn, a write is passed on only after the
  redemption, and Gitea holds only what was passed on)
  and, per handler, the approvals its report shows once its position has passed
  them. The proof factors the steps: a step of another run leaves this run
  `Untouched`; a step of OpenCode happens while Triage and the Sub-Agent are idle,
  a step of Triage while the Sub-Agent is idle, except for the calls and answers
  between them, which have lemmas of their own; a crash removes obligations only.
* `AuthorityProofs`, authority. `AuthInv` says that Keycloak B has issued tokens of
  three shapes only (read, ticket, write), each on an assertion of its own run, and
  that a ticket already verified has a token behind it. That write tokens descend
  from Triage's is then a consequence.
* `AuthorityProofs`, clean runs. `CleanRunsNeverFail`: while nothing has failed, a
  run on an allowed repository is answered "failed" only for an empty source or a
  finding that names no CVE or CWE. This is what `CleanRunSucceeds` says of the
  states, and where the nine copies of the scope and chain rules have to agree. TLC
  checks it for one run; with several, a handler is shown *any* badge of its
  sender, another run's as well. So `CleanInv` says of the whole registry that all
  badges of one sender carry the same chain and the same delegatable scope
  (`BadgesAgree`), and of each handler that the badge and the token it will need
  are there (`Held`); `CleanReports` says which entries of the three reports may be
  anything but `ok`. The lemmas before it (`MintsArePermitted`, `EgressIsAllowed`,
  `ReadIsAllowed`, `TicketIsAllowed`, `SendersAgree`, `WritesAreAdmitted`,
  `AttemptIsRefused`) evaluate each policy on each request an agent makes.
* `AuthorityProofs`, refusals. `RefusalsLeaveNothing` adds to `CleanInv` that a run
  past the badge-scope check is for a repository Org A allows and that Triage works
  only for such a run with a well-formed finding (`Sanctioned`). Whatever refuses a
  run without a failure therefore refuses it before Triage starts, and `CallOrder`
  gives that nothing was passed on by then.
* `PromiseProofs`, the verdict. It is computed over a report that was copied twice.
  `VInv` says what each copy knows of its original and when: a Sub-Agent that
  replied has reported its own pull request, Triage's `ok` holds the Sub-Agent's
  report, OpenCode's holds Triage's, and a caller that gave up holds neither.
* `PromiseProofs`, the refinement. `PInv` adds to `VInv` where the Sub-Agent stands
  when it first has authority, what it has asked of Gitea by then, and that Gitea
  holds nothing of the run that was not asked for on its target. Each step then is
  `Ask`, `Delegate`, `Authorise`, a request, `Push` or `Open` (at any stage, the
  end included), `Finish`, an answer, or a stutter of `Remediation`; a crash of
  Triage or the Sub-Agent is `Finish` for the runs whose last worker it stopped.
  `StepsKeepPromise` is `Spec => KeepsPromise`.
* `ResourceBoundaryProofs`. Who wrote what is decided by names: a branch name is
  drawn, a late call carries the name it was sent with, and another remediation may
  draw the same one. `BoundaryInv` ties them together: what a worker at each
  position has under way and has not yet left in Gitea (`TargetInv`), that a head a
  worker knows is a branch it made and was told of (`HeadInv`), that it has at most
  one push under way (`PendingInv`), and that a branch has one author
  (`BranchInv`); `PullInv` then gives `PullsComeFromOwnPushes`. `DeployedInv` is
  `OnlyDelegatedWrites` with the calls under way included. `UnhurtInv` says that
  nothing stands in the way of a remediation nothing has gone wrong with: neither a
  branch of the name it has drawn nor another push that would take it. That the
  gateway refuses nothing Envoy admits needs no invariant: `GatewayAdmitsWrites`
  and `GatewayAdmitsReads` show it for any tokens and any request, reachable or not.
  `BareInv` is what `UnhurtFailuresLeaveNothing` takes: a worker nothing went wrong
  with that has been refused its push still has its made-up branch name and nothing
  in Gitea or on its way there, and Envoy refuses whatever it asks for under it.
* `RegistryProofs`. `IInv` says of each credential, registered or on its way, that
  it was dated after everything its issuer had been shown for the same grant had
  expired; two live ones were therefore not both shown to the later issuer.
* `JwksProofs`. `IInv` relates each thread's locals to the statics they were read
  from; as long as no two requests overlapped the time stamp belongs to the keys.
* `TrustAnchorProofs`. `TrustInv` says what a settled pass has made true of each
  issuer by its position: of those it has left, of the one it is at, and that
  another pass can only register the very same key.
* `RunTimingProofs`. `IInv` bounds each credential's expiry by that of the one it
  was obtained with plus its own lifetime, and says that nothing is due before it
  began; `WritesExpire` is the sum along the chain. `LifeAssumption` is used for
  `NoExpiryWhileWaited` alone: the deployment meets it exactly (300 s of waiting,
  300 s of life).

### What is only model-checked

Every safety invariant and every action property of the passing runs is a theorem.
Liveness is out of the prover's reach together with `ENABLED` and stays with TLC:
`EveryRunEnds`, `CleanRunSucceeds`, `UserIsAnswered`, `OnlyTheDirectoryHangs`,
`BootstrapEnds`, `BootstrapIsRepeatable`.

## 5. The plan

Written in this order: `Policies`, the agents and `Delegation` (the system's
purpose), `Registry` and `JwksCache` (its concurrency), `TrustAnchor`,
`ResourceBoundary`, `RunTiming`, `Remediation` and the refinement; and the proofs
of the table above.

Left, most important first:

1. The seeding of the Directory (`agent-dir-init/init.py`) next to the agents'
   searches, should a decision come to depend on what they find.
2. `GET /api/plan-stream` and its relay by the web application: cancellation of
   the model's session when the browser leaves.
3. `revoke_badge` and `supersede_badges`, once something calls them: they would
   change `Registry`'s answer to `OneLiveCredential`.

## 6. Not modelled, and why

The language model (its replies are nondeterministic), the Directory's store and
its one-shot seeding, the Identity Node's and Keycloak's internals beyond what
the code relies on, tracing, the browser's animation, `GET /api/plan-stream` (it
keeps no state of the run), container wiring and one-shot configuration scripts.
Signatures are assumed to be sound. `revoke_badge` and `supersede_badges` have no
caller.
