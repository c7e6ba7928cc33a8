-------------------------- MODULE ResourceBoundary --------------------------
(***************************************************************************)
(* The resource boundary over many remediations: Sub-Agents behind Envoy   *)
(* B, gitea-gateway/app.py with all its operations, the Gitea they write   *)
(* to, and the person who merges or closes what they open there.           *)
(*                                                                         *)
(* The gateway trusts Envoy's decision headers or works without them       *)
(* (REQUIRE_ENVOY_POLICY); then it may be called directly.  It waits 15 s  *)
(* for Gitea and the Sub-Agent 20 s for the gateway, so a call that Gitea  *)
(* carries out late, or whose answer is lost, is reported as an error and  *)
(* happens all the same.                                                   *)
(***************************************************************************)
EXTENDS Policies

CONSTANTS
  Workers,   \* remediations that have reached the boundary
  Suffixes,  \* what secrets.token_hex may come up with
  Seeded,    \* repositories gitea/init.sh has created
  MaxCalls,  \* bound: calls that do not come through Envoy
  MaxFaults  \* bound: failures

ASSUME BoundaryAssumption ==
  /\ Seeded \subseteq Repos /\ MaxCalls \in Nat /\ MaxFaults \in Nat
  /\ "made-up" \notin Suffixes /\ "client" \notin Workers

VARIABLES
  required,              \* REQUIRE_ENVOY_POLICY
  wpc, job,              \* a remediation's position and repository
  head, pushed, opened,  \* its branch, and how its writes were answered
  pending,               \* calls of the gateway that Gitea has not carried out
  exists, onMain,        \* Gitea: repositories, and those with AGENTS.md on main
  branches, pulls,
  last,                  \* history: who answered the last call
  hurt,                  \* history: remediations something went wrong with
  calls, faults

worker == <<wpc, job, head, pushed, opened>>
gitea  == <<exists, onMain, branches, pulls>>
vars   == <<required, worker, pending, gitea, last, hurt, calls, faults>>

Client   == "client"  \* whoever calls the gateway without Envoy
Statuses == {"none", "ok", "denied", "error"}

\* Mutant: the Sub-Agent's own name for the branch is one the gateway may use.
GatewayName == CHOOSE s \in Suffixes : TRUE

\* sub-agent/fix-<random>, until the gateway says which branch it made.
MadeUpName == "made-up"

Init ==
  /\ required \in BOOLEAN
  /\ wpc = [w \in Workers |-> "idle"] /\ job \in [Workers -> {CHOOSE r \in Repos : TRUE}]
  /\ head = [w \in Workers |-> MadeUpName]
  /\ pushed = [w \in Workers |-> "none"] /\ opened = [w \in Workers |-> "none"]
  /\ pending = {}
  /\ exists = Seeded /\ onMain = {} /\ branches = {} /\ pulls = {}
  /\ last = "none" /\ hurt = {} /\ calls = 0 /\ faults = 0

-----------------------------------------------------------------------------
(* gitea-gateway: what it admits                                           *)

NoPolicy == [rule |-> "none", action |-> "none", repo |-> "none", depth |-> 0]

\* The headers Envoy B adds to a request its policy allows.
WritePolicy(actor, req) ==
  [rule |-> "org-b-resource-delegation", action |-> req.action, repo |-> req.repo,
   depth |-> Len(actor.chain)]

ReadPolicy(actor, req) ==
  [rule |-> "org-b-source-read", action |-> "read-source", repo |-> req.repo,
   depth |-> Len(actor.chain)]

\* require_token and require_source_read_token: the rule, its actions, its depth.
TokenGate(policy) ==
  /\ policy.rule = "org-b-resource-delegation"
  /\ policy.action \in {"push-file", "open-pr"}
  /\ policy.depth = 2

SourceGate(policy, req) ==
  /\ policy.rule = "org-b-source-read" /\ policy.action = "read-source"
  /\ policy.depth = 1
  /\ policy.repo = req.repo

\* Mutant: the chain of the sub-badge is expected, without the Sub-Agent.
ContextGateOneShort(policy, req) ==
  /\ policy.action = req.action /\ policy.repo = req.repo
  /\ req.intent = "create-pr-fix" /\ req.ticket
  /\ req.chain = <<OpenCode, Triage>>

\* require_policy_context: the decision is about this call, made in this delegation.
ContextGate(policy, req) ==
  /\ policy.action = req.action /\ policy.repo = req.repo
  /\ req.intent = "create-pr-fix" /\ req.ticket
  /\ req.chain = <<OpenCode, Triage, SubAgent>>

\* Mutant: a pull request needs the scope of a read.
NeededScopeOfRead(action) ==
  IF action \in {"read-source", "list-repos", "open-pr"} THEN "gitea:read" ELSE "gitea:write"

NeededScope(action) ==
  CASE action \in {"read-source", "list-repos"} -> "gitea:read"
    [] action \in {"push-file", "create-repo"}  -> "gitea:write"
    [] action = "open-pr"                       -> "gitea:pr"

\* Mutant: the deny-list covers reading only.
DenyListedReads(req) == req.action = "read-source" /\ req.repo \in ProtectedRepos

\* The deny-list covers reading and pull requests, not the push.
DenyListed(req) ==
  req.action \in {"read-source", "open-pr"} /\ req.repo \in ProtectedRepos

\* Mutant: a call without Envoy's headers counts as one from inside.
PolicyGateFromInside(policy, req) ==
  required /\ policy # NoPolicy =>
    IF req.action = "read-source" THEN SourceGate(policy, req)
    ELSE TokenGate(policy) /\ ContextGate(policy, req)

PolicyGate(policy, req) ==
  required =>
    IF req.action = "read-source" THEN SourceGate(policy, req)
    ELSE TokenGate(policy) /\ ContextGate(policy, req)

GatewayAdmits(access, policy, req) ==
  /\ PolicyGate(policy, req)
  /\ NeededScope(req.action) \in access.scope
  /\ ~DenyListed(req)

-----------------------------------------------------------------------------
(* Gitea                                                                   *)

Taken(repo) ==
  {b.name : b \in {x \in branches : x.repo = repo}} \cup {op.name : op \in pending}

\* Mutant: a branch can be pushed to any repository.
PossibleAnywhere(op) ==
  IF op.action = "push-file"
    THEN /\ op.repo \notin onMain
         /\ \A b \in branches : <<b.repo, b.name>> # <<op.repo, op.name>>
    ELSE \E b \in branches : <<b.repo, b.name>> = <<op.repo, op.name>>

\* A new file needs a main without it and an unused branch, a pull request a
\* branch that has no open one.
Possible(op) ==
  /\ op.repo \in exists
  /\ IF op.action = "push-file"
       THEN /\ op.repo \notin onMain
            /\ \A b \in branches : <<b.repo, b.name>> # <<op.repo, op.name>>
       ELSE /\ \E b \in branches : <<b.repo, b.name>> = <<op.repo, op.name>>
            /\ \A p \in pulls :
                 <<p.repo, p.head, p.state>> # <<op.repo, op.name, "open">>

CarryOut(op) ==
  /\ branches' = IF Possible(op) /\ op.action = "push-file"
       THEN branches \cup {[by |-> op.by, repo |-> op.repo, name |-> op.name]}
       ELSE branches
  /\ pulls' = IF Possible(op) /\ op.action = "open-pr"
       THEN pulls \cup
              {[by |-> op.by, repo |-> op.repo, head |-> op.name, state |-> "open"]}
       ELSE pulls
  /\ UNCHANGED <<exists, onMain>>

\* A person merges a pull request, which puts AGENTS.md on main, or closes it.
Review(p) ==
  /\ p.state = "open"
  /\ \E verdict \in {"merged", "closed"} :
       /\ pulls' = (pulls \ {p}) \cup {[p EXCEPT !.state = verdict]}
       /\ onMain' = IF verdict = "merged" THEN onMain \cup {p.repo} ELSE onMain
  /\ UNCHANGED <<required, worker, pending, exists, branches, last, hurt, calls, faults>>

-----------------------------------------------------------------------------
(* The Sub-Agent's writes (sub-agent/app.py, s5a to s5c)                   *)

SubBadge(w) ==
  [iss |-> "org-b", sub |-> "sarah", azp |-> SubAgent,
   scope |-> {"openid", "gitea:write", "gitea:pr"}, chain |-> <<OpenCode, Triage>>,
   intent |-> {"create-pr-fix"}, resource |-> {job[w]}]

Access == [azp |-> SubAgent, user |-> "sarah",
           scope |-> {"openid", "gitea:write", "gitea:pr"}]

\* WriteAllows knows a branch by its prefix.
Prefix(name) == IF name \in Suffixes THEN "agent/feature" ELSE "sub-agent/fix"

Request(action, repo, name, title) ==
  [action |-> action, repo |-> repo, chain |-> <<OpenCode, Triage, SubAgent>>,
   intent |-> "create-pr-fix", ticket |-> TRUE, title |-> title, head |-> Prefix(name)]

EnvoyAllows(w, req) == WriteAllows(Access, SubBadge(w), req)
Served(w, req) ==
  EnvoyAllows(w, req) /\ GatewayAdmits(Access, WritePolicy(SubBadge(w), req), req)

Answering(w, req) ==
  IF ~EnvoyAllows(w, req) THEN "envoy" ELSE IF Served(w, req) THEN "served" ELSE "gateway"

Hurt(ws) == faults < MaxFaults /\ faults' = faults + 1 /\ hurt' = hurt \cup ws

Unhurt == UNCHANGED <<hurt, faults>>

\* Org B's sub-badge check has let the repository pass.
Begin(w, repo) ==
  /\ wpc[w] = "idle"
  /\ SubbadgeScopeAllows([azp |-> Triage, user |-> "sarah", scope |-> {"triage:create"}],
                         Access.scope, repo, "create-pr-fix")
  /\ wpc' = [wpc EXCEPT ![w] = "push"]
  /\ job' = [job EXCEPT ![w] = repo]
  /\ UNCHANGED <<required, head, pushed, opened, pending, gitea, last, hurt, calls, faults>>

\* Mutant: the gateway uses one name for every branch.
DrawSame(w, name) == name = GatewayName /\ Unhurt

\* The random name is new, or by bad luck another push has it, and whichever of
\* the two Gitea hears of first gets it.
Draw(w, name) ==
  IF name \notin Taken(job[w]) THEN Unhurt
  ELSE Hurt({w} \cup {v \in Workers : \E op \in pending : op.by = v /\ op.name = name})

\* s5a: the gateway draws a name and asks Gitea, or the call is refused.
Push(w) ==
  LET req == Request("push-file", job[w], head[w], "none") IN
  /\ wpc[w] = "push"
  /\ last' = Answering(w, req)
  /\ IF Served(w, req)
       THEN /\ \E name \in Suffixes :
                 /\ Draw(w, name)
                 /\ pending' = pending \cup
                      {[by |-> w, action |-> "push-file", repo |-> job[w], name |-> name]}
            /\ wpc' = [wpc EXCEPT ![w] = "pushing"]
            /\ UNCHANGED pushed
       ELSE /\ pushed' = [pushed EXCEPT ![w] = "denied"]
            /\ wpc' = [wpc EXCEPT ![w] = "open"]
            /\ Unhurt /\ UNCHANGED pending
  /\ UNCHANGED <<required, job, head, opened, gitea, calls>>

\* s5b: the pull request, from whatever branch the handler knows.
Open(w) ==
  LET req == Request("open-pr", job[w], head[w], "remediate") IN
  /\ wpc[w] = "open"
  /\ last' = Answering(w, req)
  /\ IF Served(w, req)
       THEN /\ pending' = pending \cup
                 {[by |-> w, action |-> "open-pr", repo |-> job[w], name |-> head[w]]}
            /\ wpc' = [wpc EXCEPT ![w] = "opening"]
            /\ UNCHANGED opened
       ELSE /\ opened' = [opened EXCEPT ![w] = "denied"]
            /\ wpc' = [wpc EXCEPT ![w] = "attempt"]
            /\ UNCHANGED pending
  /\ Unhurt /\ UNCHANGED <<required, job, head, pushed, gitea, calls>>

\* s5c: the attempt on a protected repository; whoever refuses it, nothing is sent.
Attempt(w, repo) ==
  LET req == Request("open-pr", repo, head[w], "attempted") IN
  /\ wpc[w] = "attempt"
  /\ wpc' = [wpc EXCEPT ![w] = "over"]
  /\ last' = Answering(w, req)
  /\ pending' = IF Served(w, req)
       THEN pending \cup
              {[by |-> w, action |-> "open-pr", repo |-> repo, name |-> head[w]]}
       ELSE pending
  /\ Unhurt /\ UNCHANGED <<required, job, head, pushed, opened, gitea, calls>>

Awaits(w, op) ==
  /\ op.by = w /\ op.repo = job[w]
  /\ wpc[w] = (IF op.action = "push-file" THEN "pushing" ELSE "opening")

\* The handler records the answer to the write it waits for.
Record(w, status) ==
  IF wpc[w] = "pushing"
    THEN /\ pushed' = [pushed EXCEPT ![w] = status]
         /\ wpc' = [wpc EXCEPT ![w] = "open"]
         /\ UNCHANGED opened
    ELSE /\ opened' = [opened EXCEPT ![w] = status]
         /\ wpc' = [wpc EXCEPT ![w] = "attempt"]
         /\ UNCHANGED pushed

\* Gitea carries out a call and the handler hears of it: 200 or 502.
GiteaAnswers(w, op) ==
  /\ op \in pending /\ Awaits(w, op)
  /\ pending' = pending \ {op}
  /\ CarryOut(op)
  /\ Record(w, IF Possible(op) THEN "ok" ELSE "error")
  /\ head' = [head EXCEPT ![w] =
       IF op.action = "push-file" /\ Possible(op) THEN op.name ELSE @]
  /\ Unhurt /\ UNCHANGED <<required, job, last, calls>>

\* The gateway gives up on Gitea, or its answer does not arrive, before or after
\* the call is carried out.
AnswerLost(w) ==
  /\ wpc[w] \in {"pushing", "opening"}
  /\ Record(w, "error") /\ Hurt({w})
  /\ UNCHANGED <<required, job, head, pending, gitea, last, calls>>

\* Gitea carries out a call that nobody waits for any more.
GiteaIsLate(op) ==
  /\ op \in pending /\ \A w \in Workers : ~Awaits(w, op)
  /\ pending' = pending \ {op}
  /\ CarryOut(op)
  /\ UNCHANGED <<required, worker, last, hurt, calls, faults>>

\* Such a call may not reach Gitea at all.
CallLost(op) ==
  /\ op \in pending /\ \A w \in Workers : ~Awaits(w, op)
  /\ pending' = pending \ {op}
  /\ UNCHANGED <<required, worker, gitea, last, hurt, calls, faults>>

\* The Sub-Agent dies, with a write under way or between two.
Crash(w) ==
  /\ wpc[w] \notin {"idle", "over"}
  /\ wpc' = [wpc EXCEPT ![w] = "over"]
  /\ Hurt({w})
  /\ UNCHANGED <<required, job, head, pushed, opened, pending, gitea, last, calls>>

-----------------------------------------------------------------------------
(* The other callers                                                       *)

\* OpenCode reads a source file through Envoy, whatever Gitea answers.
ReadSource(repo) ==
  LET actor  == [iss |-> "org-a", sub |-> "sarah", azp |-> OpenCode,
                 scope |-> {"openid", "gitea:read"}, chain |-> <<OpenCode>>,
                 intent |-> {"scan-source"}, resource |-> {repo}]
      access == [azp |-> OpenCode, user |-> "sarah", scope |-> {"openid", "gitea:read"}]
      req    == [action |-> "read-source", repo |-> repo]
  IN
  /\ repo \in BadgeRepos
  /\ last' = IF ~ReadAllows(access, actor, repo) THEN "envoy"
             ELSE IF GatewayAdmits(access, ReadPolicy(actor, req), req) THEN "served"
             ELSE "gateway"
  /\ UNCHANGED <<required, worker, pending, gitea, hurt, calls, faults>>

\* What a direct call that is admitted makes Gitea do.
DirectEffect(req, name) ==
  CASE req.action \in {"read-source", "list-repos"} -> UNCHANGED <<pending, gitea>>
    [] req.action = "create-repo" ->
         exists' = exists \cup {req.repo}
           /\ UNCHANGED <<pending, onMain, branches, pulls>>
    [] req.action \in {"push-file", "open-pr"} ->
         pending' = pending \cup
             {[by |-> Client, action |-> req.action, repo |-> req.repo, name |-> name]}
           /\ UNCHANGED gitea

\* A call that does not come through Envoy, with a token of Keycloak B that holds
\* the scopes of OpenCode's or of the Sub-Agent's client.
DirectCall(action, repo, name, scope) ==
  LET req == Request(action, repo, name, "none") IN
  /\ calls < MaxCalls /\ calls' = calls + 1
  /\ action = "push-file" => name \notin Taken(repo)
  /\ IF GatewayAdmits([Access EXCEPT !.scope = scope], NoPolicy, req)
       THEN last' = "served" /\ DirectEffect(req, name)
       ELSE last' = "gateway-direct" /\ UNCHANGED <<pending, gitea>>
  /\ UNCHANGED <<required, worker, hurt, faults>>

DirectCalls ==
  \E action \in {"read-source", "list-repos", "create-repo", "push-file", "open-pr"},
     repo \in OwnRepos, name \in Suffixes,
     scope \in {{"openid", "gitea:read"}, {"openid", "gitea:write", "gitea:pr"}} :
       DirectCall(action, repo, name, scope)

Rest ==
  /\ pending = {} /\ \A w \in Workers : wpc[w] = "over"
  /\ UNCHANGED vars

Next ==
  \/ \E w \in Workers :
       \/ \E repo \in Repos : Begin(w, repo)
       \/ Push(w) \/ Open(w) \/ AnswerLost(w) \/ Crash(w)
       \/ \E repo \in ProtectedRepos : Attempt(w, repo)
       \/ \E op \in pending : GiteaAnswers(w, op)
  \/ \E op \in pending : GiteaIsLate(op) \/ CallLost(op)
  \/ \E p \in pulls : Review(p)
  \/ \E repo \in Repos : ReadSource(repo)
  \/ DirectCalls
  \/ Rest

Spec == Init /\ [][Next]_vars

-----------------------------------------------------------------------------
Names == Suffixes \cup {MadeUpName}

\* The handlers, the calls under way and what Gitea holds.
TypeOK ==
  /\ required \in BOOLEAN
  /\ wpc \in [Workers ->
       {"idle", "push", "pushing", "open", "opening", "attempt", "over"}]
  /\ job \in [Workers -> Repos] /\ head \in [Workers -> Names]
  /\ pushed \in [Workers -> Statuses] /\ opened \in [Workers -> Statuses]
  /\ pending \subseteq [by : Workers \cup {Client}, action : {"push-file", "open-pr"},
                        repo : Repos, name : Names]
  /\ exists \subseteq Repos /\ onMain \subseteq exists
  /\ branches \subseteq [by : Workers \cup {Client}, repo : exists, name : Suffixes]
  /\ pulls \subseteq [by : Workers \cup {Client}, repo : exists, head : Suffixes,
                      state : {"open", "merged", "closed"}]
  /\ last \in {"none", "served", "envoy", "gateway", "gateway-direct"}
  /\ hurt \subseteq Workers /\ calls \in 0..MaxCalls /\ faults \in 0..MaxFaults

\* A remediation's pull requests come from a branch that its own push made in its
\* own repository and was answered for: never from another remediation's branch,
\* one left behind by a lost answer, or a name nobody pushed.
PullsComeFromOwnPushes ==
  \A p \in pulls : p.by \in Workers =>
    /\ p.repo = job[p.by] /\ pushed[p.by] = "ok"
    /\ [by |-> p.by, repo |-> p.repo, name |-> p.head] \in branches

\* As deployed, a remediation that nothing went wrong with opens its pull request,
\* however many came before it or run beside it, unless the repository does not
\* exist or one of theirs has been merged: then AGENTS.md is there already.
UnhurtRemediationsSucceed ==
  required => \A w \in Workers \ hurt : wpc[w] = "over" =>
    opened[w] = "ok" \/ job[w] \notin Seeded \/ job[w] \in onMain

\* As deployed, a remediation that nothing went wrong with and that ends without a
\* pull request has left nothing in Gitea and nothing on its way there: when the
\* push answers 502, because the file is on main or the repository is missing, the
\* handler goes on to s5b and s5c all the same, with a branch name it made up.
UnhurtFailuresLeaveNothing ==
  required => \A w \in Workers \ hurt : wpc[w] = "over" /\ opened[w] # "ok" =>
    \A x \in branches \cup pulls \cup pending : x.by # w

\* No pull request is ever open on a protected repository, with Envoy in front or
\* without; as deployed there is not even a branch.
ProtectedReposAreSpared ==
  /\ \A p \in pulls : p.repo \notin ProtectedRepos
  /\ required => \A b \in branches : b.repo \notin ProtectedRepos

\* As deployed, everything agents leave in Gitea goes back to a delegation Envoy
\* allowed; a token alone changes nothing.
OnlyDelegatedWrites ==
  required =>
    /\ exists = Seeded
    /\ \A b \in branches : b.by \in Workers /\ b.repo = job[b.by]
    /\ \A p \in pulls : p.by \in Workers

\* The gateway refuses no call that Envoy's policy has allowed: their two accounts
\* of a delegation, in Rego and in Python, agree on every call the agents make.
GatewayAgreesWithEnvoy == last # "gateway"
=============================================================================
