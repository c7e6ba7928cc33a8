----------------------- MODULE ResourceBoundaryProofs -----------------------
(***************************************************************************)
(* The resource boundary for any number of remediations, repositories,     *)
(* branch names, direct calls and failures: whose work ends up in Gitea,   *)
(* what the gateway and Envoy agree on, and when a remediation succeeds.   *)
(***************************************************************************)
EXTENDS ResourceBoundary, TLAPS

Reachable == OwnRepos \ ProtectedRepos

\* What a worker has under way at Gitea.
CallsOf(w) == {op \in pending : op.by = w}

\* A worker's target is one the policy lets through, and before its push it has
\* left nothing anywhere.
TargetInv(w) ==
  /\ wpc[w] # "idle" => job[w] \in Reachable
  /\ wpc[w] \in {"idle", "push"} =>
       CallsOf(w) = {} /\ \A b \in branches : b.by # w
  /\ wpc[w] \in {"idle", "push", "pushing"} => head[w] = MadeUpName
  /\ wpc[w] \in {"idle", "push", "pushing", "open"} =>
       \A op \in CallsOf(w) : op.action = "push-file"
  /\ wpc[w] \in {"idle", "push", "pushing", "open", "opening"} =>
       \A p \in pulls : p.by # w

\* A worker that knows a branch made it, and in its own repository.
HeadInv(w) ==
  head[w] # MadeUpName =>
    pushed[w] = "ok" /\ [by |-> w, repo |-> job[w], name |-> head[w]] \in branches

\* The calls under way: of a worker at most one push, and a pull request from the
\* branch it knows; none that opens a pull request on a protected repository.
PendingInv ==
  /\ \A op \in pending :
       /\ op.action = "push-file" => op.name \in Suffixes
       /\ op.action = "open-pr" => op.repo \notin ProtectedRepos
       /\ op.by \in Workers =>
            /\ op.repo = job[op.by]
            /\ op.action = "open-pr" => op.name = head[op.by] /\ op.name # MadeUpName
  /\ \A op1, op2 \in pending :
       op1.by = op2.by /\ op1.by \in Workers /\ op1.action = op2.action => op1 = op2

\* A branch has one author, who made it where it works.
BranchInv ==
  /\ \A b \in branches : b.by \in Workers => b.repo = job[b.by]
  /\ \A b1, b2 \in branches : b1.repo = b2.repo /\ b1.name = b2.name => b1 = b2

PullInv ==
  \A p \in pulls :
    /\ p.repo \notin ProtectedRepos
    /\ p.by \in Workers =>
         p.repo = job[p.by] /\ p.head = head[p.by] /\ p.head # MadeUpName

\* As deployed only workers have anything under way or in Gitea.
DeployedInv ==
  required =>
    /\ exists = Seeded
    /\ \A op \in pending : op.by \in Workers
    /\ \A b \in branches : b.by \in Workers
    /\ \A p \in pulls : p.by \in Workers

AgreeInv == last # "gateway"

\* Nothing stands in the way of a push: neither a branch of that name nor another
\* push that would take it.
NameIsFree(w, op) ==
  /\ \A b \in branches : <<b.repo, b.name>> # <<op.repo, op.name>>
  /\ \A other \in pending :
       other.action = "push-file" /\ other.name = op.name /\ other.repo = op.repo =>
         other = op

\* No repository, or AGENTS.md on its main already.
Hopeless(w) == job[w] \notin Seeded \/ job[w] \in onMain

\* Where a worker nothing went wrong with stands, its writes are made or can be.
UnhurtInv(w) ==
  /\ wpc[w] = "pushing" =>
       \E op \in CallsOf(w) : op.action = "push-file" /\ NameIsFree(w, op)
  /\ wpc[w] = "open" => head[w] \in Suffixes \/ Hopeless(w)
  /\ wpc[w] = "opening" => \E op \in CallsOf(w) : op.action = "open-pr"
  /\ wpc[w] \in {"attempt", "over"} => opened[w] = "ok" \/ Hopeless(w)

BoundaryInv ==
  /\ TypeOK
  /\ \A w \in Workers : TargetInv(w) /\ HeadInv(w)
  /\ PendingInv /\ BranchInv /\ PullInv /\ DeployedInv /\ AgreeInv
  /\ required => \A w \in Workers \ hurt : UnhurtInv(w)

\* Nobody has begun and nothing is under way.
LEMMA InitBoundary == Init => BoundaryInv
<1> SUFFICES ASSUME Init PROVE BoundaryInv
  OBVIOUS
<1>1. (CHOOSE r \in Repos : TRUE) \in Repos
  BY RepoAssumption
<1>2. TypeOK
  BY <1>1, BoundaryAssumption DEF Init, TypeOK, Names, Statuses
<1>3. \A w \in Workers : TargetInv(w) /\ HeadInv(w)
  BY DEF Init, TargetInv, HeadInv, CallsOf
<1>4. PendingInv /\ BranchInv /\ PullInv /\ DeployedInv /\ AgreeInv
  BY DEF Init, PendingInv, BranchInv, PullInv, DeployedInv, AgreeInv
<1>5. \A w \in Workers \ hurt : UnhurtInv(w)
  BY DEF Init, UnhurtInv
<1> QED BY <1>2, <1>3, <1>4, <1>5 DEF BoundaryInv

-----------------------------------------------------------------------------
(* Envoy and the gateway                                                   *)

\* A request's chain is its sub-badge's and the Sub-Agent.
LEMMA FullChain ==
  /\ <<OpenCode, Triage, SubAgent>> = Append(<<OpenCode, Triage>>, SubAgent)
  /\ Len(<<OpenCode, Triage>>) = 2
BY DEF OpenCode, Triage, SubAgent

\* Whatever the tokens say and whoever asks: the gateway admits every write that
\* Org B's policy allows.
THEOREM GatewayAdmitsWrites ==
  ASSUME NEW access, NEW actor, NEW req, req.action \in {"push-file", "open-pr"},
         WriteAllows(access, actor, req)
  PROVE  GatewayAdmits(access, WritePolicy(actor, req), req)
<1>1. actor.chain = <<OpenCode, Triage>> /\ req.chain = Append(actor.chain, SubAgent)
  BY DEF WriteAllows
<1>2. Len(actor.chain) = 2 /\ req.chain = <<OpenCode, Triage, SubAgent>>
  BY <1>1, FullChain
<1>3. TokenGate(WritePolicy(actor, req))
  BY <1>2 DEF TokenGate, WritePolicy
<1>4. ContextGate(WritePolicy(actor, req), req)
  BY <1>2 DEF ContextGate, WritePolicy, WriteAllows
<1>5. NeededScope(req.action) = RequiredScope(req.action)
  BY DEF NeededScope, RequiredScope
<1>6. NeededScope(req.action) \in access.scope /\ ~DenyListed(req)
  BY <1>5 DEF WriteAllows, DenyListed
<1> QED BY <1>3, <1>4, <1>6 DEF GatewayAdmits, PolicyGate

\* The same of every source read.
THEOREM GatewayAdmitsReads ==
  ASSUME NEW access, NEW actor, NEW repo,
         ReadAllows(access, actor, repo)
  PROVE  LET req == [action |-> "read-source", repo |-> repo]
         IN  GatewayAdmits(access, ReadPolicy(actor, req), req)
<1> DEFINE req == [action |-> "read-source", repo |-> repo]
<1>1. req.action = "read-source" /\ req.repo = repo
  OBVIOUS
<1>2. Len(actor.chain) = 1
  BY DEF ReadAllows
<1>3. SourceGate(ReadPolicy(actor, req), req)
  BY <1>1, <1>2 DEF SourceGate, ReadPolicy
<1>4. NeededScope(req.action) \in access.scope /\ ~DenyListed(req)
  BY <1>1 DEF NeededScope, ReadAllows, DenyListed
<1> QED BY <1>1, <1>3, <1>4 DEF GatewayAdmits, PolicyGate

\* Where the policy is required nothing is admitted without it.
LEMMA NothingDirect ==
  ASSUME required, NEW access, NEW req
  PROVE  ~GatewayAdmits(access, NoPolicy, req)
BY DEF GatewayAdmits, PolicyGate, SourceGate, TokenGate, NoPolicy

\* The attempt carries another title than a remediation's.
LEMMA AttemptRefused ==
  ASSUME NEW w, NEW repo
  PROVE  /\ ~Served(w, Request("open-pr", repo, head[w], "attempted"))
         /\ Answering(w, Request("open-pr", repo, head[w], "attempted")) = "envoy"
<1>1. ~ValidActionBody(Request("open-pr", repo, head[w], "attempted"))
  BY DEF ValidActionBody, Request
<1> QED BY <1>1 DEF Served, Answering, EnvoyAllows, WriteAllows

\* Of a write only Envoy decides: what it allows is served.
LEMMA Answers ==
  ASSUME NEW w, NEW req, req.action \in {"push-file", "open-pr"}
  PROVE  /\ Served(w, req) <=> EnvoyAllows(w, req)
         /\ Answering(w, req) \in {"served", "envoy"}
BY GatewayAdmitsWrites DEF Served, Answering, EnvoyAllows

\* A Sub-Agent's push to its own target is served, whatever it calls the branch.
LEMMA PushServed ==
  ASSUME NEW w, job[w] \in Reachable
  PROVE  Served(w, Request("push-file", job[w], head[w], "none"))
<1> DEFINE req == Request("push-file", job[w], head[w], "none")
<1>1. /\ req.action = "push-file" /\ req.repo = job[w] /\ req.intent = "create-pr-fix"
      /\ req.ticket /\ req.chain = <<OpenCode, Triage, SubAgent>>
  BY DEF Request
<1>3. EnvoyAllows(w, req)
  BY <1>1, FullChain DEF EnvoyAllows, WriteAllows, SubBadge, Access, RequiredScope,
     ValidActionBody, Reachable
<1> QED BY <1>1, <1>3, Answers

\* Its pull request is served if and only if the branch is one the gateway named.
LEMMA OpenServed ==
  ASSUME NEW w, job[w] \in Reachable
  PROVE  Served(w, Request("open-pr", job[w], head[w], "remediate"))
           <=> head[w] \in Suffixes
<1> DEFINE req == Request("open-pr", job[w], head[w], "remediate")
<1>1. /\ req.action = "open-pr" /\ req.repo = job[w] /\ req.intent = "create-pr-fix"
      /\ req.ticket /\ req.chain = <<OpenCode, Triage, SubAgent>>
      /\ req.title = "remediate" /\ req.head = Prefix(head[w])
  BY DEF Request
<1>3. ValidActionBody(req) <=> head[w] \in Suffixes
  BY <1>1 DEF ValidActionBody, Prefix
<1>4. EnvoyAllows(w, req) <=> head[w] \in Suffixes
  BY <1>1, <1>3, FullChain DEF EnvoyAllows, WriteAllows, SubBadge, Access, RequiredScope,
     Reachable
<1> QED BY <1>1, <1>4, Answers

-----------------------------------------------------------------------------
(* A remediation's steps                                                   *)

\* A remediation begins with nothing of its own anywhere.
LEMMA BeginKeeps ==
  ASSUME BoundaryInv, NEW w \in Workers, NEW repo \in Repos, Begin(w, repo)
  PROVE  BoundaryInv'
<1>0. /\ TypeOK /\ PendingInv /\ BranchInv /\ PullInv /\ DeployedInv /\ AgreeInv
      /\ \A v \in Workers : TargetInv(v) /\ HeadInv(v)
      /\ required => \A v \in Workers \ hurt : UnhurtInv(v)
  BY DEF BoundaryInv
<1>1. /\ wpc[w] = "idle" /\ wpc' = [wpc EXCEPT ![w] = "push"]
      /\ job' = [job EXCEPT ![w] = repo] /\ repo \in Reachable
      /\ UNCHANGED <<required, head, pushed, opened, pending, exists, onMain, branches,
                     pulls, last, hurt, calls, faults>>
  BY DEF Begin, gitea, SubbadgeScopeAllows, Reachable
<1>2. /\ wpc'[w] = "push" /\ job'[w] = repo
      /\ \A v \in Workers \ {w} : wpc'[v] = wpc[v] /\ job'[v] = job[v]
  BY <1>0, <1>1 DEF TypeOK
<1>3. /\ head[w] = MadeUpName
      /\ \A op \in pending : op.by # w
      /\ \A b \in branches : b.by # w
      /\ \A p \in pulls : p.by # w
  BY <1>0, <1>1 DEF TargetInv, CallsOf
<1>4. TypeOK'
  BY <1>0, <1>1 DEF TypeOK
<1>5. ASSUME NEW v \in Workers PROVE TargetInv(v)' /\ HeadInv(v)'
  BY <1>0, <1>1, <1>2, <1>3 DEF TargetInv, HeadInv, CallsOf
<1>6. PendingInv'
  BY <1>0, <1>1, <1>2, <1>3 DEF PendingInv, TypeOK
<1>7. BranchInv' /\ PullInv'
  BY <1>0, <1>1, <1>2, <1>3 DEF BranchInv, PullInv
<1>8. DeployedInv' /\ AgreeInv'
  BY <1>0, <1>1 DEF DeployedInv, AgreeInv
<1>9. ASSUME required', NEW v \in Workers \ hurt' PROVE UnhurtInv(v)'
  BY <1>0, <1>1, <1>2, <1>9 DEF UnhurtInv, Hopeless, NameIsFree, CallsOf
<1> QED BY <1>4, <1>5, <1>6, <1>7, <1>8, <1>9 DEF BoundaryInv

\* A push is always served, so a name is drawn and Gitea is asked.
LEMMA PushSends ==
  ASSUME BoundaryInv, NEW w \in Workers, Push(w)
  PROVE  /\ wpc[w] = "push" /\ wpc' = [wpc EXCEPT ![w] = "pushing"]
         /\ \E name \in Suffixes :
              /\ Draw(w, name)
              /\ pending' = pending \cup
                   {[by |-> w, action |-> "push-file", repo |-> job[w], name |-> name]}
         /\ last' \in {"served", "envoy"}
         /\ UNCHANGED <<required, job, head, pushed, opened, exists, onMain, branches,
                        pulls, calls>>
<1> DEFINE req == Request("push-file", job[w], head[w], "none")
<1>1. wpc[w] = "push" /\ job[w] \in Reachable
  BY DEF Push, BoundaryInv, TargetInv
<1>2. Served(w, req)
  BY <1>1, PushServed
<1>3. Answering(w, req) \in {"served", "envoy"}
  BY Answers DEF Request
<1> QED BY <1>1, <1>2, <1>3 DEF Push, gitea

\* A name that is not taken is free when the push reaches Gitea; drawing one that
\* is hurts both workers.
LEMMA PushKeeps ==
  ASSUME BoundaryInv, NEW w \in Workers, Push(w)
  PROVE  BoundaryInv'
<1>0. /\ TypeOK /\ PendingInv /\ BranchInv /\ PullInv /\ DeployedInv /\ AgreeInv
      /\ \A v \in Workers : TargetInv(v) /\ HeadInv(v)
      /\ required => \A v \in Workers \ hurt : UnhurtInv(v)
  BY DEF BoundaryInv
<1>1. /\ wpc[w] = "push" /\ wpc' = [wpc EXCEPT ![w] = "pushing"]
      /\ last' \in {"served", "envoy"}
      /\ UNCHANGED <<required, job, head, pushed, opened, exists, onMain, branches,
                     pulls, calls>>
  BY PushSends
<1>2. PICK name \in Suffixes :
        /\ Draw(w, name)
        /\ pending' = pending \cup
             {[by |-> w, action |-> "push-file", repo |-> job[w], name |-> name]}
  BY PushSends
<1>3. PICK call :
        call = [by |-> w, action |-> "push-file", repo |-> job[w], name |-> name]
  OBVIOUS
<1>4. /\ call = [by |-> w, action |-> "push-file", repo |-> job[w], name |-> name]
      /\ Draw(w, name) /\ pending' = pending \cup {call}
  BY <1>2, <1>3
<1>5. /\ wpc'[w] = "pushing"
      /\ \A v \in Workers \ {w} : wpc'[v] = wpc[v]
  BY <1>0, <1>1 DEF TypeOK
<1>6. /\ head[w] = MadeUpName /\ job[w] \in Reachable
      /\ \A op \in pending : op.by # w
      /\ \A b \in branches : b.by # w
      /\ \A p \in pulls : p.by # w
  BY <1>0, <1>1 DEF TargetInv, CallsOf
<1>7. /\ call.by = w /\ call.action = "push-file"
      /\ call.repo = job[w] /\ call.name = name
  BY <1>4
<1>8. \/ name \notin Taken(job[w]) /\ UNCHANGED <<hurt, faults>>
      \/ /\ faults < MaxFaults /\ faults' = faults + 1
         /\ hurt' = hurt \cup {w} \cup
              {v \in Workers : \E op \in pending : op.by = v /\ op.name = name}
  BY <1>4 DEF Draw, Hurt, Unhurt
<1>9. TypeOK'
  <2>1. call \in [by : Workers \cup {Client}, action : {"push-file", "open-pr"},
                        repo : Repos, name : Names]
    BY <1>0, <1>4 DEF TypeOK, Names
  <2>2. faults' \in 0..MaxFaults /\ hurt' \subseteq Workers
    BY <1>0, <1>8, BoundaryAssumption DEF TypeOK
  <2> QED BY <1>0, <1>1, <1>4, <2>1, <2>2 DEF TypeOK
<1>10. ASSUME NEW v \in Workers PROVE TargetInv(v)' /\ HeadInv(v)'
  BY <1>0, <1>1, <1>4, <1>5, <1>6, <1>7 DEF TargetInv, HeadInv, CallsOf
<1>11. PendingInv'
  BY <1>0, <1>1, <1>4, <1>6, <1>7 DEF PendingInv
<1>12. BranchInv' /\ PullInv'
  BY <1>0, <1>1 DEF BranchInv, PullInv
<1>13. DeployedInv' /\ AgreeInv'
  BY <1>0, <1>1, <1>4, <1>7 DEF DeployedInv, AgreeInv
<1>14. ASSUME required', NEW v \in Workers \ hurt' PROVE UnhurtInv(v)'
  <2>1. CASE v = w
    <3>1. name \notin Taken(job[w])
      BY <1>8, <1>14, <2>1
    <3>2. NameIsFree(w, call)'
      BY <1>1, <1>4, <1>7, <3>1 DEF NameIsFree, Taken
    <3>3. call \in CallsOf(w)'
      BY <1>4, <1>7 DEF CallsOf
    <3> QED BY <1>5, <1>7, <2>1, <3>2, <3>3 DEF UnhurtInv
  <2>2. CASE v # w
    <3>1. v \notin hurt /\ UnhurtInv(v) /\ wpc'[v] = wpc[v]
      BY <1>0, <1>1, <1>5, <1>8, <1>14, <2>2
    <3>2. ASSUME NEW op \in CallsOf(v), op.action = "push-file", NameIsFree(v, op)
          PROVE  NameIsFree(v, op)'
      <4>1. op \in pending /\ op.by = v /\ v \notin hurt'
        BY <1>14, <3>2 DEF CallsOf
      <4>2. op.name \in Taken(job[w])
        BY <4>1 DEF Taken
      <4>3. op.name # name
        BY <1>8, <4>1, <4>2
      <4> QED BY <1>1, <1>4, <1>7, <3>2, <4>3 DEF NameIsFree
    <3>3. CallsOf(v) \subseteq CallsOf(v)'
      BY <1>4 DEF CallsOf
    <3> QED BY <1>1, <3>1, <3>2, <3>3 DEF UnhurtInv, Hopeless
  <2> QED BY <2>1, <2>2
<1> QED BY <1>9, <1>10, <1>11, <1>12, <1>13, <1>14 DEF BoundaryInv

\* The pull request is asked for from the branch the worker knows, or refused.
LEMMA OpenKeeps ==
  ASSUME BoundaryInv, NEW w \in Workers, Open(w)
  PROVE  BoundaryInv'
<1>0. /\ TypeOK /\ PendingInv /\ BranchInv /\ PullInv /\ DeployedInv /\ AgreeInv
      /\ \A v \in Workers : TargetInv(v) /\ HeadInv(v)
      /\ required => \A v \in Workers \ hurt : UnhurtInv(v)
  BY DEF BoundaryInv
<1> DEFINE req == Request("open-pr", job[w], head[w], "remediate")
<1>1. /\ wpc[w] = "open" /\ last' = Answering(w, req)
      /\ UNCHANGED <<required, job, head, pushed, exists, onMain, branches, pulls, calls,
                     hurt, faults>>
  BY DEF Open, gitea, Unhurt
<1>2. /\ job[w] \in Reachable /\ job[w] \notin ProtectedRepos
      /\ \A op \in pending : op.by = w => op.action = "push-file"
      /\ \A p \in pulls : p.by # w
  BY <1>0, <1>1 DEF TargetInv, CallsOf, Reachable
<1>3. last' \in {"served", "envoy"}
  BY <1>1, Answers DEF Request
<1>4. BranchInv' /\ PullInv'
  BY <1>0, <1>1 DEF BranchInv, PullInv
<1>5. CASE head[w] \in Suffixes
  <2>1. PICK call :
          call = [by |-> w, action |-> "open-pr", repo |-> job[w], name |-> head[w]]
    OBVIOUS
  <2>2. /\ wpc' = [wpc EXCEPT ![w] = "opening"] /\ pending' = pending \cup {call}
        /\ UNCHANGED opened
    BY <1>2, <1>5, <2>1, OpenServed DEF Open
  <2>3. /\ call.by = w /\ call.action = "open-pr"
        /\ call.repo = job[w] /\ call.name = head[w]
    BY <2>1
  <2>4. /\ wpc'[w] = "opening"
        /\ \A v \in Workers \ {w} : wpc'[v] = wpc[v]
    BY <1>0, <2>2 DEF TypeOK
  <2>5. head[w] # MadeUpName
    BY <1>5, BoundaryAssumption DEF MadeUpName
  <2>6. TypeOK'
    <3>1. call \in [by : Workers \cup {Client}, action : {"push-file", "open-pr"},
                    repo : Repos, name : Names]
      BY <1>0, <2>1 DEF TypeOK
    <3> QED BY <1>0, <1>1, <1>3, <2>2, <3>1 DEF TypeOK
  <2>7. ASSUME NEW v \in Workers PROVE TargetInv(v)' /\ HeadInv(v)'
    BY <1>0, <1>1, <1>2, <2>2, <2>3, <2>4 DEF TargetInv, HeadInv, CallsOf
  <2>8. PendingInv'
    BY <1>0, <1>1, <1>2, <2>2, <2>3, <2>5 DEF PendingInv
  <2>9. DeployedInv' /\ AgreeInv'
    BY <1>0, <1>1, <1>3, <2>2, <2>3 DEF DeployedInv, AgreeInv
  <2>10. ASSUME required', NEW v \in Workers \ hurt' PROVE UnhurtInv(v)'
    <3>1. UnhurtInv(v)
      BY <1>0, <1>1, <2>10
    <3>2. CallsOf(v) \subseteq CallsOf(v)' /\ call \in CallsOf(w)'
      BY <2>2, <2>3 DEF CallsOf
    <3>3. CASE v = w
      BY <2>3, <2>4, <3>2, <3>3 DEF UnhurtInv
    <3>4. CASE v # w
      <4>1. ASSUME NEW op \in CallsOf(v), NameIsFree(v, op)
            PROVE  NameIsFree(v, op)'
        BY <1>1, <2>2, <2>3, <4>1 DEF NameIsFree
      <4> QED BY <1>1, <2>2, <2>4, <3>1, <3>2, <3>4, <4>1 DEF UnhurtInv, Hopeless
    <3> QED BY <3>3, <3>4
  <2> QED BY <1>4, <2>6, <2>7, <2>8, <2>9, <2>10 DEF BoundaryInv
<1>6. CASE head[w] \notin Suffixes
  <2>1. /\ wpc' = [wpc EXCEPT ![w] = "attempt"] /\ opened' = [opened EXCEPT ![w] = "denied"]
        /\ UNCHANGED pending
    BY <1>2, <1>6, OpenServed DEF Open
  <2>2. /\ wpc'[w] = "attempt"
        /\ \A v \in Workers \ {w} : wpc'[v] = wpc[v] /\ opened'[v] = opened[v]
    BY <1>0, <2>1 DEF TypeOK
  <2>3. TypeOK'
    BY <1>0, <1>1, <1>3, <2>1 DEF TypeOK, Statuses
  <2>4. ASSUME NEW v \in Workers PROVE TargetInv(v)' /\ HeadInv(v)'
    BY <1>0, <1>1, <2>1, <2>2 DEF TargetInv, HeadInv, CallsOf
  <2>5. PendingInv' /\ DeployedInv' /\ AgreeInv'
    BY <1>0, <1>1, <1>3, <2>1 DEF PendingInv, DeployedInv, AgreeInv
  <2>6. ASSUME required', NEW v \in Workers \ hurt' PROVE UnhurtInv(v)'
    <3>1. UnhurtInv(v)
      BY <1>0, <1>1, <2>6
    <3>2. CASE v = w
      BY <1>1, <1>6, <2>2, <3>1, <3>2 DEF UnhurtInv, Hopeless
    <3>3. CASE v # w
      BY <1>1, <2>1, <2>2, <3>1, <3>3 DEF UnhurtInv, Hopeless, NameIsFree, CallsOf
    <3> QED BY <3>2, <3>3
  <2> QED BY <1>4, <2>3, <2>4, <2>5, <2>6 DEF BoundaryInv
<1> QED BY <1>5, <1>6

\* The attempt on a protected repository leaves nothing.
LEMMA AttemptKeeps ==
  ASSUME BoundaryInv, NEW w \in Workers, NEW repo \in ProtectedRepos, Attempt(w, repo)
  PROVE  BoundaryInv'
<1>0. /\ TypeOK /\ PendingInv /\ BranchInv /\ PullInv /\ DeployedInv /\ AgreeInv
      /\ \A v \in Workers : TargetInv(v) /\ HeadInv(v)
      /\ required => \A v \in Workers \ hurt : UnhurtInv(v)
  BY DEF BoundaryInv
<1>1. /\ wpc[w] = "attempt" /\ wpc' = [wpc EXCEPT ![w] = "over"]
      /\ last' = "envoy"
      /\ UNCHANGED <<required, job, head, pushed, opened, pending, exists, onMain,
                     branches, pulls, calls, hurt, faults>>
  BY AttemptRefused DEF Attempt, gitea, Unhurt
<1>2. /\ wpc'[w] = "over"
      /\ \A v \in Workers \ {w} : wpc'[v] = wpc[v]
  BY <1>0, <1>1 DEF TypeOK
<1>3. TypeOK'
  BY <1>0, <1>1 DEF TypeOK
<1>4. ASSUME NEW v \in Workers PROVE TargetInv(v)' /\ HeadInv(v)'
  BY <1>0, <1>1, <1>2 DEF TargetInv, HeadInv, CallsOf
<1>5. PendingInv' /\ BranchInv' /\ PullInv' /\ DeployedInv' /\ AgreeInv'
  BY <1>0, <1>1 DEF PendingInv, BranchInv, PullInv, DeployedInv, AgreeInv
<1>6. ASSUME required', NEW v \in Workers \ hurt' PROVE UnhurtInv(v)'
  <2>1. UnhurtInv(v)
    BY <1>0, <1>1, <1>6
  <2> QED BY <1>1, <1>2, <2>1 DEF UnhurtInv, Hopeless, NameIsFree, CallsOf
<1> QED BY <1>3, <1>4, <1>5, <1>6 DEF BoundaryInv

\* A worker that gives up or dies is hurt, whatever becomes of its call.
LEMMA HurtKeeps ==
  ASSUME BoundaryInv, NEW w \in Workers, AnswerLost(w) \/ Crash(w)
  PROVE  BoundaryInv'
<1>0. /\ TypeOK /\ PendingInv /\ BranchInv /\ PullInv /\ DeployedInv /\ AgreeInv
      /\ \A v \in Workers : TargetInv(v) /\ HeadInv(v)
      /\ required => \A v \in Workers \ hurt : UnhurtInv(v)
  BY DEF BoundaryInv
<1>1. /\ faults < MaxFaults /\ faults' = faults + 1 /\ hurt' = hurt \cup {w}
      /\ UNCHANGED <<required, job, head, pending, exists, onMain, branches, pulls, last,
                     calls>>
  BY DEF AnswerLost, Crash, Hurt, gitea
<1>2. \/ /\ wpc[w] = "pushing" /\ wpc' = [wpc EXCEPT ![w] = "open"]
         /\ pushed' = [pushed EXCEPT ![w] = "error"] /\ UNCHANGED opened
      \/ /\ wpc[w] = "opening" /\ wpc' = [wpc EXCEPT ![w] = "attempt"]
         /\ opened' = [opened EXCEPT ![w] = "error"] /\ UNCHANGED pushed
      \/ /\ wpc[w] # "idle" /\ wpc' = [wpc EXCEPT ![w] = "over"]
         /\ UNCHANGED <<pushed, opened>>
  BY DEF AnswerLost, Crash, Record
<1>3. /\ \A v \in Workers \ {w} :
           wpc'[v] = wpc[v] /\ pushed'[v] = pushed[v] /\ opened'[v] = opened[v]
      /\ \/ wpc[w] = "pushing" /\ wpc'[w] = "open"
         \/ wpc[w] # "idle" /\ wpc'[w] \in {"attempt", "over"} /\ pushed'[w] = pushed[w]
  BY <1>0, <1>2 DEF TypeOK
<1>4. TypeOK'
  <2>1. faults' \in 0..MaxFaults
    BY <1>0, <1>1, BoundaryAssumption DEF TypeOK
  <2> QED BY <1>0, <1>1, <1>2, <2>1 DEF TypeOK, Statuses
<1>5. ASSUME NEW v \in Workers PROVE TargetInv(v)' /\ HeadInv(v)'
  BY <1>0, <1>1, <1>3 DEF TargetInv, HeadInv, CallsOf
<1>6. PendingInv' /\ BranchInv' /\ PullInv' /\ DeployedInv' /\ AgreeInv'
  BY <1>0, <1>1 DEF PendingInv, BranchInv, PullInv, DeployedInv, AgreeInv
<1>7. ASSUME required', NEW v \in Workers \ hurt' PROVE UnhurtInv(v)'
  <2>1. UnhurtInv(v) /\ v # w
    BY <1>0, <1>1, <1>7
  <2> QED BY <1>1, <1>3, <2>1 DEF UnhurtInv, Hopeless, NameIsFree, CallsOf
<1> QED BY <1>4, <1>5, <1>6, <1>7 DEF BoundaryInv

-----------------------------------------------------------------------------
(* Gitea's steps                                                           *)

\* What carrying out a call adds, and that it was possible.
LEMMA CarriedOut ==
  ASSUME TypeOK, PendingInv, NEW op \in pending, CarryOut(op)
  PROVE  /\ \/ /\ Possible(op) /\ op.action = "push-file" /\ pulls' = pulls
               /\ branches' = branches \cup
                    {[by |-> op.by, repo |-> op.repo, name |-> op.name]}
            \/ /\ Possible(op) /\ op.action = "open-pr" /\ branches' = branches
               /\ pulls' = pulls \cup
                    {[by |-> op.by, repo |-> op.repo, head |-> op.name, state |-> "open"]}
            \/ ~Possible(op) /\ UNCHANGED <<branches, pulls>>
         /\ branches' \subseteq [by : Workers \cup {Client}, repo : exists, name : Suffixes]
         /\ pulls' \subseteq [by : Workers \cup {Client}, repo : exists, head : Suffixes,
                              state : {"open", "merged", "closed"}]
         /\ UNCHANGED <<exists, onMain>>
<1>1. op \in [by : Workers \cup {Client}, action : {"push-file", "open-pr"},
              repo : Repos, name : Names]
  BY DEF TypeOK
<1>2. Possible(op) => op.repo \in exists /\ op.name \in Suffixes
  BY <1>1 DEF Possible, TypeOK, PendingInv
<1> QED BY <1>1, <1>2 DEF CarryOut, TypeOK

\* A branch made for a call is new in its repository.
LEMMA CarriedBranches ==
  ASSUME BoundaryInv, NEW op \in pending, CarryOut(op), job' = job
  PROVE  BranchInv'
<1>0. /\ TypeOK /\ PendingInv /\ BranchInv /\ PullInv /\ DeployedInv /\ AgreeInv
      /\ \A v \in Workers : TargetInv(v) /\ HeadInv(v)
      /\ required => \A v \in Workers \ hurt : UnhurtInv(v)
  BY DEF BoundaryInv
<1>1. CASE Possible(op) /\ op.action = "push-file"
  <2>1. PICK branch : branch = [by |-> op.by, repo |-> op.repo, name |-> op.name]
    OBVIOUS
  <2>2. branches' = branches \cup {branch}
    BY <1>0, <1>1, <2>1, CarriedOut
  <2>3. branch.by = op.by /\ branch.repo = op.repo /\ branch.name = op.name
    BY <2>1
  <2>4. \A b \in branches : ~(b.repo = branch.repo /\ b.name = branch.name)
    BY <1>1, <2>3 DEF Possible
  <2>5. branch.by \in Workers => branch.repo = job[branch.by]
    BY <1>0, <2>3 DEF PendingInv
  <2> QED BY <1>0, <2>2, <2>4, <2>5 DEF BranchInv
<1>2. CASE ~(Possible(op) /\ op.action = "push-file")
  <2>1. branches' = branches
    BY <1>0, <1>2, CarriedOut
  <2> QED BY <1>0, <2>1 DEF BranchInv
<1> QED BY <1>1, <1>2

\* A pull request made for a call is the caller's own.
LEMMA CarriedPulls ==
  ASSUME BoundaryInv, NEW op \in pending, CarryOut(op), job' = job,
         \A v \in Workers : head'[v] = head[v] \/ \A p \in pulls' : p.by # v
  PROVE  PullInv'
<1>0. /\ TypeOK /\ PendingInv /\ BranchInv /\ PullInv /\ DeployedInv /\ AgreeInv
      /\ \A v \in Workers : TargetInv(v) /\ HeadInv(v)
      /\ required => \A v \in Workers \ hurt : UnhurtInv(v)
  BY DEF BoundaryInv
<1>1. CASE Possible(op) /\ op.action = "open-pr"
  <2>1. PICK pull :
          pull = [by |-> op.by, repo |-> op.repo, head |-> op.name, state |-> "open"]
    OBVIOUS
  <2>2. pulls' = pulls \cup {pull}
    BY <1>0, <1>1, <2>1, CarriedOut
  <2>3. pull.by = op.by /\ pull.repo = op.repo /\ pull.head = op.name
    BY <2>1
  <2>4. /\ pull.repo \notin ProtectedRepos
        /\ pull.by \in Workers =>
             pull.repo = job[pull.by] /\ pull.head = head[pull.by] /\ pull.head # MadeUpName
    BY <1>0, <1>1, <2>3 DEF PendingInv
  <2> QED BY <1>0, <2>2, <2>4 DEF PullInv
<1>2. CASE ~(Possible(op) /\ op.action = "open-pr")
  <2>1. pulls' = pulls
    BY <1>0, <1>2, CarriedOut
  <2> QED BY <1>0, <2>1 DEF PullInv
<1> QED BY <1>1, <1>2

\* What is under way and in Gitea stays the workers'.
LEMMA CarriedDeployed ==
  ASSUME BoundaryInv, NEW op \in pending, CarryOut(op), pending' = pending \ {op},
         required' = required, last' = last
  PROVE  DeployedInv' /\ AgreeInv'
<1>0. /\ TypeOK /\ PendingInv /\ BranchInv /\ PullInv /\ DeployedInv /\ AgreeInv
      /\ \A v \in Workers : TargetInv(v) /\ HeadInv(v)
      /\ required => \A v \in Workers \ hurt : UnhurtInv(v)
  BY DEF BoundaryInv
<1>1. \A b \in branches' : b \in branches \/ b.by = op.by
  BY <1>0, CarriedOut
<1>2. \A p \in pulls' : p \in pulls \/ p.by = op.by
  BY <1>0, CarriedOut
<1> QED BY <1>0, <1>1, <1>2 DEF CarryOut, DeployedInv, AgreeInv

\* A worker that did not make the call, or does not wait for it, is no worse off.
LEMMA CarriedElsewhere ==
  ASSUME BoundaryInv, NEW op \in pending, CarryOut(op), pending' = pending \ {op},
         NEW v \in Workers, ~Awaits(v, op), job' = job,
         wpc'[v] = wpc[v], head'[v] = head[v], pushed'[v] = pushed[v],
         opened'[v] = opened[v]
  PROVE  /\ TargetInv(v)' /\ HeadInv(v)'
         /\ UnhurtInv(v) => UnhurtInv(v)'
<1>0. /\ TypeOK /\ PendingInv /\ BranchInv /\ PullInv /\ DeployedInv /\ AgreeInv
      /\ \A u \in Workers : TargetInv(u) /\ HeadInv(u)
      /\ required => \A u \in Workers \ hurt : UnhurtInv(u)
  BY DEF BoundaryInv
<1>1. /\ branches \subseteq branches' /\ onMain' = onMain
      /\ \A b \in branches' : b \in branches \/ (b.by = op.by /\ b.repo = op.repo
           /\ b.name = op.name /\ op.action = "push-file")
      /\ \A p \in pulls' : p \in pulls \/ (p.by = op.by /\ op.action = "open-pr")
  BY <1>0, CarriedOut
<1>2. op \in CallsOf(v) <=> op.by = v
  BY DEF CallsOf
<1>3. CallsOf(v)' = CallsOf(v) \ {op}
  BY DEF CallsOf
<1>4. op.action \in {"push-file", "open-pr"}
  BY <1>0 DEF TypeOK
<1>5. op.by = v => op.repo = job[v]
  BY <1>0 DEF PendingInv
<1>6. op.by = v => /\ wpc[v] \notin {"idle", "push"}
                   /\ wpc[v] = "pushing" => op.action = "open-pr"
                   /\ wpc[v] = "opening" => op.action = "push-file"
  BY <1>0, <1>2, <1>4, <1>5 DEF Awaits, TargetInv
<1>7. TargetInv(v)'
  <2>1. op.by = v /\ op.action = "open-pr" =>
          wpc[v] \notin {"idle", "push", "pushing", "open", "opening"}
    BY <1>0, <1>2, <1>6 DEF TargetInv
  <2> QED BY <1>0, <1>1, <1>3, <1>6, <2>1 DEF TargetInv
<1>8. HeadInv(v)'
  BY <1>0, <1>1 DEF HeadInv
<1>9. ASSUME UnhurtInv(v) PROVE UnhurtInv(v)'
  <2>1. ASSUME wpc[v] = "pushing"
        PROVE  \E call \in CallsOf(v)' : call.action = "push-file" /\ NameIsFree(v, call)'
    <3>1. PICK call \in CallsOf(v) : call.action = "push-file" /\ NameIsFree(v, call)
      BY <1>9, <2>1 DEF UnhurtInv
    <3>2. call # op
      BY <1>6, <2>1, <3>1 DEF CallsOf
    <3>3. NameIsFree(v, call)'
      BY <1>1, <3>1, <3>2 DEF NameIsFree
    <3> QED BY <1>3, <3>1, <3>2, <3>3
  <2>2. ASSUME wpc[v] = "opening"
        PROVE  \E call \in CallsOf(v)' : call.action = "open-pr"
    BY <1>2, <1>3, <1>6, <1>9, <2>2 DEF UnhurtInv, CallsOf
  <2> QED BY <1>1, <1>9, <2>1, <2>2 DEF UnhurtInv, Hopeless
<1> QED BY <1>7, <1>8, <1>9

\* A call carried out late is news to no worker.
LEMMA LateKeeps ==
  ASSUME BoundaryInv, NEW op \in pending, GiteaIsLate(op)
  PROVE  BoundaryInv'
<1>0. /\ TypeOK /\ PendingInv /\ BranchInv /\ PullInv /\ DeployedInv /\ AgreeInv
      /\ \A v \in Workers : TargetInv(v) /\ HeadInv(v)
      /\ required => \A v \in Workers \ hurt : UnhurtInv(v)
  BY DEF BoundaryInv
<1>1. /\ CarryOut(op) /\ pending' = pending \ {op} /\ \A w \in Workers : ~Awaits(w, op)
      /\ UNCHANGED <<required, wpc, job, head, pushed, opened, last, hurt, calls, faults>>
  BY DEF GiteaIsLate, worker
<1>2. TypeOK'
  BY <1>0, <1>1, CarriedOut DEF TypeOK
<1>3. PendingInv'
  BY <1>0, <1>1 DEF PendingInv
<1>4. BranchInv' /\ PullInv' /\ DeployedInv' /\ AgreeInv'
  BY <1>1, CarriedBranches, CarriedPulls, CarriedDeployed
<1>5. ASSUME NEW v \in Workers
      PROVE  TargetInv(v)' /\ HeadInv(v)' /\ (UnhurtInv(v) => UnhurtInv(v)')
  BY <1>1, CarriedElsewhere
<1> QED BY <1>0, <1>1, <1>2, <1>3, <1>4, <1>5 DEF BoundaryInv

\* A call that is lost is one that no worker waits for.
LEMMA LostKeeps ==
  ASSUME BoundaryInv, NEW op \in pending, CallLost(op)
  PROVE  BoundaryInv'
<1>0. /\ TypeOK /\ PendingInv /\ BranchInv /\ PullInv /\ DeployedInv /\ AgreeInv
      /\ \A v \in Workers : TargetInv(v) /\ HeadInv(v)
      /\ required => \A v \in Workers \ hurt : UnhurtInv(v)
  BY DEF BoundaryInv
<1>1. /\ pending' = pending \ {op} /\ \A w \in Workers : ~Awaits(w, op)
      /\ UNCHANGED <<required, wpc, job, head, pushed, opened, exists, onMain, branches,
                     pulls, last, hurt, calls, faults>>
  BY DEF CallLost, worker, gitea
<1>2. TypeOK'
  BY <1>0, <1>1 DEF TypeOK
<1>3. PendingInv' /\ BranchInv' /\ PullInv' /\ DeployedInv' /\ AgreeInv'
  BY <1>0, <1>1 DEF PendingInv, BranchInv, PullInv, DeployedInv, AgreeInv
<1>4. ASSUME NEW v \in Workers PROVE TargetInv(v)' /\ HeadInv(v)'
  BY <1>0, <1>1 DEF TargetInv, HeadInv, CallsOf
<1>5. ASSUME required', NEW v \in Workers \ hurt' PROVE UnhurtInv(v)'
  <2>1. UnhurtInv(v)
    BY <1>0, <1>1, <1>5
  <2>2. ASSUME NEW call \in CallsOf(v), Awaits(v, call)
        PROVE  call \in CallsOf(v)' /\ (NameIsFree(v, call) => NameIsFree(v, call)')
    BY <1>1, <2>2 DEF CallsOf, NameIsFree
  <2>3. ASSUME NEW call \in CallsOf(v)
        PROVE  /\ wpc[v] = "pushing" /\ call.action = "push-file" => Awaits(v, call)
               /\ wpc[v] = "opening" /\ call.action = "open-pr" => Awaits(v, call)
    BY <1>0 DEF CallsOf, PendingInv, Awaits
  <2> QED BY <1>1, <2>1, <2>2, <2>3 DEF UnhurtInv, Hopeless
<1> QED BY <1>2, <1>3, <1>4, <1>5 DEF BoundaryInv

\* As deployed, a pull request from a worker's own branch is possible.
LEMMA OpenIsPossible ==
  ASSUME BoundaryInv, required, NEW w \in Workers, NEW op \in pending,
         op.by = w, op.action = "open-pr", wpc[w] = "opening"
  PROVE  Possible(op)
<1>0. /\ TypeOK /\ PendingInv /\ BranchInv /\ PullInv /\ DeployedInv /\ AgreeInv
      /\ \A v \in Workers : TargetInv(v) /\ HeadInv(v)
      /\ required => \A v \in Workers \ hurt : UnhurtInv(v)
  BY DEF BoundaryInv
<1>1. op.repo = job[w] /\ op.name = head[w] /\ head[w] # MadeUpName
  BY <1>0 DEF PendingInv
<1>2. PICK branch : branch = [by |-> w, repo |-> job[w], name |-> head[w]]
  OBVIOUS
<1>3. /\ branch \in branches /\ branch.by = w
      /\ branch.repo = op.repo /\ branch.name = op.name
  BY <1>0, <1>1, <1>2 DEF HeadInv
<1>4. op.repo \in exists
  BY <1>0, <1>3 DEF TypeOK
<1>5. ASSUME NEW p \in pulls, p.repo = op.repo, p.head = op.name PROVE FALSE
  <2>1. p.by \in Workers
    BY <1>0 DEF DeployedInv
  <2>2. p.repo = job[p.by] /\ p.head = head[p.by] /\ head[p.by] # MadeUpName
    BY <1>0, <2>1 DEF PullInv
  <2>3. PICK other : other = [by |-> p.by, repo |-> job[p.by], name |-> head[p.by]]
    OBVIOUS
  <2>4. /\ other \in branches /\ other.by = p.by
        /\ other.repo = op.repo /\ other.name = op.name
    BY <1>0, <1>5, <2>1, <2>2, <2>3 DEF HeadInv
  <2>5. p.by = w
    BY <1>0, <1>3, <2>4 DEF BranchInv
  <2> QED BY <1>0, <2>5 DEF TargetInv
<1> QED BY <1>3, <1>4, <1>5 DEF Possible

\* The answer to a push brings the name of the branch it made; a worker nothing went
\* wrong with hears of success, unless its repository has the file already.
LEMMA AnswerKeeps ==
  ASSUME BoundaryInv, NEW w \in Workers, NEW op \in pending, GiteaAnswers(w, op)
  PROVE  BoundaryInv'
<1>0. /\ TypeOK /\ PendingInv /\ BranchInv /\ PullInv /\ DeployedInv /\ AgreeInv
      /\ \A v \in Workers : TargetInv(v) /\ HeadInv(v)
      /\ required => \A v \in Workers \ hurt : UnhurtInv(v)
  BY DEF BoundaryInv
<1>1. /\ Awaits(w, op) /\ CarryOut(op) /\ pending' = pending \ {op}
      /\ Record(w, IF Possible(op) THEN "ok" ELSE "error")
      /\ head' = [head EXCEPT ![w] =
           IF op.action = "push-file" /\ Possible(op) THEN op.name ELSE @]
      /\ UNCHANGED <<required, job, last, hurt, calls, faults>>
  BY DEF GiteaAnswers, Unhurt
<1>2. /\ op.by = w /\ op.repo = job[w] /\ op \in CallsOf(w)
      /\ \/ op.action = "push-file" /\ wpc[w] = "pushing"
         \/ op.action = "open-pr" /\ wpc[w] = "opening"
  BY <1>0, <1>1 DEF Awaits, TypeOK, CallsOf
<1>3. \A v \in Workers \ {w} :
        /\ wpc'[v] = wpc[v] /\ head'[v] = head[v]
        /\ pushed'[v] = pushed[v] /\ opened'[v] = opened[v]
  BY <1>0, <1>1 DEF Record, TypeOK
<1>4. \A v \in Workers \ {w} :
        TargetInv(v)' /\ HeadInv(v)' /\ (UnhurtInv(v) => UnhurtInv(v)')
  <2> SUFFICES ASSUME NEW v \in Workers \ {w}
               PROVE  TargetInv(v)' /\ HeadInv(v)' /\ (UnhurtInv(v) => UnhurtInv(v)')
    OBVIOUS
  <2>1. ~Awaits(v, op)
    BY <1>2 DEF Awaits
  <2> QED BY <1>1, <1>3, <2>1, CarriedElsewhere
<1>5. \A call \in CallsOf(w)' : call \in pending /\ call # op /\ call.by = w
  BY <1>1 DEF CallsOf
<1>6. TypeOK'
  <2>1. op.name \in Names /\ op.action = "push-file" => op.name \in Suffixes
    BY <1>0 DEF TypeOK, PendingInv
  <2>2. /\ wpc' \in [Workers -> {"idle", "push", "pushing", "open", "opening", "attempt",
                                 "over"}]
        /\ pushed' \in [Workers -> Statuses] /\ opened' \in [Workers -> Statuses]
        /\ head' \in [Workers -> Names]
    BY <1>0, <1>1, <2>1 DEF TypeOK, Record, Statuses
  <2> QED BY <1>0, <1>1, <2>2, CarriedOut DEF TypeOK
<1>7. BranchInv' /\ DeployedInv' /\ AgreeInv'
  BY <1>1, CarriedBranches, CarriedDeployed
<1>8. CASE op.action = "push-file"
  <2>1. /\ wpc[w] = "pushing" /\ wpc' = [wpc EXCEPT ![w] = "open"]
        /\ pushed' = [pushed EXCEPT ![w] = IF Possible(op) THEN "ok" ELSE "error"]
        /\ opened' = opened
    BY <1>1, <1>2, <1>8 DEF Record
  <2>2. /\ wpc'[w] = "open"
        /\ Possible(op) => pushed'[w] = "ok" /\ head'[w] = op.name
        /\ ~Possible(op) => head'[w] = head[w]
    BY <1>0, <1>1, <1>8, <2>1 DEF TypeOK
  <2>3. /\ head[w] = MadeUpName
        /\ \A call \in CallsOf(w) : call.action = "push-file"
        /\ \A p \in pulls : p.by # w
    BY <1>0, <2>1 DEF TargetInv
  <2>4. /\ pulls' = pulls
        /\ Possible(op) =>
             [by |-> op.by, repo |-> op.repo, name |-> op.name] \in branches'
    BY <1>0, <1>1, <1>8, CarriedOut
  <2>5. PullInv'
    BY <1>1, <1>3, <2>3, <2>4, CarriedPulls
  <2>6. PendingInv'
    BY <1>0, <1>1, <1>3, <2>3 DEF PendingInv, CallsOf
  <2>7. TargetInv(w)'
    BY <1>0, <1>1, <1>2, <1>5, <2>2, <2>3, <2>4 DEF TargetInv, CallsOf
  <2>8. HeadInv(w)'
    BY <1>1, <1>2, <2>2, <2>3, <2>4 DEF HeadInv
  <2>9. ASSUME required, w \notin hurt PROVE UnhurtInv(w)'
    <3>1. PICK call \in CallsOf(w) : call.action = "push-file" /\ NameIsFree(w, call)
      BY <1>0, <2>1, <2>9 DEF UnhurtInv
    <3>2. call = op
      BY <1>0, <1>2, <1>8, <3>1 DEF PendingInv, CallsOf
    <3>3. CASE job[w] \in Seeded /\ job[w] \notin onMain
      <4>1. Possible(op)
        BY <1>0, <1>2, <1>8, <2>9, <3>1, <3>2, <3>3 DEF Possible, NameIsFree, DeployedInv
      <4>2. head'[w] \in Suffixes
        BY <1>0, <1>8, <2>2, <4>1 DEF PendingInv
      <4> QED BY <2>2, <4>2 DEF UnhurtInv
    <3>4. CASE Hopeless(w)
      BY <1>1, <2>2, <3>4 DEF UnhurtInv, Hopeless, CarryOut
    <3> QED BY <3>3, <3>4 DEF Hopeless
  <2> QED BY <1>0, <1>1, <1>4, <1>6, <1>7, <2>5, <2>6, <2>7, <2>8, <2>9 DEF BoundaryInv
<1>9. CASE op.action = "open-pr"
  <2>1. /\ wpc[w] = "opening" /\ wpc' = [wpc EXCEPT ![w] = "attempt"]
        /\ opened' = [opened EXCEPT ![w] = IF Possible(op) THEN "ok" ELSE "error"]
        /\ pushed' = pushed
    BY <1>1, <1>2, <1>9 DEF Record
  <2>2. /\ wpc'[w] = "attempt" /\ head' = head
        /\ Possible(op) => opened'[w] = "ok"
    BY <1>0, <1>1, <1>9, <2>1 DEF TypeOK
  <2>3. branches' = branches
    BY <1>0, <1>1, <1>9, CarriedOut
  <2>4. PullInv'
    BY <1>1, <2>2, CarriedPulls
  <2>5. PendingInv'
    BY <1>0, <1>1, <2>2 DEF PendingInv
  <2>6. TargetInv(w)' /\ HeadInv(w)'
    BY <1>0, <1>1, <2>1, <2>2, <2>3 DEF TargetInv, HeadInv
  <2>7. ASSUME required PROVE UnhurtInv(w)'
    BY <1>2, <1>9, <2>1, <2>2, <2>7, OpenIsPossible DEF UnhurtInv
  <2> QED BY <1>0, <1>1, <1>4, <1>6, <1>7, <2>4, <2>5, <2>6, <2>7 DEF BoundaryInv
<1> QED BY <1>2, <1>8, <1>9

\* A reviewer changes the state of a pull request and, merging it, main.
LEMMA ReviewKeeps ==
  ASSUME BoundaryInv, NEW p \in pulls, Review(p)
  PROVE  BoundaryInv'
<1>0. /\ TypeOK /\ PendingInv /\ BranchInv /\ PullInv /\ DeployedInv /\ AgreeInv
      /\ \A v \in Workers : TargetInv(v) /\ HeadInv(v)
      /\ required => \A v \in Workers \ hurt : UnhurtInv(v)
  BY DEF BoundaryInv
<1>1. PICK verdict \in {"merged", "closed"} :
        /\ pulls' = (pulls \ {p}) \cup {[p EXCEPT !.state = verdict]}
        /\ onMain' = IF verdict = "merged" THEN onMain \cup {p.repo} ELSE onMain
  BY DEF Review
<1>2. UNCHANGED <<required, wpc, job, head, pushed, opened, pending, exists, branches, last,
                  hurt, calls, faults>>
  BY DEF Review, worker
<1>3. p \in [by : Workers \cup {Client}, repo : exists, head : Suffixes,
             state : {"open", "merged", "closed"}]
  BY <1>0 DEF TypeOK
<1>4. PICK reviewed : reviewed = [p EXCEPT !.state = verdict]
  OBVIOUS
<1>5. /\ pulls' = (pulls \ {p}) \cup {reviewed}
      /\ reviewed.by = p.by /\ reviewed.repo = p.repo /\ reviewed.head = p.head
      /\ reviewed \in [by : Workers \cup {Client}, repo : exists, head : Suffixes,
                       state : {"open", "merged", "closed"}]
  BY <1>1, <1>3, <1>4
<1>6. onMain \subseteq onMain' /\ onMain' \subseteq exists
  BY <1>0, <1>1, <1>3 DEF TypeOK
<1>7. TypeOK'
  BY <1>0, <1>2, <1>5, <1>6 DEF TypeOK
<1>8. ASSUME NEW v \in Workers PROVE TargetInv(v)' /\ HeadInv(v)'
  BY <1>0, <1>2, <1>5 DEF TargetInv, HeadInv, CallsOf
<1>9. PullInv' /\ DeployedInv'
  BY <1>0, <1>2, <1>5 DEF PullInv, DeployedInv
<1>10. PendingInv' /\ BranchInv' /\ AgreeInv'
  BY <1>0, <1>2 DEF PendingInv, BranchInv, AgreeInv
<1>11. ASSUME required', NEW v \in Workers \ hurt' PROVE UnhurtInv(v)'
  <2>1. UnhurtInv(v)
    BY <1>0, <1>2, <1>11
  <2> QED BY <1>2, <1>6, <2>1 DEF UnhurtInv, Hopeless, NameIsFree, CallsOf
<1> QED BY <1>7, <1>8, <1>9, <1>10, <1>11 DEF BoundaryInv

-----------------------------------------------------------------------------
(* The other callers                                                       *)

\* Who was answered last, and how often Gitea was called directly, matters to no
\* other part of the invariant.
LEMMA AnsweredKeeps ==
  ASSUME BoundaryInv, last' \in {"none", "served", "envoy", "gateway-direct"},
         calls' \in 0..MaxCalls,
         UNCHANGED <<required, worker, pending, gitea, hurt, faults>>
  PROVE  BoundaryInv'
<1>0. /\ TypeOK /\ PendingInv /\ BranchInv /\ PullInv /\ DeployedInv /\ AgreeInv
      /\ \A v \in Workers : TargetInv(v) /\ HeadInv(v)
      /\ required => \A v \in Workers \ hurt : UnhurtInv(v)
  BY DEF BoundaryInv
<1>1. UNCHANGED <<required, wpc, job, head, pushed, opened, pending, exists, onMain,
                  branches, pulls, hurt, faults>>
  BY DEF worker, gitea
<1>2. TypeOK' /\ PendingInv' /\ BranchInv' /\ PullInv' /\ DeployedInv' /\ AgreeInv'
  BY <1>0, <1>1 DEF TypeOK, PendingInv, BranchInv, PullInv, DeployedInv, AgreeInv
<1>3. ASSUME NEW v \in Workers
      PROVE  TargetInv(v)' /\ HeadInv(v)' /\ (UnhurtInv(v) => UnhurtInv(v)')
  BY <1>0, <1>1 DEF TargetInv, HeadInv, UnhurtInv, Hopeless, NameIsFree, CallsOf
<1> QED BY <1>0, <1>1, <1>2, <1>3 DEF BoundaryInv

\* Reading changes nothing, and the gateway refuses none that Envoy admits.
LEMMA ReadKeeps ==
  ASSUME BoundaryInv, NEW repo \in Repos, ReadSource(repo)
  PROVE  BoundaryInv'
<1>1. last' \in {"served", "envoy"}
  BY GatewayAdmitsReads DEF ReadSource
<1>2. calls' \in 0..MaxCalls
  BY DEF ReadSource, BoundaryInv, TypeOK
<1> QED BY <1>1, <1>2, AnsweredKeeps DEF ReadSource

\* A direct call that is admitted, which takes a gateway without the policy.
LEMMA AdmittedKeeps ==
  ASSUME BoundaryInv, ~required, NEW repo \in Repos, NEW name \in Suffixes,
         NEW req, req.repo = repo, ~DenyListed(req), DirectEffect(req, name),
         req.action \in {"read-source", "list-repos", "create-repo", "push-file", "open-pr"},
         last' = "served", calls' \in 0..MaxCalls, UNCHANGED <<required, worker, hurt, faults>>
  PROVE  BoundaryInv'
<1>0. /\ TypeOK /\ PendingInv /\ BranchInv /\ PullInv /\ DeployedInv /\ AgreeInv
      /\ \A v \in Workers : TargetInv(v) /\ HeadInv(v)
      /\ required => \A v \in Workers \ hurt : UnhurtInv(v)
  BY DEF BoundaryInv
<1>1. UNCHANGED <<required, wpc, job, head, pushed, opened, hurt, faults>>
  BY DEF worker
<1>2. CASE UNCHANGED <<pending, gitea>>
  BY <1>2, AnsweredKeeps
<1>3. CASE exists' = exists \cup {repo} /\ UNCHANGED <<pending, onMain, branches, pulls>>
  <2>1. TypeOK'
    BY <1>0, <1>1, <1>3 DEF TypeOK
  <2>2. PendingInv' /\ BranchInv' /\ PullInv' /\ DeployedInv' /\ AgreeInv'
    BY <1>0, <1>1, <1>3 DEF PendingInv, BranchInv, PullInv, DeployedInv, AgreeInv
  <2>3. ASSUME NEW v \in Workers PROVE TargetInv(v)' /\ HeadInv(v)'
    BY <1>0, <1>1, <1>3 DEF TargetInv, HeadInv, CallsOf
  <2> QED BY <1>1, <2>1, <2>2, <2>3 DEF BoundaryInv
<1>4. CASE /\ req.action \in {"push-file", "open-pr"}
           /\ pending' = pending \cup
                {[by |-> Client, action |-> req.action, repo |-> repo, name |-> name]}
           /\ UNCHANGED gitea
  <2>1. PICK call :
          call = [by |-> Client, action |-> req.action, repo |-> repo, name |-> name]
    OBVIOUS
  <2>2. /\ call \in [by : Workers \cup {Client}, action : {"push-file", "open-pr"},
                     repo : Repos, name : Names]
        /\ call.by \notin Workers /\ call.name \in Suffixes
        /\ call.action = "open-pr" => call.repo \notin ProtectedRepos
    BY <1>4, <2>1, BoundaryAssumption DEF Client, Names, DenyListed
  <2>3. pending' = pending \cup {call} /\ UNCHANGED <<exists, onMain, branches, pulls>>
    BY <1>4, <2>1 DEF gitea
  <2>4. TypeOK'
    BY <1>0, <1>1, <2>2, <2>3 DEF TypeOK
  <2>5. PendingInv'
    BY <1>0, <1>1, <2>2, <2>3 DEF PendingInv
  <2>6. BranchInv' /\ PullInv' /\ DeployedInv' /\ AgreeInv'
    BY <1>0, <1>1, <2>3 DEF BranchInv, PullInv, DeployedInv, AgreeInv
  <2>7. ASSUME NEW v \in Workers PROVE TargetInv(v)' /\ HeadInv(v)'
    <3>1. CallsOf(v)' = CallsOf(v)
      BY <2>2, <2>3 DEF CallsOf
    <3> QED BY <1>0, <1>1, <2>3, <3>1 DEF TargetInv, HeadInv
  <2> QED BY <1>1, <2>4, <2>5, <2>6, <2>7 DEF BoundaryInv
<1> QED BY <1>2, <1>3, <1>4 DEF DirectEffect

\* A direct call has an effect only where the policy is not required.
LEMMA DirectKeeps ==
  ASSUME BoundaryInv, DirectCalls
  PROVE  BoundaryInv'
<1>1. PICK action \in {"read-source", "list-repos", "create-repo", "push-file", "open-pr"},
           repo \in OwnRepos, name \in Suffixes,
           scope \in {{"openid", "gitea:read"}, {"openid", "gitea:write", "gitea:pr"}} :
        DirectCall(action, repo, name, scope)
  BY DEF DirectCalls
<1> DEFINE req == Request(action, repo, name, "none")
           access == [Access EXCEPT !.scope = scope]
<1>2. /\ calls < MaxCalls /\ calls' = calls + 1
      /\ IF GatewayAdmits(access, NoPolicy, req)
           THEN last' = "served" /\ DirectEffect(req, name)
           ELSE last' = "gateway-direct" /\ UNCHANGED <<pending, gitea>>
      /\ UNCHANGED <<required, worker, hurt, faults>>
  BY <1>1 DEF DirectCall
<1>3. calls' \in 0..MaxCalls
  BY <1>2, BoundaryAssumption DEF BoundaryInv, TypeOK
<1>4. CASE GatewayAdmits(access, NoPolicy, req)
  <2>1. ~required
    BY <1>4, NothingDirect
  <2>2. ~DenyListed(req)
    BY <1>4 DEF GatewayAdmits
  <2>3. req.repo = repo /\ req.action = action /\ repo \in Repos
    BY RepoAssumption DEF Request
  <2> HIDE DEF req, access
  <2> QED BY <1>2, <1>3, <1>4, <2>1, <2>2, <2>3, AdmittedKeeps
<1>5. CASE ~GatewayAdmits(access, NoPolicy, req)
  BY <1>2, <1>3, <1>5, AnsweredKeeps
<1> QED BY <1>4, <1>5

\* Every step, by any actor.
LEMMA StepBoundary == BoundaryInv /\ [Next]_vars => BoundaryInv'
<1> SUFFICES ASSUME BoundaryInv, [Next]_vars PROVE BoundaryInv'
  OBVIOUS
<1>1. ASSUME NEW w \in Workers, NEW repo \in Repos, Begin(w, repo) PROVE BoundaryInv'
  BY <1>1, BeginKeeps
<1>2. ASSUME NEW w \in Workers,
             Push(w) \/ Open(w) \/ AnswerLost(w) \/ Crash(w)
               \/ (\E repo \in ProtectedRepos : Attempt(w, repo))
               \/ (\E op \in pending : GiteaAnswers(w, op))
      PROVE  BoundaryInv'
  BY <1>2, PushKeeps, OpenKeeps, HurtKeeps, AttemptKeeps, AnswerKeeps
<1>3. ASSUME NEW op \in pending, GiteaIsLate(op) \/ CallLost(op) PROVE BoundaryInv'
  BY <1>3, LateKeeps, LostKeeps
<1>4. ASSUME NEW p \in pulls, Review(p) PROVE BoundaryInv'
  BY <1>4, ReviewKeeps
<1>5. ASSUME NEW repo \in Repos, ReadSource(repo) PROVE BoundaryInv'
  BY <1>5, ReadKeeps
<1>6. CASE DirectCalls
  BY <1>6, DirectKeeps
<1>7. CASE Rest \/ UNCHANGED vars
  <2>1. UNCHANGED <<required, worker, pending, gitea, hurt, faults, last, calls>>
    BY <1>7 DEF Rest, vars
  <2>2. last' \in {"none", "served", "envoy", "gateway-direct"} /\ calls' \in 0..MaxCalls
    BY <2>1 DEF BoundaryInv, TypeOK, AgreeInv
  <2> QED BY <2>1, <2>2, AnsweredKeeps
<1> QED BY <1>1, <1>2, <1>3, <1>4, <1>5, <1>6, <1>7 DEF Next

-----------------------------------------------------------------------------
(* The properties                                                          *)

\* Targets, calls under way, branches and pull requests agree with where each
\* worker stands, and nothing stands in the way of one that nothing hurt.
THEOREM BoundaryInvariant == Spec => []BoundaryInv
<1> QED BY InitBoundary, StepBoundary, PTL DEF Spec

\* The handlers, the calls under way and what Gitea holds keep their types.
THEOREM TypeCorrect == Spec => []TypeOK
<1>1. BoundaryInv => TypeOK
  BY DEF BoundaryInv
<1> QED BY <1>1, BoundaryInvariant, PTL

\* However many remediations share a repository and whatever is late or lost, a
\* pull request shows the work of the remediation that opened it.
THEOREM PullsAreOwn == Spec => []PullsComeFromOwnPushes
<1>1. BoundaryInv => PullsComeFromOwnPushes
  BY DEF BoundaryInv, PullInv, HeadInv, PullsComeFromOwnPushes
<1> QED BY <1>1, BoundaryInvariant, PTL

\* As deployed, a remediation nothing went wrong with opens its pull request.
THEOREM UnhurtSucceed == Spec => []UnhurtRemediationsSucceed
<1>1. BoundaryInv => UnhurtRemediationsSucceed
  BY DEF BoundaryInv, UnhurtInv, Hopeless, UnhurtRemediationsSucceed
<1> QED BY <1>1, BoundaryInvariant, PTL

\* Protected repositories stay without pull requests, as deployed without branches.
THEOREM ProtectedSpared == Spec => []ProtectedReposAreSpared
<1>1. BoundaryInv => ProtectedReposAreSpared
  <2> SUFFICES ASSUME BoundaryInv PROVE ProtectedReposAreSpared
    OBVIOUS
  <2>1. \A p \in pulls : p.repo \notin ProtectedRepos
    BY DEF BoundaryInv, PullInv
  <2>2. ASSUME required, NEW b \in branches PROVE b.repo \notin ProtectedRepos
    <3>1. b.by \in Workers /\ b.repo = job[b.by]
      BY <2>2 DEF BoundaryInv, DeployedInv, BranchInv
    <3>2. wpc[b.by] # "idle"
      BY <3>1 DEF BoundaryInv, TargetInv
    <3> QED BY <3>1, <3>2 DEF BoundaryInv, TargetInv, Reachable
  <2> QED BY <2>1, <2>2 DEF ProtectedReposAreSpared
<1> QED BY <1>1, BoundaryInvariant, PTL

\* As deployed, only delegated writes reach Gitea.
THEOREM WritesAreDelegated == Spec => []OnlyDelegatedWrites
<1>1. BoundaryInv => OnlyDelegatedWrites
  BY DEF BoundaryInv, DeployedInv, BranchInv, OnlyDelegatedWrites
<1> QED BY <1>1, BoundaryInvariant, PTL

\* No call that Envoy admits is refused by the gateway.
THEOREM GatewayAgrees == Spec => []GatewayAgreesWithEnvoy
<1>1. BoundaryInv => GatewayAgreesWithEnvoy
  BY DEF BoundaryInv, AgreeInv, GatewayAgreesWithEnvoy
<1> QED BY <1>1, BoundaryInvariant, PTL

-----------------------------------------------------------------------------
(***************************************************************************)
(* What a failure leaves behind.  A push that Gitea refused has made       *)
(* nothing, and the handler goes on with a name that no policy lets        *)
(* through: BareInv says from where on it has nothing at all.              *)
(***************************************************************************)

NothingOf(w) == \A x \in branches \cup pulls \cup pending : x.by # w

BareInv(w) ==
  /\ wpc[w] = "pushing" => \A b \in branches : b.by # w
  /\ wpc[w] = "open" => head[w] \in Suffixes \/ NothingOf(w)
  /\ wpc[w] \in {"attempt", "over"} => opened[w] = "ok" \/ NothingOf(w)

\* A remediation stays bare through a step that adds nothing of its own.
LEMMA StillBare ==
  ASSUME NEW w \in Workers, BareInv(w),
         wpc'[w] = wpc[w], head'[w] = head[w], opened'[w] = opened[w],
         \A b \in branches' : b.by = w => \E x \in branches : x.by = w,
         \A x \in pulls' \cup pending' : x.by = w => ~NothingOf(w)
  PROVE  BareInv(w)'
<1>1. NothingOf(w) => NothingOf(w)'
  BY DEF NothingOf
<1> QED BY <1>1 DEF BareInv

\* A remediation's own steps: a push is the first thing it leaves anywhere, and one
\* that goes on without a branch is refused its pull request.
LEMMA OwnStepBare ==
  ASSUME BoundaryInv, required, NEW w \in Workers, BareInv(w),
         \/ \E repo \in Repos : Begin(w, repo)
         \/ Push(w) \/ Open(w)
         \/ \E repo \in ProtectedRepos : Attempt(w, repo)
  PROVE  BareInv(w)'
<1>0. TypeOK /\ TargetInv(w)
  BY DEF BoundaryInv
<1>1. ASSUME NEW repo \in Repos, Begin(w, repo) PROVE BareInv(w)'
  <2>1. wpc'[w] = "push"
    BY <1>0, <1>1 DEF Begin, TypeOK
  <2> QED BY <2>1 DEF BareInv
<1>2. CASE Push(w)
  <2>1. wpc[w] = "push" /\ wpc'[w] = "pushing" /\ branches' = branches
    BY <1>0, <1>2, PushSends DEF TypeOK
  <2> QED BY <1>0, <2>1 DEF BareInv, TargetInv
<1>3. CASE Open(w)
  <2> DEFINE req == Request("open-pr", job[w], head[w], "remediate")
  <2>1. wpc[w] = "open" /\ job[w] \in Reachable
    BY <1>0, <1>3 DEF Open, TargetInv
  <2>2. CASE Served(w, req)
    <3>1. wpc'[w] = "opening"
      BY <1>0, <1>3, <2>2 DEF Open, TypeOK
    <3> QED BY <3>1 DEF BareInv
  <2>3. CASE ~Served(w, req)
    <3>1. NothingOf(w)
      BY <2>1, <2>3, OpenServed DEF BareInv
    <3>2. wpc'[w] = "attempt" /\ UNCHANGED <<branches, pulls, pending>>
      BY <1>0, <1>3, <2>3 DEF Open, TypeOK, gitea
    <3> QED BY <3>1, <3>2 DEF BareInv, NothingOf
  <2> QED BY <2>2, <2>3
<1>4. ASSUME NEW repo \in ProtectedRepos, Attempt(w, repo) PROVE BareInv(w)'
  <2>1. /\ wpc[w] = "attempt" /\ wpc'[w] = "over"
        /\ UNCHANGED <<opened, branches, pulls, pending>>
    BY <1>0, <1>4, AttemptRefused DEF Attempt, TypeOK, gitea
  <2> QED BY <2>1 DEF BareInv, NothingOf
<1> QED BY <1>1, <1>2, <1>3, <1>4

\* Its answer: a push Gitea refused was all it had under way.
LEMMA AnswerBare ==
  ASSUME BoundaryInv, required, NEW w \in Workers, BareInv(w),
         NEW op \in pending, GiteaAnswers(w, op)
  PROVE  BareInv(w)'
<1>0. TypeOK /\ PendingInv /\ TargetInv(w)
  BY DEF BoundaryInv
<1>1. /\ Awaits(w, op) /\ CarryOut(op) /\ pending' = pending \ {op}
      /\ Record(w, IF Possible(op) THEN "ok" ELSE "error")
      /\ head' = [head EXCEPT ![w] =
           IF op.action = "push-file" /\ Possible(op) THEN op.name ELSE @]
  BY DEF GiteaAnswers
<1>2. CASE op.action = "push-file"
  <2>1. op.by = w /\ wpc[w] = "pushing" /\ wpc'[w] = "open"
    BY <1>0, <1>1, <1>2 DEF Awaits, Record, TypeOK
  <2>2. CASE Possible(op)
    <3>1. head'[w] \in Suffixes
      BY <1>0, <1>1, <1>2, <2>2 DEF TypeOK, PendingInv
    <3> QED BY <2>1, <3>1 DEF BareInv
  <2>3. CASE ~Possible(op)
    <3>1. UNCHANGED <<branches, pulls>>
      BY <1>0, <1>1, <2>3, CarriedOut
    <3>2. /\ \A b \in branches : b.by # w
          /\ \A p \in pulls : p.by # w
      BY <1>0, <2>1 DEF BareInv, TargetInv
    <3>3. \A other \in pending : other.by = w => other = op
      BY <1>0, <1>2, <2>1 DEF TargetInv, CallsOf, PendingInv
    <3> QED BY <1>1, <2>1, <3>1, <3>2, <3>3 DEF BareInv, NothingOf
  <2> QED BY <2>2, <2>3
<1>3. CASE op.action = "open-pr"
  <2>1. op.by = w /\ wpc[w] = "opening" /\ wpc'[w] = "attempt"
    BY <1>0, <1>1, <1>3 DEF Awaits, Record, TypeOK
  <2>2. opened'[w] = "ok"
    BY <1>0, <1>1, <1>3, <2>1, OpenIsPossible DEF Record, TypeOK
  <2> QED BY <2>1, <2>2 DEF BareInv
<1> QED BY <1>0, <1>2, <1>3 DEF TypeOK

\* Another remediation's step puts nothing in this one's name.
LEMMA OthersBare ==
  ASSUME BoundaryInv, required, NEW w \in Workers, BareInv(w), NEW v \in Workers, v # w,
         \/ \E repo \in Repos : Begin(v, repo)
         \/ Push(v) \/ Open(v) \/ AnswerLost(v) \/ Crash(v)
         \/ \E repo \in ProtectedRepos : Attempt(v, repo)
         \/ \E op \in pending : GiteaAnswers(v, op)
  PROVE  BareInv(w)'
<1>0. TypeOK /\ PendingInv
  BY DEF BoundaryInv
<1>1. wpc'[w] = wpc[w] /\ head'[w] = head[w] /\ opened'[w] = opened[w]
  BY <1>0 DEF Begin, Push, Open, AnswerLost, Crash, Attempt, GiteaAnswers, Record, TypeOK
<1>2. \A x \in pending' : x \in pending \/ x.by = v
  <2>1. CASE Push(v)
    <3>1. PICK name \in Suffixes : pending' = pending \cup
            {[by |-> v, action |-> "push-file", repo |-> job[v], name |-> name]}
      BY <2>1, PushSends
    <3> QED BY <3>1
  <2>2. CASE Open(v)
    BY <2>2 DEF Open
  <2>3. ASSUME NEW repo \in ProtectedRepos, Attempt(v, repo) PROVE pending' = pending
    BY <2>3, AttemptRefused DEF Attempt
  <2> QED BY <2>1, <2>2, <2>3 DEF Begin, AnswerLost, Crash, GiteaAnswers
<1>3. CASE UNCHANGED <<branches, pulls>>
  BY <1>1, <1>2, <1>3, StillBare DEF NothingOf
<1>4. ASSUME NEW op \in pending, GiteaAnswers(v, op) PROVE BareInv(w)'
  <2>1. CarryOut(op) /\ op.by = v
    BY <1>4 DEF GiteaAnswers, Awaits
  <2>2. /\ \A b \in branches' : b \in branches \/ b.by = v
        /\ \A p \in pulls' : p \in pulls \/ p.by = v
    BY <1>0, <2>1, CarriedOut
  <2> QED BY <1>1, <1>2, <2>2, StillBare DEF NothingOf
<1> QED BY <1>3, <1>4 DEF Begin, Push, Open, AnswerLost, Crash, Attempt, gitea

\* What Gitea does with a call nobody waits for, and what the others do.
LEMMA OutsideBare ==
  ASSUME BoundaryInv, required, NEW w \in Workers, BareInv(w),
         \/ \E op \in pending : GiteaIsLate(op) \/ CallLost(op)
         \/ \E p \in pulls : Review(p)
         \/ \E repo \in Repos : ReadSource(repo)
         \/ DirectCalls \/ Rest \/ UNCHANGED vars
  PROVE  BareInv(w)'
<1>0. TypeOK /\ PendingInv /\ TargetInv(w)
  BY DEF BoundaryInv
<1>1. UNCHANGED <<wpc, head, opened>>
  BY DEF GiteaIsLate, CallLost, Review, ReadSource, DirectCalls, DirectCall, Rest, vars,
     worker
<1>2. ASSUME NEW op \in pending, GiteaIsLate(op) PROVE BareInv(w)'
  <2>1. CarryOut(op) /\ pending' = pending \ {op} /\ ~Awaits(w, op)
    BY <1>2 DEF GiteaIsLate
  <2>2. /\ \A b \in branches' : b \in branches \/ b.by = op.by
        /\ \A p \in pulls' : p \in pulls \/ p.by = op.by
    BY <1>0, <2>1, CarriedOut
  <2>3. CASE op.by # w
    BY <1>1, <2>1, <2>2, <2>3, StillBare DEF NothingOf
  <2>4. CASE op.by = w
    <3>1. wpc[w] # "pushing"
      BY <1>0, <2>1, <2>4 DEF Awaits, TargetInv, CallsOf, PendingInv
    <3>2. ~NothingOf(w)
      BY <2>4 DEF NothingOf
    <3> QED BY <1>1, <3>1, <3>2 DEF BareInv
  <2> QED BY <2>3, <2>4
<1>3. ASSUME NEW op \in pending, CallLost(op) PROVE BareInv(w)'
  <2>1. pending' = pending \ {op} /\ UNCHANGED <<branches, pulls>>
    BY <1>3 DEF CallLost, gitea
  <2> QED BY <1>1, <2>1, StillBare DEF NothingOf
<1>4. ASSUME NEW p \in pulls, Review(p) PROVE BareInv(w)'
  <2>1. /\ UNCHANGED <<branches, pending>>
        /\ \A x \in pulls' : \E y \in pulls : y.by = x.by
    BY <1>0, <1>4 DEF Review, TypeOK
  <2> QED BY <1>1, <2>1, StillBare DEF NothingOf
<1>5. CASE (\E repo \in Repos : ReadSource(repo)) \/ DirectCalls \/ Rest \/ UNCHANGED vars
  <2>1. UNCHANGED <<branches, pulls, pending>>
    BY <1>5, NothingDirect DEF ReadSource, DirectCalls, DirectCall, Rest, vars, gitea
  <2> QED BY <1>1, <2>1, StillBare DEF NothingOf
<1> QED BY <1>2, <1>3, <1>4, <1>5

\* As deployed, a remediation nothing went wrong with that ends without a pull request
\* has left no branch, no pull request and no call behind, with any number of others
\* beside it.
THEOREM UnhurtLeaveNothing == Spec => []UnhurtFailuresLeaveNothing
<1> DEFINE Bare == required => \A w \in Workers \ hurt : BareInv(w)
<1>1. Init => Bare
  BY DEF Init, BareInv
<1>2. BoundaryInv /\ Bare /\ [Next]_vars => Bare'
  <2> SUFFICES ASSUME BoundaryInv, Bare, [Next]_vars, required',
                      NEW w \in Workers \ hurt'
               PROVE  BareInv(w)'
    OBVIOUS
  <2>1. required /\ w \notin hurt
    BY DEF Next, Begin, Push, Open, Draw, AnswerLost, Crash, Attempt, GiteaAnswers, Hurt,
       Unhurt, GiteaIsLate, CallLost, Review, ReadSource, DirectCalls, DirectCall, Rest,
       vars
  <2>2. BareInv(w)
    BY <2>1
  <2>3. ~AnswerLost(w) /\ ~Crash(w)
    BY DEF AnswerLost, Crash, Hurt
  <2> HIDE DEF Bare
  <2>4. ASSUME NEW v \in Workers,
               \/ \E repo \in Repos : Begin(v, repo)
               \/ Push(v) \/ Open(v) \/ AnswerLost(v) \/ Crash(v)
               \/ \E repo \in ProtectedRepos : Attempt(v, repo)
               \/ \E op \in pending : GiteaAnswers(v, op)
        PROVE  BareInv(w)'
    BY <2>1, <2>2, <2>3, <2>4, OwnStepBare, AnswerBare, OthersBare
  <2> QED BY <2>1, <2>2, <2>4, OutsideBare DEF Next
<1>3. BoundaryInv /\ Bare => UnhurtFailuresLeaveNothing
  BY DEF BareInv, NothingOf, UnhurtFailuresLeaveNothing
<1> HIDE DEF Bare
<1> QED BY <1>1, <1>2, <1>3, BoundaryInvariant, PTL DEF Spec
=============================================================================
