-------------------------- MODULE SubAgentLifecycle --------------------------
(***************************************************************************)
(* The Sub-Agent's POST /api/run (sub-agent/app.py): verify the sub-badge  *)
(* before redeeming it, register, publish a badge, check the sender's,     *)
(* redeem, then push a file, open a pull request and try one on the        *)
(* deny-listed repository.  From the push on nothing ends the handler.     *)
(***************************************************************************)
EXTENDS DelegationBase

SaSteps ==
  {"verify-subbadge", "cimd-generate-id", "cimd-resolve-id", "resolve-badge",
   "verify-sender-badge", "kc-b-exchange", "idjag-gitea", "push-file", "open-pr",
   "denied-pr-attempt", "opa-egress", "dir-push", "pr-created"}

SaPositions ==
  (SaSteps \ {"idjag-gitea", "opa-egress", "pr-created"})
     \cup {"idle", "pushing", "opening", "replied", "crashed"}

SaBusy(r) == spc[r] \notin {"idle", "replied", "crashed"}

SaFatal ==
  {"verify-subbadge", "cimd-generate-id", "cimd-resolve-id", "resolve-badge",
   "verify-sender-badge", "kc-b-exchange"}

SaInit ==
  /\ spc    = [r \in Runs |-> "idle"]
  /\ ssteps = [r \in Runs |-> [s \in SaSteps |-> "none"]]

-----------------------------------------------------------------------------
SaReport(r, step, status, next) ==
  /\ ssteps' = [ssteps EXCEPT ![r][step] = status]
  /\ spc' = [spc EXCEPT ![r] = next]

SaRecord(r, step, status, next) == spc[r] = step /\ SaReport(r, step, status, next)

SaOk(r, step, next) == SaRecord(r, step, "ok", next) /\ UNCHANGED faults

SaHalt(r, step) == SaRecord(r, step, "error", "replied")

SaRefused(r, step) == SaHalt(r, step) /\ UNCHANGED faults

SaCallFails(r) ==
  /\ Fault
  /\ \E step \in SaFatal : SaHalt(r, step)
  /\ UNCHANGED <<ocVars, trVars, world>>

-----------------------------------------------------------------------------
\* s1: the sub-badge, before anything is done with it.
VerifySubBadge(r) ==
  /\ IF SubBadgeAccepted(SubBadge(r), Spawn(r))
       THEN SaOk(r, "verify-subbadge", "cimd-generate-id")
       ELSE SaRefused(r, "verify-subbadge")
  /\ UNCHANGED <<ocVars, trVars, world>>

\* s2, s2b: register the Sub-Agent's own identity and resolve it.
RegisterSubAgent(r) ==
  /\ \/ SaOk(r, "cimd-generate-id", "cimd-resolve-id")
     \/ SaOk(r, "cimd-resolve-id", "resolve-badge")
  /\ UNCHANGED <<ocVars, trVars, world>>

\* s2c: the leaf's badge holds the sub-badge's scope and delegates nothing.
SubAgentBadge(r) ==
  /\ \/ SaOk(r, "resolve-badge", "verify-sender-badge")
     \/ SaHalt(r, "resolve-badge") /\ Fault
  /\ IssueBadge(SubAgent, SubBadge(r).scope, {}, Spawn(r).chain)
  /\ UNCHANGED <<ocVars, trVars, task, minted, tokens, sent, branches, pulls>>

\* s2d: the first badge listed for Triage must agree with the sub-badge.
VerifyTriageBadge(r) ==
  /\ LET candidates == {b \in badges : b.subject = Triage} IN
       \/ \E b \in candidates :
            IF SenderBadgeAgrees(b, SubBadge(r), ButLast(Spawn(r).chain))
              THEN SaOk(r, "verify-sender-badge", "kc-b-exchange")
              ELSE SaRefused(r, "verify-sender-badge")
       \/ candidates = {} /\ SaRefused(r, "verify-sender-badge")
  /\ UNCHANGED <<ocVars, trVars, world>>

\* s3, s4: redeem the sub-badge; both credentials go to the boundary.
RedeemSubBadge(r) ==
  /\ \/ /\ spc[r] = "kc-b-exchange"
        /\ spc' = [spc EXCEPT ![r] = "push-file"]
        /\ ssteps' = [ssteps EXCEPT ![r]["kc-b-exchange"] = "ok",
                                    ![r]["idjag-gitea"] = "ok"]
        /\ UNCHANGED faults
     \/ SaHalt(r, "kc-b-exchange") /\ Fault
  /\ Redeem(r, SubBadge(r), {"openid", "gitea:write", "gitea:pr"})
  /\ UNCHANGED <<ocVars, trVars, task, badges, minted, sent, branches, pulls>>

-----------------------------------------------------------------------------
(* The resource boundary: Envoy B + OPA, then gitea-gateway                *)

\* The request of one write; its head is the branch the push answered with,
\* or the name made up before any push, which is no feature branch.
WriteRequest(r, action, repo, title) ==
  [action |-> action, repo |-> repo, chain |-> Spawn(r).chain,
   intent |-> Spawn(r).intent, ticket |-> TRUE, title |-> title,
   head |-> IF ssteps[r]["push-file"] = "ok" THEN "agent/feature" ELSE "sub-agent/fix"]

EnvoyAdmits(r, request) ==
  /\ HasToken(r, SubBadge(r))
  /\ WriteAllows(TokenOf(r, SubBadge(r)), SubBadge(r), request)

\* gitea-gateway: scope, Envoy's decision for this action and repository, the
\* delegation context, and for pull requests the deny-list.
GatewayAdmits(r, request) ==
  /\ RequiredScope(request.action) \in TokenOf(r, SubBadge(r)).scope
  /\ request.intent = "create-pr-fix"
  /\ request.chain = <<OpenCode, Triage, SubAgent>>
  /\ request.ticket
  /\ request.action = "open-pr" => request.repo \notin ProtectedRepos

Admitted(r, request) == EnvoyAdmits(r, request) /\ GatewayAdmits(r, request)

\* A refusal is reported at once.  Mutant: it is tried again.
WriteDeniedRetries(r, step, next) ==
  SaRecord(r, step, "denied", step) /\ UNCHANGED faults

WriteDenied(r, step, next) == SaRecord(r, step, "denied", next) /\ UNCHANGED faults

WriteCall(r, action, repo) == [run |-> r, action |-> action, repo |-> repo]

\* The gateway passes an admitted write on to Gitea.
PassOn(r, request) ==
  sent' = sent \cup {WriteCall(r, request.action, request.repo)}

\* s5a: a file pushed to a new, randomly named feature branch ...
PushFile(r) ==
  LET request == WriteRequest(r, "push-file", Spawn(r).repo, "none") IN
  /\ spc[r] = "push-file"
  /\ IF Admitted(r, request)
       THEN /\ PassOn(r, request)
            /\ spc' = [spc EXCEPT ![r] = "pushing"] /\ UNCHANGED <<ssteps, faults>>
       ELSE WriteDenied(r, "push-file", "open-pr") /\ UNCHANGED sent
  /\ UNCHANGED <<ocVars, trVars, task, badges, minted, tokens, branches, pulls>>

\* s5b: ... and the pull request, from whatever head the handler has.
OpenPr(r) ==
  LET request == WriteRequest(r, "open-pr", Spawn(r).repo, "remediate") IN
  /\ spc[r] = "open-pr"
  /\ IF Admitted(r, request)
       THEN /\ PassOn(r, request)
            /\ spc' = [spc EXCEPT ![r] = "opening"] /\ UNCHANGED <<ssteps, faults>>
       ELSE WriteDenied(r, "open-pr", "denied-pr-attempt") /\ UNCHANGED sent
  /\ UNCHANGED <<ocVars, trVars, task, badges, minted, tokens, branches, pulls>>

CarriedOut(call) ==
  [run |-> call.run, repo |-> call.repo] \in
    IF call.action = "push-file" THEN branches ELSE pulls

\* Gitea carries a call out, whoever waits for it: the gateway has given up after
\* 15 seconds, the Sub-Agent after 20, and Gitea knows of neither.  It is not
\* assumed to look for the branch of a pull request.
GiteaWrites(call) ==
  /\ ~CarriedOut(call)
  /\ \/ /\ call.action = "push-file"
        /\ branches' = branches \cup {[run |-> call.run, repo |-> call.repo]}
        /\ UNCHANGED pulls
     \/ /\ call.action = "open-pr"
        /\ pulls' = pulls \cup {[run |-> call.run, repo |-> call.repo]}
        /\ UNCHANGED branches
  /\ UNCHANGED <<ocVars, trVars, saVars, task, badges, minted, tokens, sent, faults>>

\* The call the handler is waiting for.
AwaitedBy(r, call) ==
  \/ spc[r] = "pushing" /\ call = WriteCall(r, "push-file", Spawn(r).repo)
  \/ spc[r] = "opening" /\ call = WriteCall(r, "open-pr", Spawn(r).repo)

\* Gitea's answer arrives through the gateway.
WriteAnswered(r) ==
  /\ \E call \in sent : AwaitedBy(r, call) /\ CarriedOut(call)
  /\ \/ spc[r] = "pushing" /\ SaReport(r, "push-file", "ok", "open-pr")
     \/ spc[r] = "opening" /\ SaReport(r, "open-pr", "ok", "denied-pr-attempt")
  /\ UNCHANGED <<ocVars, trVars, world, faults>>

\* No answer, or one that says the write failed.  Both callers have given the
\* call up and nobody has taken it back: Gitea may have carried it out, or may
\* still do so.
WriteFails(r) ==
  /\ Fault
  /\ \/ /\ spc[r] \in {"push-file", "pushing"}
        /\ SaReport(r, "push-file", "error", "open-pr")
     \/ /\ spc[r] \in {"open-pr", "opening"}
        /\ SaReport(r, "open-pr", "error", "denied-pr-attempt")
     \/ SaRecord(r, "denied-pr-attempt", "error", "dir-push")
  /\ UNCHANGED <<ocVars, trVars, world>>

\* s5c: a pull request nobody may open.  Were it passed on, any answer to it,
\* and none, would be reported as an error.
DeniedPrAttempt(r, repo) ==
  LET request == WriteRequest(r, "open-pr", repo, "attempted") IN
  /\ IF Admitted(r, request)
       THEN /\ SaRecord(r, "denied-pr-attempt", "error", "dir-push")
            /\ PassOn(r, request) /\ UNCHANGED faults
       ELSE WriteDenied(r, "denied-pr-attempt", "dir-push") /\ UNCHANGED sent
  /\ UNCHANGED <<ocVars, trVars, task, badges, minted, tokens, branches, pulls>>

\* s5d, s6, s7: what Envoy decided about the two real writes, the turn record,
\* and whether the pull request was created.
Conclude(r) ==
  /\ spc[r] = "dir-push"
  /\ spc' = [spc EXCEPT ![r] = "replied"]
  /\ \E recorded \in {"ok", "error"} :
       /\ IF recorded = "error" THEN Fault ELSE UNCHANGED faults
       /\ ssteps' = [ssteps EXCEPT
            ![r]["opa-egress"] =
               IF "ok" \in {ssteps[r]["push-file"], ssteps[r]["open-pr"]}
                 THEN "ok" ELSE "error",
            ![r]["dir-push"] = recorded,
            ![r]["pr-created"] = IF ssteps[r]["open-pr"] = "ok" THEN "ok" ELSE "error"]
  /\ UNCHANGED <<ocVars, trVars, world>>

SubAgentCrash ==
  /\ Fault
  /\ \E r \in Runs : SaBusy(r)
  /\ spc' = [r \in Runs |-> IF SaBusy(r) THEN "crashed" ELSE spc[r]]
  /\ UNCHANGED <<ssteps, ocVars, trVars, world>>

SaNext(r) ==
  \/ SaCallFails(r) \/ VerifySubBadge(r) \/ RegisterSubAgent(r) \/ SubAgentBadge(r)
  \/ VerifyTriageBadge(r) \/ RedeemSubBadge(r) \/ PushFile(r) \/ OpenPr(r)
  \/ WriteAnswered(r) \/ WriteFails(r)
  \/ (\E repo \in ProtectedRepos : DeniedPrAttempt(r, repo))
  \/ Conclude(r)
=============================================================================
