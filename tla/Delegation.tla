----------------------------- MODULE Delegation -----------------------------
(***************************************************************************)
(* The cross-domain delegation as a whole: every run's three handlers,     *)
(* interleaved with each other and with the other runs'.  A caller that    *)
(* gives up on a call leaves the callee running, and a write passed on to  *)
(* Gitea on its way.                                                       *)
(***************************************************************************)
EXTENDS OpenCodeAgent, TriageAgent, SubAgentLifecycle

Init ==
  /\ OcInit /\ TrInit /\ SaInit
  /\ task \in [Runs -> {[repo |-> CHOOSE repo \in Repos : TRUE,
                         cve |-> CHOOSE cve \in Findings : TRUE]}]
  /\ badges = {} /\ minted = {} /\ tokens = {}
  /\ sent = {} /\ branches = {} /\ pulls = {}
  /\ faults = 0

Crash == OpenCodeCrash \/ TriageCrash \/ SubAgentCrash

\* Nothing is left to do: every handler that ever started has finished.
Finished ==
  \A r \in Runs : opc[r] \in {"done", "crashed"} /\ ~TrBusy(r) /\ ~SaBusy(r)

Rest == Finished /\ UNCHANGED vars

Next ==
  \/ \E r \in Runs : OcNext(r) \/ TrNext(r) \/ SaNext(r)
  \/ \E call \in sent : GiteaWrites(call)
  \/ Crash
  \/ Rest

Spec == Init /\ [][Next]_vars

\* Every call a handler makes has a client timeout, except those to the Directory,
\* of which this assumes that it answers or fails (RunTiming does without): so a
\* handler that has started keeps moving; no user has to start a run.  A write the
\* Sub-Agent waits for is carried out or given up; one given up may never be.
OcWork(r) == opc[r] # "idle" /\ OcNext(r)

SaWork(r) ==
  SaNext(r) \/ \E call \in sent : AwaitedBy(r, call) /\ GiteaWrites(call)

FairSpec ==
  /\ Spec
  /\ \A r \in Runs :
       WF_vars(OcWork(r)) /\ WF_vars(TrNext(r)) /\ WF_vars(SaWork(r))

-----------------------------------------------------------------------------
OcTypeOK ==
  /\ opc \in [Runs -> OcPositions]
  /\ osteps \in [Runs -> [OcSteps -> Statuses]]
  /\ verdict \in [Runs -> {"none", "ok", "failed"}]

TrTypeOK ==
  /\ tpc \in [Runs -> TrPositions]
  /\ tsteps \in [Runs -> [TrSteps -> Statuses]]

SaTypeOK ==
  /\ spc \in [Runs -> SaPositions]
  /\ ssteps \in [Runs -> [SaSteps -> Statuses]]

WorldTypeOK ==
  /\ task \in [Runs -> [repo : Repos, cve : Findings]]
  /\ badges \subseteq BadgeClaims
  /\ minted \subseteq [run : Runs, claims : AssertionClaims]
  /\ tokens \subseteq
       [grant : [run : Runs, claims : AssertionClaims], access : AccessClaims]
  /\ sent \subseteq
       [run : Runs, action : {"push-file", "open-pr"}, repo : Repos]
  /\ branches \subseteq [run : Runs, repo : Repos]
  /\ pulls \subseteq [run : Runs, repo : Repos]
  /\ faults \in 0..MaxFaults

\* The types of the three handlers and of what they share.
TypeOK == OcTypeOK /\ TrTypeOK /\ SaTypeOK /\ WorldTypeOK

PullsOf(r) == {p \in pulls : p.run = r}
BranchesOf(r) == {b \in branches : b.run = r}

\* A run that answers "ok" did what it was asked: its pull request is open on
\* the repository Sarah named, the deny-listed attempt was refused, and the
\* source had been read.  The verdict is computed two services away from the
\* pull request and accepts "denied" for any step, so nothing in one handler
\* makes this so.
VerdictIsTruthful ==
  \A r \in Runs : verdict[r] = "ok" =>
    /\ PullsOf(r) = {[run |-> r, repo |-> task[r].repo]}
    /\ ssteps[r]["denied-pr-attempt"] = "denied"
    /\ osteps[r]["fetch-source"] = "ok"

\* A run that answers "ok" has left nobody working for it: neither Triage nor
\* the Sub-Agent still acts under Sarah's delegation.
OkVerdictIsFinal ==
  \A r \in Runs : verdict[r] = "ok" => ~TrBusy(r) /\ ~SaBusy(r)

\* Whatever was left in Gitea was approved beforehand at every boundary of both
\* organisations: badge scope, both egress checks, the source read, Triage's and
\* the Sub-Agent's verification of what they were handed and of its sender.
WritesFollowApproval ==
  \A r \in Runs : BranchesOf(r) \cup PullsOf(r) # {} =>
    /\ \A s \in {"badge-scope-check", "read-egress-check", "fetch-source",
                 "egress-check"} : osteps[r][s] = "ok"
    /\ \A s \in {"verify-idjag", "verify-sender-badge", "subbadge-scope-check"} :
         tsteps[r][s] = "ok"
    /\ \A s \in {"verify-subbadge", "verify-sender-badge"} : ssteps[r][s] = "ok"

\* A run that failed before its ticket was sent stays without effect in Org B:
\* no handler of Triage or the Sub-Agent ever works for it and it leaves no
\* branch and no pull request.
HaltedRunsHaveNoEffect ==
  \A r \in Runs : verdict[r] = "failed" /\ osteps[r]["create-ticket"] = "none" =>
    /\ tpc[r] = "idle" /\ spc[r] = "idle"
    /\ BranchesOf(r) \cup PullsOf(r) = {}

\* A run that is refused is refused in time: without a failure no run ends "failed"
\* after Gitea was asked for anything, so no branch waits there for a pull request
\* some policy would not allow.  Except when the scan found an empty source, which
\* is an error that does not end the run.
RefusedRunsLeaveNothing ==
  \A r \in Runs : faults = 0 /\ verdict[r] = "failed" =>
    \/ osteps[r]["scan"] = "error"
    \/ /\ \A call \in sent : call.run # r
       /\ BranchesOf(r) \cup PullsOf(r) = {}

\* Authority narrows hop by hop: every write an access token of Keycloak B can
\* be used for belongs to the Sub-Agent, whose grant descends from a redeemed
\* grant to Triage in the same run, and no token both writes and creates tickets.
AuthorityNarrows ==
  \A t \in tokens : t.access.scope \cap {"gitea:write", "gitea:pr"} # {} =>
    /\ t.access.azp = SubAgent
    /\ t.access.scope \cap {"triage:create", "gitea:read"} = {}
    /\ \E parent \in tokens :
         /\ parent.grant.run = t.grant.run /\ parent.access.azp = Triage
         /\ parent.grant.claims.chain = ButLast(t.grant.claims.chain)

\* Every run that is started is answered unless OpenCode itself dies, and the
\* work it caused in Org B comes to an end even when nobody waits for it.
EveryRunEnds ==
  \A r \in Runs :
    /\ OcBusy(r) ~> opc[r] \in {"done", "crashed"}
    /\ TrBusy(r) ~> ~TrBusy(r)
    /\ SaBusy(r) ~> ~SaBusy(r)

\* Without a failure every run for a repository Org A allows ends with "ok",
\* unless the source was empty or the model named no CVE or CWE: six policies,
\* two Keycloaks and three agents agree on what one remediation may carry.
CleanRunSucceeds ==
  \A r \in Runs :
    opc[r] = "sarah-login" /\ task[r].repo \in BadgeRepos ~>
      \/ verdict[r] = "ok"
      \/ osteps[r]["scan"] = "error"
      \/ task[r].cve \notin WellFormed
      \/ faults > 0

\* What the docstring of _parse_finding says: the model's reply cannot make the
\* demo fail.  Without a failure, a run whose scan was reported as ok is ok.
ScanReplyNeverFailsRun ==
  \A r \in Runs : faults = 0 /\ osteps[r]["scan"] = "ok" => verdict[r] # "failed"
=============================================================================
