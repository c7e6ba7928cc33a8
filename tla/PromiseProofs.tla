---------------------------- MODULE PromiseProofs ----------------------------
(***************************************************************************)
(* What OpenCode's answer is worth, for any number of runs, failures and   *)
(* crashes.  First the "ok": the pull request is there, the deny-listed    *)
(* attempt was refused, and nobody works for the run any more.  The        *)
(* verdict reads a report that two other handlers wrote, so the invariant  *)
(* says what a report without an error means: of the Sub-Agent's, that it  *)
(* opened the pull request; of Triage's, that it has the Sub-Agent's       *)
(* answer.  Then the promise as a whole: every step of the delegation is a *)
(* step of each run's Remediation or leaves it as it is.                   *)
(***************************************************************************)
EXTENDS DelegationProofs, DelegationRefinement

-----------------------------------------------------------------------------
(* The verdict                                                             *)

Clean(report) == \A s \in DOMAIN report : report[s] # "error"

\* What a run asks of Gitea is for the repository it was started for, and the
\* report that its pull request was opened is true.
PullsReported(r) ==
  /\ \A call \in sent : call.run = r => call.repo = task[r].repo
  /\ ssteps[r]["open-pr"] = "ok" => [run |-> r, repo |-> task[r].repo] \in pulls
  /\ spc[r] = "idle" => ssteps[r]["open-pr"] = "none"

\* What the Sub-Agent's report says of the writes once they are behind it.
WritesReported(r) ==
  /\ spc[r] = "dir-push" => ssteps[r]["denied-pr-attempt"] \in {"denied", "error"}
  /\ spc[r] = "replied" /\ Clean(ssteps[r]) =>
       ssteps[r]["open-pr"] = "ok" /\ ssteps[r]["denied-pr-attempt"] = "denied"

AnswerReported(r) ==
  tpc[r] = "replied" /\ Clean(tsteps[r]) =>
    tsteps[r]["spawn-sub-agent"] = "ok" /\ spc[r] = "replied"

VerdictReported(r) ==
  verdict[r] = "ok" =>
    opc[r] = "done" /\ tpc[r] = "replied" /\ spc[r] = "replied" /\ Clean(ssteps[r])

VerdictInv(r) ==
  PullsReported(r) /\ WritesReported(r) /\ AnswerReported(r) /\ VerdictReported(r)

VInv == IInv /\ \A r \in Runs : VerdictInv(r)

\* Nothing has been reported at the start.
LEMMA InitVerdict == Init => VInv
<1> SUFFICES ASSUME Init, NEW r \in Runs PROVE VerdictInv(r)
  BY InitRunInv DEF VInv
<1> QED BY DEF Init, OcInit, TrInit, SaInit, VerdictInv, PullsReported, WritesReported,
               AnswerReported, VerdictReported, SaSteps

-----------------------------------------------------------------------------
(* The steps of other runs                                                 *)

\* What VerdictInv says of r is the same after the step.
Unaffected(r) ==
  /\ Untouched(r)
  /\ task'[r] = task[r]
  /\ \A call : call.run = r => (call \in sent' <=> call \in sent)
  /\ pulls \subseteq pulls'

\* A run keeps its part of the invariant through a step that does not affect it.
LEMMA UnaffectedKeeps ==
  ASSUME NEW r \in Runs, VerdictInv(r), Unaffected(r)
  PROVE  VerdictInv(r)'
<1>1. PullsReported(r)'
  BY DEF VerdictInv, PullsReported, Unaffected, Untouched
<1>2. WritesReported(r)' /\ AnswerReported(r)' /\ VerdictReported(r)'
  BY DEF VerdictInv, WritesReported, AnswerReported, VerdictReported, Unaffected,
         Untouched, Clean
<1> QED BY <1>1, <1>2 DEF VerdictInv

\* A step of one run's handlers does not affect the others.
LEMMA OthersUnaffected ==
  ASSUME TypeOK, NEW r \in Runs, NEW other \in Runs, other # r,
         OcNext(r) \/ TrNext(r) \/ SaNext(r)
  PROVE  Unaffected(other)
<1>1. Untouched(other)
  BY OthersUntouched
<1>2. task'[other] = task[other]
  <2>1. task \in [Runs -> [repo : Repos, cve : Findings]]
    BY DEF TypeOK, WorldTypeOK
  <2>2. CASE OcNext(r)
    BY <2>1, <2>2 DEF OcNext, StartRun, OcCallFails, SignIn, BadgeScopeCheck,
       ResolveBadge, MintRead, ReadEgressCheck, RedeemRead, FetchSource, Scan, Plan,
       UseDirectory, ExchangeAtA, MintIdJag, EgressCheck, RedeemAtB, CreateTicket,
       TicketLost, TicketAnswered, TicketAbandoned, TicketFinishes, world
  <2>3. CASE TrNext(r)
    BY <2>3 DEF TrNext, TrCallFails, VerifyIdJag, VerifyOpenCodeBadge, RegisterTriage,
       SubbadgeScopeCheck, TriageBadge, MintSubBadge, UseDirectoryB, SpawnSubAgent,
       SpawnLost, SpawnAnswered, SpawnAbandoned, SpawnFinishes, world
  <2>4. CASE SaNext(r)
    BY <2>4 DEF SaNext, SaCallFails, VerifySubBadge, RegisterSubAgent, SubAgentBadge,
       VerifyTriageBadge, RedeemSubBadge, WriteAnswered, WriteFails, PushFile, OpenPr,
       DeniedPrAttempt, Conclude, world
  <2> QED BY <2>2, <2>3, <2>4
<1>3. /\ \A call : call.run = other => (call \in sent' <=> call \in sent)
      /\ pulls' = pulls
  <2>1. CASE OcNext(r)
    BY <2>1 DEF OcNext, StartRun, OcCallFails, SignIn, BadgeScopeCheck, ResolveBadge,
       MintRead, ReadEgressCheck, RedeemRead, FetchSource, Scan, Plan, UseDirectory,
       ExchangeAtA, MintIdJag, EgressCheck, RedeemAtB, CreateTicket, TicketLost,
       TicketAnswered, TicketAbandoned, TicketFinishes, world
  <2>2. CASE TrNext(r)
    BY <2>2 DEF TrNext, TrCallFails, VerifyIdJag, VerifyOpenCodeBadge, RegisterTriage,
       SubbadgeScopeCheck, TriageBadge, MintSubBadge, UseDirectoryB, SpawnSubAgent,
       SpawnLost, SpawnAnswered, SpawnAbandoned, SpawnFinishes, world
  <2>3. CASE SaNext(r)
    BY <2>3 DEF SaNext, SaCallFails, VerifySubBadge, RegisterSubAgent, SubAgentBadge,
       VerifyTriageBadge, RedeemSubBadge, WriteAnswered, WriteFails, PushFile, OpenPr,
       DeniedPrAttempt, PassOn, WriteCall, Conclude, world
  <2> QED BY <2>1, <2>2, <2>3
<1> QED BY <1>1, <1>2, <1>3 DEF Unaffected

\* What Gitea carries out adds to what is there and affects no handler.
LEMMA GiteaUnaffected ==
  ASSUME NEW r, NEW call, GiteaWrites(call)
  PROVE  Unaffected(r)
BY DEF GiteaWrites, ocVars, trVars, saVars, Unaffected, Untouched, Effect

-----------------------------------------------------------------------------
(* OpenCode's steps                                                        *)

\* While OpenCode works there is no verdict yet, and until it waits for Triage it
\* leaves what Triage and the Sub-Agent reported alone.
LEMMA OcVerdictKeeps ==
  ASSUME TypeOK, NEW r \in Runs, RunInv(r), VerdictInv(r), OcNext(r)
  PROVE  VerdictInv(r)'
<1>0. OcTypeOK /\ TrTypeOK /\ SaTypeOK /\ WorldTypeOK
  BY DEF TypeOK
<1>1. UNCHANGED <<saVars, sent, pulls>>
  BY DEF OcNext, StartRun, OcCallFails, SignIn, BadgeScopeCheck, ResolveBadge, MintRead,
     ReadEgressCheck, RedeemRead, FetchSource, Scan, Plan, UseDirectory, ExchangeAtA,
     MintIdJag, EgressCheck, RedeemAtB, CreateTicket, TicketLost, TicketAnswered,
     TicketAbandoned, TicketFinishes, world
<1>2. spc' = spc /\ ssteps' = ssteps /\ sent' = sent /\ pulls' = pulls
  BY <1>1 DEF saVars
<1>3. opc[r] # "done" /\ verdict[r] # "ok"
  <2>1. opc[r] # "done"
    BY DEF OcNext, StartRun, OcCallFails, SignIn, BadgeScopeCheck, ResolveBadge, MintRead,
     ReadEgressCheck, RedeemRead, FetchSource, Scan, Plan, UseDirectory, ExchangeAtA,
     MintIdJag, EgressCheck, RedeemAtB, CreateTicket, TicketLost, TicketAnswered,
     TicketAbandoned, TicketFinishes, OcAnswered, OcTolerated, OcOk, OcRefused, OcHalt,
     OcRecord, OcFatal, OcSteps
  <2> QED BY <2>1 DEF VerdictInv, VerdictReported
<1>4. PullsReported(r)'
  <2>1. CASE \E repo \in Repos, cve \in Findings : StartRun(r, repo, cve)
    <3>1. spc[r] = "idle" /\ ~Effect(r)
      BY <2>1 DEF StartRun, RunInv, CallOrder, SaUpToSender, SaUpToSubBadge
    <3> QED BY <1>2, <3>1 DEF VerdictInv, PullsReported, Effect
  <2>2. CASE task'[r].repo = task[r].repo
    BY <1>2, <2>2 DEF VerdictInv, PullsReported
  <2>3. (\E repo \in Repos, cve \in Findings : StartRun(r, repo, cve))
        \/ task'[r].repo = task[r].repo
    <3>1. CASE Scan(r)
      BY <1>0, <3>1 DEF Scan, WorldTypeOK
    <3>2. CASE ~Scan(r) /\ ~(\E repo \in Repos, cve \in Findings : StartRun(r, repo, cve))
      <4>1. UNCHANGED task
        BY <3>2 DEF OcNext, OcCallFails, SignIn, BadgeScopeCheck, ResolveBadge, MintRead,
           ReadEgressCheck, RedeemRead, FetchSource, Plan, UseDirectory, ExchangeAtA,
           MintIdJag, EgressCheck, RedeemAtB, CreateTicket, TicketLost, TicketAnswered,
           TicketAbandoned, TicketFinishes, world
      <4> QED BY <4>1
    <3> QED BY <3>1, <3>2
  <2> QED BY <2>1, <2>2, <2>3
<1>5. WritesReported(r)'
  BY <1>2 DEF VerdictInv, WritesReported, Clean
<1>6. AnswerReported(r)'
  <2>1. CASE UNCHANGED trVars
    BY <1>2, <2>1 DEF VerdictInv, AnswerReported, Clean, trVars
  <2>2. CreateTicket(r) \/ UNCHANGED trVars
    BY DEF OcNext, StartRun, OcCallFails, SignIn, BadgeScopeCheck, ResolveBadge, MintRead,
     ReadEgressCheck, RedeemRead, FetchSource, Scan, Plan, UseDirectory, ExchangeAtA,
     MintIdJag, EgressCheck, RedeemAtB, TicketLost, TicketAnswered,
     TicketAbandoned, TicketFinishes
  <2>3. CASE CreateTicket(r) /\ ~ UNCHANGED trVars
    <3>1. tpc'[r] = "verify-idjag"
      BY <1>0, <2>3 DEF CreateTicket, trVars, TrTypeOK
    <3> QED BY <3>1 DEF AnswerReported
  <2> QED BY <2>1, <2>2, <2>3
<1>7. VerdictReported(r)'
  <2>1. CASE TicketAnswered(r)
    <3>1. /\ tpc[r] = "replied" /\ opc'[r] = "done" /\ UNCHANGED <<tpc, tsteps>>
          /\ verdict'[r] = "ok" => TriageOk(r) /\ NestedOk(r)
      BY <1>0, <2>1 DEF TicketAnswered, TicketFinishes, OcTypeOK, trVars
    <3>2. ASSUME verdict'[r] = "ok" PROVE spc[r] = "replied" /\ Clean(ssteps[r])
      <4>1. Clean(tsteps[r])
        BY <3>1, <3>2 DEF TriageOk, Clean
      <4>2. tsteps[r]["spawn-sub-agent"] = "ok" /\ spc[r] = "replied"
        BY <3>1, <4>1 DEF VerdictInv, AnswerReported
      <4> QED BY <3>1, <3>2, <4>2 DEF NestedOk, OkStatus, Clean
    <3> QED BY <1>2, <3>1, <3>2 DEF VerdictReported
  <2>2. CASE TicketAbandoned(r)
    BY <1>0, <2>2 DEF TicketAbandoned, TicketFinishes, OcTypeOK, VerdictReported
  <2>3. CASE ~TicketAnswered(r) /\ ~TicketAbandoned(r)
    <3>1. verdict'[r] \in {verdict[r], "failed"}
      BY <1>0, <2>3 DEF OcNext, StartRun, OcCallFails, SignIn, BadgeScopeCheck,
         ResolveBadge, MintRead, ReadEgressCheck, RedeemRead, FetchSource, Scan, Plan,
         UseDirectory, ExchangeAtA, MintIdJag, EgressCheck, RedeemAtB, CreateTicket,
         TicketLost, OcAnswered, OcTolerated, OcOk, OcRefused, OcHalt, OcTypeOK
    <3> QED BY <1>3, <3>1 DEF VerdictReported
  <2> QED BY <2>1, <2>2, <2>3
<1> QED BY <1>4, <1>5, <1>6, <1>7 DEF VerdictInv

-----------------------------------------------------------------------------
(* Triage's steps                                                          *)

\* While Triage works there is no verdict "ok"; its report is without an error at
\* the end only if the Sub-Agent has answered.
LEMMA TrVerdictKeeps ==
  ASSUME TypeOK, NEW r \in Runs, RunInv(r), VerdictInv(r), TrNext(r)
  PROVE  VerdictInv(r)'
<1>0. TrTypeOK /\ SaTypeOK
  BY DEF TypeOK
<1>1. UNCHANGED <<ocVars, sent, pulls, task>>
  BY DEF TrNext, TrCallFails, VerifyIdJag, VerifyOpenCodeBadge, RegisterTriage,
     SubbadgeScopeCheck, TriageBadge, MintSubBadge, UseDirectoryB, SpawnSubAgent,
     SpawnLost, SpawnAnswered, SpawnAbandoned, SpawnFinishes, world
<1>2. tpc[r] # "replied"
  BY DEF TrNext, TrCallFails, VerifyIdJag, VerifyOpenCodeBadge, RegisterTriage,
     SubbadgeScopeCheck, TriageBadge, MintSubBadge, UseDirectoryB, SpawnSubAgent,
     SpawnLost, SpawnAnswered, SpawnAbandoned, SpawnFinishes, TrAnswered, TrOk,
     TrRefused, TrHalt, TrRecord, TrFatal
<1>3. VerdictReported(r)'
  BY <1>1, <1>2 DEF VerdictInv, VerdictReported, ocVars
<1>4. UNCHANGED ssteps /\ (spc'[r] = spc[r] \/ (spc[r] = "idle" /\ spc'[r] = "verify-subbadge"))
  <2>1. CASE SpawnSubAgent(r)
    <3>1. spc[r] = "idle"
      BY <2>1 DEF SpawnSubAgent, RunInv, CallOrder
    <3> QED BY <1>0, <2>1, <3>1 DEF SpawnSubAgent, SaTypeOK
  <2>2. CASE ~SpawnSubAgent(r)
    BY <2>2 DEF TrNext, TrCallFails, VerifyIdJag, VerifyOpenCodeBadge, RegisterTriage,
       SubbadgeScopeCheck, TriageBadge, MintSubBadge, UseDirectoryB, SpawnLost,
       SpawnAnswered, SpawnAbandoned, SpawnFinishes, saVars
  <2> QED BY <2>1, <2>2
<1>5. PullsReported(r)' /\ WritesReported(r)'
  BY <1>1, <1>4 DEF VerdictInv, PullsReported, WritesReported, Clean
<1>6. AnswerReported(r)'
  <2> SUFFICES ASSUME tpc'[r] = "replied", Clean(tsteps'[r])
               PROVE  tsteps'[r]["spawn-sub-agent"] = "ok" /\ spc'[r] = "replied"
    BY DEF AnswerReported, Clean
  <2>1. ASSUME NEW step \in TrSteps, TrHalt(r, step)
        PROVE  FALSE
    BY <1>0, <2>1 DEF TrHalt, TrRecord, TrTypeOK, Clean
  <2>2. \A step \in TrFatal : ~TrHalt(r, step)
    BY <2>1 DEF TrFatal, TrSteps
  <2>3. CASE SpawnAnswered(r)
    BY <1>0, <1>4, <2>3 DEF SpawnAnswered, SpawnFinishes, TrTypeOK, TrSteps, saVars
  <2>4. CASE SpawnAbandoned(r) \/ SpawnLost(r)
    BY <1>0, <2>4 DEF SpawnAbandoned, SpawnFinishes, SpawnLost, TrRecord, TrTypeOK,
       TrSteps, Clean
  <2>5. CASE ~SpawnAnswered(r) /\ ~SpawnAbandoned(r) /\ ~SpawnLost(r)
    <3>1. tpc'[r] # "replied"
      BY <1>0, <2>2, <2>5 DEF TrNext, TrCallFails, VerifyIdJag, VerifyOpenCodeBadge,
         RegisterTriage, SubbadgeScopeCheck, TriageBadge, MintSubBadge, UseDirectoryB,
         SpawnSubAgent, TrAnswered, TrOk, TrRefused, TrRecord, TrTypeOK, TrFatal
    <3> QED BY <3>1
  <2> QED BY <2>3, <2>4, <2>5
<1> QED BY <1>3, <1>5, <1>6 DEF VerdictInv

-----------------------------------------------------------------------------
(* The Sub-Agent's steps                                                   *)

\* Before its first write the Sub-Agent records a step or ends with an error.
LEMMA SaEarlyKeeps ==
  ASSUME TypeOK, NEW r \in Runs, VerdictInv(r),
         \/ SaCallFails(r) \/ VerifySubBadge(r) \/ RegisterSubAgent(r)
         \/ SubAgentBadge(r) \/ VerifyTriageBadge(r) \/ RedeemSubBadge(r)
  PROVE  PullsReported(r)' /\ WritesReported(r)'
<1>0. SaTypeOK
  BY DEF TypeOK
<1>1. UNCHANGED <<sent, pulls, task>>
  BY DEF SaCallFails, VerifySubBadge, RegisterSubAgent, SubAgentBadge, VerifyTriageBadge,
     RedeemSubBadge, world
<1>2. ssteps'[r]["open-pr"] = ssteps[r]["open-pr"]
  BY <1>0 DEF SaCallFails, VerifySubBadge, RegisterSubAgent, SubAgentBadge,
     VerifyTriageBadge, RedeemSubBadge, SaOk, SaRefused, SaHalt, SaRecord, SaReport,
     SaTypeOK, SaFatal, SaSteps
<1>3. spc[r] \in SaFatal /\ (spc'[r] = "replied" => ~Clean(ssteps'[r]))
      /\ spc'[r] \notin {"idle", "dir-push"}
  BY <1>0 DEF SaCallFails, VerifySubBadge, RegisterSubAgent, SubAgentBadge,
     VerifyTriageBadge, RedeemSubBadge, SaOk, SaRefused, SaHalt, SaRecord, SaReport,
     SaTypeOK, SaFatal, SaSteps, Clean
<1> QED BY <1>1, <1>2, <1>3 DEF VerdictInv, PullsReported, WritesReported, Clean

\* No attempt under another title than the remediation's passes Envoy B.
LEMMA AttemptIsDenied ==
  ASSUME NEW r \in Runs, NEW repo
  PROVE  ~Admitted(r, WriteRequest(r, "open-pr", repo, "attempted"))
BY DEF Admitted, EnvoyAdmits, WriteAllows, ValidActionBody, WriteRequest

\* From the push on: what the Sub-Agent reports of its writes is what Gitea did.
LEMMA SaLateKeeps ==
  ASSUME TypeOK, NEW r \in Runs, VerdictInv(r),
         \/ WriteAnswered(r) \/ WriteFails(r) \/ PushFile(r) \/ OpenPr(r)
         \/ \E repo \in ProtectedRepos : DeniedPrAttempt(r, repo)
         \/ Conclude(r)
  PROVE  PullsReported(r)' /\ WritesReported(r)'
<1>0. /\ SaTypeOK /\ UNCHANGED <<task, pulls>>
      /\ ssteps[r] \in [SaSteps -> Statuses] /\ spc[r] # "idle"
  BY DEF TypeOK, SaTypeOK, WriteAnswered, WriteFails, PushFile, OpenPr, DeniedPrAttempt,
     Conclude, world, WriteDenied, SaRecord
<1>1. CASE WriteFails(r)
  <2>1. UNCHANGED sent /\ (ssteps'[r]["open-pr"] = "ok" => ssteps[r]["open-pr"] = "ok")
    BY <1>0, <1>1 DEF WriteFails, SaRecord, SaReport, SaTypeOK, SaSteps, world
  <2>2. /\ spc'[r] \notin {"idle", "replied"}
        /\ spc'[r] = "dir-push" => ssteps'[r]["denied-pr-attempt"] = "error"
    BY <1>0, <1>1 DEF WriteFails, SaRecord, SaReport, SaTypeOK, SaSteps
  <2> QED BY <1>0, <2>1, <2>2 DEF VerdictInv, PullsReported, WritesReported
<1>2. CASE PushFile(r)
  <2>1. /\ ssteps'[r]["open-pr"] = ssteps[r]["open-pr"] /\ spc'[r] \in {"pushing", "open-pr"}
    BY <1>0, <1>2 DEF PushFile, WriteDenied, SaRecord, SaReport, SaTypeOK, SaSteps
  <2>2. \A call \in sent' \ sent : call.repo = task[r].repo
    BY <1>2 DEF PushFile, PassOn, WriteCall, WriteRequest, Spawn, Ticket
  <2> QED BY <1>0, <2>1, <2>2 DEF VerdictInv, PullsReported, WritesReported
<1>3. CASE OpenPr(r)
  <2>1. /\ ssteps'[r]["open-pr"] = "ok" => ssteps[r]["open-pr"] = "ok"
        /\ spc'[r] \in {"opening", "denied-pr-attempt"}
    BY <1>0, <1>3 DEF OpenPr, WriteDenied, SaRecord, SaReport, SaTypeOK, SaSteps
  <2>2. \A call \in sent' \ sent : call.repo = task[r].repo
    BY <1>3 DEF OpenPr, PassOn, WriteCall, WriteRequest, Spawn, Ticket
  <2> QED BY <1>0, <2>1, <2>2 DEF VerdictInv, PullsReported, WritesReported
<1>4. CASE WriteAnswered(r)
  <2>1. UNCHANGED sent /\ spc'[r] \in {"open-pr", "denied-pr-attempt"}
    BY <1>0, <1>4 DEF WriteAnswered, SaReport, SaTypeOK, world
  <2>2. CASE spc[r] = "pushing"
    <3>1. ssteps'[r]["open-pr"] = ssteps[r]["open-pr"]
      BY <1>0, <1>4, <2>2 DEF WriteAnswered, SaReport, SaTypeOK, SaSteps
    <3> QED BY <1>0, <2>1, <3>1 DEF VerdictInv, PullsReported, WritesReported
  <2>3. CASE spc[r] = "opening"
    <3>1. [run |-> r, repo |-> task[r].repo] \in pulls
      BY <1>4, <2>3 DEF WriteAnswered, AwaitedBy, CarriedOut, WriteCall, Spawn, Ticket
    <3> QED BY <1>0, <2>1, <3>1 DEF VerdictInv, PullsReported, WritesReported
  <2> QED BY <1>4, <2>2, <2>3 DEF WriteAnswered
<1>5. CASE \E repo \in ProtectedRepos : DeniedPrAttempt(r, repo)
  <2>1. /\ UNCHANGED sent /\ spc'[r] = "dir-push"
        /\ ssteps'[r] = [ssteps[r] EXCEPT !["denied-pr-attempt"] = "denied"]
    BY <1>0, <1>5, AttemptIsDenied
       DEF DeniedPrAttempt, WriteDenied, SaRecord, SaReport, SaTypeOK
  <2> QED BY <1>0, <2>1 DEF VerdictInv, PullsReported, WritesReported, SaSteps
<1>6. CASE Conclude(r)
  <2>1. /\ UNCHANGED sent /\ spc[r] = "dir-push" /\ spc'[r] = "replied"
        /\ \A s \in {"open-pr", "denied-pr-attempt"} : ssteps'[r][s] = ssteps[r][s]
        /\ ssteps'[r]["pr-created"] = IF ssteps[r]["open-pr"] = "ok" THEN "ok" ELSE "error"
        /\ DOMAIN ssteps'[r] = SaSteps
    BY <1>0, <1>6 DEF Conclude, SaTypeOK, SaSteps, world
  <2>2. PullsReported(r)'
    BY <1>0, <2>1 DEF VerdictInv, PullsReported
  <2>3. Clean(ssteps'[r]) =>
          ssteps'[r]["open-pr"] = "ok" /\ ssteps'[r]["denied-pr-attempt"] = "denied"
    BY <2>1 DEF VerdictInv, WritesReported, Clean, SaSteps
  <2> QED BY <2>1, <2>2, <2>3 DEF WritesReported, Clean
<1> QED BY <1>1, <1>2, <1>3, <1>4, <1>5, <1>6

\* Every step of the Sub-Agent.
LEMMA SaVerdictKeeps ==
  ASSUME TypeOK, NEW r \in Runs, VerdictInv(r), SaNext(r)
  PROVE  VerdictInv(r)'
<1>1. UNCHANGED <<ocVars, trVars>>
  BY DEF SaNext, SaCallFails, VerifySubBadge, RegisterSubAgent, SubAgentBadge,
     VerifyTriageBadge, RedeemSubBadge, WriteAnswered, WriteFails, PushFile, OpenPr,
     DeniedPrAttempt, Conclude
<1>2. spc[r] # "replied"
  BY DEF SaNext, SaCallFails, VerifySubBadge, RegisterSubAgent, SubAgentBadge,
     VerifyTriageBadge, RedeemSubBadge, WriteAnswered, WriteFails, PushFile, OpenPr,
     DeniedPrAttempt, Conclude, WriteDenied, SaOk, SaRefused, SaHalt, SaRecord, SaFatal
<1>3. AnswerReported(r)' /\ VerdictReported(r)'
  BY <1>1, <1>2 DEF VerdictInv, AnswerReported, VerdictReported, Clean, ocVars, trVars
<1>4. PullsReported(r)' /\ WritesReported(r)'
  BY SaEarlyKeeps, SaLateKeeps DEF SaNext
<1> QED BY <1>3, <1>4 DEF VerdictInv

-----------------------------------------------------------------------------
\* A crash ends handlers that work, and those have answered nothing.
LEMMA CrashVerdictKeeps ==
  ASSUME TypeOK, NEW r \in Runs, VerdictInv(r), Crash
  PROVE  VerdictInv(r)'
<1>1. UNCHANGED <<osteps, tsteps, ssteps, verdict, sent, pulls, task>>
  BY DEF Crash, OpenCodeCrash, TriageCrash, SubAgentCrash, world, ocVars, trVars, saVars
<1>2. /\ (opc'[r] = "crashed" /\ opc[r] # "done") \/ opc'[r] = opc[r]
      /\ (tpc'[r] = "crashed" /\ tpc[r] # "replied") \/ tpc'[r] = tpc[r]
      /\ (spc'[r] = "crashed" /\ spc[r] \notin {"idle", "replied"}) \/ spc'[r] = spc[r]
  BY DEF Crash, OpenCodeCrash, TriageCrash, SubAgentCrash, ocVars, trVars, saVars, OcBusy,
     OcSteps, TrBusy, SaBusy
<1>3. PullsReported(r)' /\ WritesReported(r)'
  BY <1>1, <1>2 DEF VerdictInv, PullsReported, WritesReported, Clean
<1>4. AnswerReported(r)' /\ VerdictReported(r)'
  BY <1>1, <1>2 DEF VerdictInv, AnswerReported, VerdictReported, Clean
<1> QED BY <1>3, <1>4 DEF VerdictInv

\* The invariant is inductive.
LEMMA StepVerdict == VInv /\ [Next]_vars => VInv'
<1> SUFFICES ASSUME VInv, [Next]_vars PROVE VInv'
  OBVIOUS
<1>1. IInv /\ TypeOK /\ \A r \in Runs : RunInv(r) /\ VerdictInv(r)
  BY DEF VInv, IInv
<1>2. IInv'
  BY <1>1, StepIInv
<1>3. ASSUME NEW r \in Runs PROVE VerdictInv(r)'
  <2>1. ASSUME NEW actor \in Runs, OcNext(actor) \/ TrNext(actor) \/ SaNext(actor)
        PROVE  VerdictInv(r)'
    <3>1. CASE actor = r
      BY <1>1, <2>1, <3>1, OcVerdictKeeps, TrVerdictKeeps, SaVerdictKeeps
    <3>2. CASE actor # r
      <4>1. Unaffected(r)
        BY <1>1, <2>1, <3>2, OthersUnaffected
      <4> QED BY <1>1, <4>1, UnaffectedKeeps
    <3> QED BY <3>1, <3>2
  <2>2. CASE Crash
    BY <1>1, <2>2, CrashVerdictKeeps
  <2>4. CASE \E call \in sent : GiteaWrites(call)
    BY <1>1, <2>4, GiteaUnaffected, UnaffectedKeeps
  <2>3. CASE Rest \/ UNCHANGED vars
    <3>1. Unaffected(r)
      BY <2>3 DEF Rest, vars, ocVars, trVars, saVars, world, Unaffected, Untouched, Effect
    <3> QED BY <1>1, <3>1, UnaffectedKeeps
  <2> QED BY <2>1, <2>2, <2>3, <2>4 DEF Next
<1> QED BY <1>2, <1>3 DEF VInv

\* The inductive invariant: what a report without an error means.
THEOREM ReportInvariant == Spec => []VInv
<1>1. Init => VInv
  BY InitVerdict
<1>2. VInv /\ [Next]_vars => VInv'
  BY StepVerdict
<1> QED BY <1>1, <1>2, PTL DEF Spec

\* An ok was computed from the reports of two handlers that had answered.
LEMMA OkMeansReplied ==
  ASSUME VInv, NEW r \in Runs, verdict[r] = "ok"
  PROVE  /\ tpc[r] = "replied" /\ spc[r] = "replied"
         /\ ssteps[r]["open-pr"] = "ok" /\ ssteps[r]["denied-pr-attempt"] = "denied"
BY DEF VInv, VerdictInv, VerdictReported, WritesReported

\* An "ok" is true: the pull request on the repository Sarah named is the one
\* effect of the run, the deny-listed attempt was refused and the source was read,
\* for any number of concurrent runs, failures, lost answers and crashes.
THEOREM OkIsTrue == Spec => []VerdictIsTruthful
<1>1. VInv => VerdictIsTruthful
  <2> SUFFICES ASSUME VInv, NEW r \in Runs, verdict[r] = "ok"
               PROVE  /\ PullsOf(r) = {[run |-> r, repo |-> task[r].repo]}
                      /\ ssteps[r]["denied-pr-attempt"] = "denied"
                      /\ osteps[r]["fetch-source"] = "ok"
    BY DEF VerdictIsTruthful
  <2>1. pulls \subseteq [run : Runs, repo : Repos]
    BY DEF VInv, IInv, TypeOK, WorldTypeOK
  <2>2. PullsOf(r) = {[run |-> r, repo |-> task[r].repo]}
    <3>1. [run |-> r, repo |-> task[r].repo] \in pulls
      BY OkMeansReplied DEF VInv, VerdictInv, PullsReported
    <3>2. ASSUME NEW p \in pulls, p.run = r
          PROVE  p = [run |-> r, repo |-> task[r].repo]
      <4>1. p.repo = task[r].repo
        BY <3>2 DEF VInv, VerdictInv, PullsReported, IInv, WritesWereSent, WriteCall
      <4> QED BY <2>1, <3>2, <4>1
    <3> QED BY <3>1, <3>2 DEF PullsOf
  <2>3. osteps[r]["fetch-source"] = "ok"
    BY OkMeansReplied DEF VInv, IInv, RunInv, OcApprovals
  <2> QED BY <2>2, <2>3, OkMeansReplied
<1> QED BY <1>1, ReportInvariant, PTL

\* When a run answers "ok" nobody works for it any more.
THEOREM OkIsFinal == Spec => []OkVerdictIsFinal
<1>1. VInv => OkVerdictIsFinal
  BY OkMeansReplied DEF OkVerdictIsFinal, TrBusy, SaBusy
<1> QED BY <1>1, ReportInvariant, PTL

-----------------------------------------------------------------------------
(* The Sub-Agent's authority                                               *)

\* Keycloak B has redeemed the sub-badge, and the Sub-Agent has heard of it.
Authorised(r) == ssteps[r]["kc-b-exchange"] = "ok"

Early == {"idle"} \cup SaFatal

\* Where the Sub-Agent stands, its token, what it has asked of Gitea and what is
\* there agree.
PromiseInv(r) ==
  /\ spc[r] \in Early => ~Authorised(r)
  /\ spc[r] \in SaWriting => Authorised(r)
  /\ spc[r] \in Early \cup {"push-file"} =>
       ssteps[r]["push-file"] # "ok" /\ RequestsOf(r) = {}
  /\ spc[r] \in {"pushing", "open-pr"} => "open-pr" \notin RequestsOf(r)
  /\ ssteps[r]["push-file"] = "ok" => [run |-> r, repo |-> task[r].repo] \in branches

PInv == VInv /\ \A r \in Runs : PromiseInv(r)

\* At the start nobody has authority and nothing is asked of Gitea.
LEMMA InitPromise == Init => PInv
<1> SUFFICES ASSUME Init, NEW r \in Runs PROVE PromiseInv(r)
  BY InitVerdict DEF PInv
<1>1. RequestsOf(r) = {}
  BY DEF Init, RequestsOf
<1>2. spc[r] = "idle" /\ ssteps[r]["kc-b-exchange"] = "none"
      /\ ssteps[r]["push-file"] = "none"
  BY DEF Init, SaInit, SaSteps
<1> QED BY <1>1, <1>2 DEF PromiseInv, Authorised, SaWriting

-----------------------------------------------------------------------------
(* What a step does to its own run                                         *)

\* OpenCode leaves the Sub-Agent and Gitea alone, and the target too once the
\* Sub-Agent works.
LEMMA OcLeaves ==
  ASSUME PInv, NEW r \in Runs, OcNext(r)
  PROVE  /\ spc' = spc /\ ssteps' = ssteps /\ sent' = sent
         /\ branches' = branches /\ pulls' = pulls
         /\ opc[r] = "idle" \/ task'[r].repo = task[r].repo
<1>1. UNCHANGED <<saVars, sent, branches, pulls>>
  BY DEF OcNext, StartRun, OcCallFails, SignIn, BadgeScopeCheck, ResolveBadge, MintRead,
     ReadEgressCheck, RedeemRead, FetchSource, Scan, Plan, UseDirectory, ExchangeAtA,
     MintIdJag, EgressCheck, RedeemAtB, CreateTicket, TicketLost, TicketAnswered,
     TicketAbandoned, TicketFinishes, world
<1>2. opc[r] = "idle" \/ task'[r].repo = task[r].repo
  <2>1. CASE \E repo \in Repos, cve \in Findings : StartRun(r, repo, cve)
    BY <2>1 DEF StartRun
  <2>2. CASE Scan(r)
    BY <2>2 DEF Scan, PInv, VInv, IInv, TypeOK, WorldTypeOK
  <2>3. CASE ~Scan(r) /\ ~(\E repo \in Repos, cve \in Findings : StartRun(r, repo, cve))
    <3>1. UNCHANGED task
      BY <2>3 DEF OcNext, OcCallFails, SignIn, BadgeScopeCheck, ResolveBadge, MintRead,
         ReadEgressCheck, RedeemRead, FetchSource, Plan, UseDirectory, ExchangeAtA,
         MintIdJag, EgressCheck, RedeemAtB, CreateTicket, TicketLost, TicketAnswered,
         TicketAbandoned, TicketFinishes, world
    <3> QED BY <3>1
  <2> QED BY <2>1, <2>2, <2>3
<1> QED BY <1>1, <1>2 DEF saVars

\* Triage may start the Sub-Agent and leaves everything else of it alone.
LEMMA TrLeaves ==
  ASSUME PInv, NEW r \in Runs, TrNext(r)
  PROVE  /\ opc' = opc /\ verdict' = verdict /\ task' = task
         /\ ssteps' = ssteps /\ sent' = sent
         /\ branches' = branches /\ pulls' = pulls
         /\ \/ spc'[r] = spc[r]
            \/ /\ spc[r] = "idle" /\ spc'[r] = "verify-subbadge"
               /\ tpc'[r] = "await-sub-agent"
         /\ TrBusy(r) /\ tpc'[r] # "idle"
<1>0. TrTypeOK /\ SaTypeOK /\ RunInv(r)
  BY DEF PInv, VInv, IInv, TypeOK
<1>1. UNCHANGED <<ocVars, sent, branches, pulls, task>>
  BY DEF TrNext, TrCallFails, VerifyIdJag, VerifyOpenCodeBadge, RegisterTriage,
     SubbadgeScopeCheck, TriageBadge, MintSubBadge, UseDirectoryB, SpawnSubAgent,
     SpawnLost, SpawnAnswered, SpawnAbandoned, SpawnFinishes, world
<1>2. TrBusy(r) /\ tpc'[r] # "idle"
  BY <1>0 DEF TrNext, TrCallFails, VerifyIdJag, VerifyOpenCodeBadge, RegisterTriage,
     SubbadgeScopeCheck, TriageBadge, MintSubBadge, UseDirectoryB, SpawnSubAgent,
     SpawnLost, SpawnAnswered, SpawnAbandoned, SpawnFinishes, TrAnswered, TrOk,
     TrRefused, TrHalt, TrRecord, TrFatal, TrBusy, TrSteps, TrTypeOK
<1>3. CASE SpawnSubAgent(r)
  <2>1. spc[r] = "idle"
    BY <1>0, <1>3 DEF SpawnSubAgent, RunInv, CallOrder
  <2>2. spc'[r] = "verify-subbadge" /\ tpc'[r] = "await-sub-agent" /\ ssteps' = ssteps
    BY <1>0, <1>3 DEF SpawnSubAgent, SaTypeOK, TrTypeOK
  <2> QED BY <1>1, <1>2, <2>1, <2>2 DEF ocVars
<1>4. CASE ~SpawnSubAgent(r)
  <2>1. UNCHANGED saVars
    BY <1>4 DEF TrNext, TrCallFails, VerifyIdJag, VerifyOpenCodeBadge, RegisterTriage,
       SubbadgeScopeCheck, TriageBadge, MintSubBadge, UseDirectoryB, SpawnLost,
       SpawnAnswered, SpawnAbandoned, SpawnFinishes, saVars
  <2> QED BY <1>1, <1>2, <2>1 DEF ocVars, saVars
<1> QED BY <1>3, <1>4

\* The Sub-Agent's steps are of five kinds.
SaQuiet(r) ==
  /\ sent' = sent
  /\ Authorised(r)' <=> Authorised(r)
  /\ ssteps'[r]["push-file"] = "ok" => ssteps[r]["push-file"] = "ok"
  /\ spc'[r] \in SaFatal => spc[r] \in SaFatal
  /\ spc'[r] \in SaWriting => spc[r] \in SaWriting
  /\ spc'[r] \notin {"push-file", "pushing"}
  /\ spc'[r] = "open-pr" => spc[r] \in {"push-file", "pushing"}

SaRedeems(r) ==
  /\ sent' = sent
  /\ spc[r] = "kc-b-exchange" /\ spc'[r] = "push-file"
  /\ Authorised(r)' /\ ssteps'[r]["push-file"] = ssteps[r]["push-file"]

SaAsksToPush(r) ==
  /\ sent' = sent \cup {WriteCall(r, "push-file", task[r].repo)}
  /\ spc[r] = "push-file" /\ spc'[r] = "pushing" /\ ssteps' = ssteps

SaHasPushed(r) ==
  /\ sent' = sent
  /\ [run |-> r, repo |-> task[r].repo] \in branches
  /\ spc[r] = "pushing" /\ spc'[r] = "open-pr"
  /\ Authorised(r)' <=> Authorised(r)

SaAsksToOpen(r) ==
  /\ sent' = sent \cup {WriteCall(r, "open-pr", task[r].repo)}
  /\ spc[r] = "open-pr" /\ spc'[r] = "opening" /\ ssteps' = ssteps
  /\ ssteps[r]["push-file"] = "ok"

SaMoves(r) ==
  SaQuiet(r) \/ SaRedeems(r) \/ SaAsksToPush(r) \/ SaHasPushed(r) \/ SaAsksToOpen(r)

\* A report of one step, other than the redemption and a push that was answered,
\* changes nothing outside.
LEMMA SaReportMoves ==
  ASSUME SaTypeOK, NEW r \in Runs, NEW step \in SaSteps, NEW status, NEW next,
         SaReport(r, step, status, next), sent' = sent,
         step = "kc-b-exchange" => status # "ok" /\ ~Authorised(r),
         step = "push-file" => status # "ok",
         next \notin {"push-file", "pushing"},
         next = "open-pr" => spc[r] \in {"push-file", "pushing"},
         next \in SaFatal => spc[r] \in SaFatal,
         next \in SaWriting => spc[r] \in SaWriting
  PROVE  SaQuiet(r)
<1>1. /\ spc'[r] = next
      /\ ssteps'[r] = [ssteps[r] EXCEPT ![step] = status]
      /\ ssteps[r] \in [SaSteps -> Statuses]
  BY DEF SaReport, SaTypeOK
<1>2. Authorised(r)' <=> Authorised(r)
  BY <1>1 DEF Authorised, SaSteps
<1>3. ssteps'[r]["push-file"] = "ok" => ssteps[r]["push-file"] = "ok"
  BY <1>1 DEF SaSteps
<1> QED BY <1>1, <1>2, <1>3 DEF SaQuiet

\* What every step of the Sub-Agent has in common.
LEMMA SaStepKinds ==
  ASSUME PInv, NEW r \in Runs, SaNext(r)
  PROVE  /\ opc' = opc /\ verdict' = verdict /\ task' = task /\ tpc' = tpc
         /\ branches' = branches /\ pulls' = pulls
         /\ SaBusy(r) /\ spc'[r] # "idle" /\ SaMoves(r)
<1>0. SaTypeOK /\ PromiseInv(r)
  BY DEF PInv, VInv, IInv, TypeOK
<1>1. UNCHANGED <<ocVars, trVars, task, branches, pulls>>
  BY DEF SaNext, SaCallFails, VerifySubBadge, RegisterSubAgent, SubAgentBadge,
     VerifyTriageBadge, RedeemSubBadge, WriteAnswered, WriteFails, PushFile, OpenPr,
     DeniedPrAttempt, Conclude, world
<1>2. SaBusy(r) /\ spc'[r] # "idle"
  BY <1>0 DEF SaNext, SaCallFails, VerifySubBadge, RegisterSubAgent, SubAgentBadge,
     VerifyTriageBadge, RedeemSubBadge, WriteAnswered, WriteFails, PushFile, OpenPr,
     DeniedPrAttempt, Conclude, WriteDenied, SaOk, SaRefused, SaHalt, SaRecord, SaReport,
     SaFatal, SaBusy, SaTypeOK
<1> SUFFICES SaMoves(r)
  BY <1>1, <1>2 DEF ocVars, trVars
<1>3. ASSUME NEW step \in SaFatal, SaHalt(r, step), sent' = sent
      PROVE  SaMoves(r)
  <2>1. step \in SaSteps /\ step # "push-file" /\ spc[r] = step /\ step \in Early
    BY <1>3 DEF SaFatal, SaSteps, SaHalt, SaRecord, Early
  <2>2. "replied" \notin SaFatal \cup SaWriting
    BY DEF SaFatal, SaWriting
  <2>3. SaReport(r, step, "error", "replied")
    BY <1>3 DEF SaHalt, SaRecord
  <2> QED BY <1>0, <1>3, <2>1, <2>2, <2>3, SaReportMoves DEF SaMoves, PromiseInv
<1>4. ASSUME NEW step \in SaFatal, NEW next \in SaFatal, step # "kc-b-exchange",
             SaOk(r, step, next), sent' = sent
      PROVE  SaMoves(r)
  <2>1. /\ step \in SaSteps /\ step # "push-file"
        /\ next \notin SaWriting \cup {"push-file", "pushing", "open-pr"}
    BY <1>4 DEF SaFatal, SaSteps, SaWriting
  <2>2. spc[r] = step /\ SaReport(r, step, "ok", next)
    BY <1>4 DEF SaOk, SaRecord
  <2> QED BY <1>0, <1>4, <2>1, <2>2, SaReportMoves DEF SaMoves
<1>5. ASSUME NEW step \in {"push-file", "open-pr", "denied-pr-attempt"}, NEW status,
             NEW next, SaReport(r, step, status, next), sent' = sent,
             step = "push-file" => status # "ok",
             <<spc[r], next>> \in
               {<<"push-file", "open-pr">>, <<"pushing", "open-pr">>,
                <<"open-pr", "denied-pr-attempt">>, <<"opening", "denied-pr-attempt">>,
                <<"denied-pr-attempt", "dir-push">>}
      PROVE  SaMoves(r)
  <2>1. /\ step \in SaSteps /\ step # "kc-b-exchange"
        /\ next \notin {"push-file", "pushing"}
        /\ spc[r] \in SaWriting /\ next \notin SaFatal
        /\ next = "open-pr" => spc[r] \in {"push-file", "pushing"}
    BY <1>5 DEF SaFatal, SaSteps, SaWriting
  <2> QED BY <1>0, <1>5, <2>1, SaReportMoves DEF SaMoves
<1>6. CASE SaCallFails(r)
  BY <1>3, <1>6 DEF SaCallFails, world
<1>7. CASE VerifySubBadge(r)
  BY <1>3, <1>4, <1>7 DEF VerifySubBadge, SaRefused, SaFatal, world
<1>8. CASE RegisterSubAgent(r)
  BY <1>4, <1>8 DEF RegisterSubAgent, SaFatal, world
<1>9. CASE SubAgentBadge(r)
  BY <1>3, <1>4, <1>9 DEF SubAgentBadge, SaFatal
<1>10. CASE VerifyTriageBadge(r)
  <2>1. sent' = sent
    BY <1>10 DEF VerifyTriageBadge, world
  <2>2. CASE SaOk(r, "verify-sender-badge", "kc-b-exchange")
    BY <1>4, <2>1, <2>2 DEF SaFatal
  <2>3. CASE SaRefused(r, "verify-sender-badge")
    BY <1>3, <2>1, <2>3 DEF SaRefused, SaFatal
  <2> QED BY <1>10, <2>2, <2>3 DEF VerifyTriageBadge
<1>11. CASE RedeemSubBadge(r)
  <2>1. sent' = sent
    BY <1>11 DEF RedeemSubBadge
  <2>2. CASE SaHalt(r, "kc-b-exchange")
    BY <1>3, <2>1, <2>2 DEF SaFatal
  <2>3. CASE /\ spc[r] = "kc-b-exchange"
             /\ spc' = [spc EXCEPT ![r] = "push-file"]
             /\ ssteps' = [ssteps EXCEPT ![r]["kc-b-exchange"] = "ok",
                                         ![r]["idjag-gitea"] = "ok"]
    <3>1. /\ spc[r] = "kc-b-exchange" /\ spc'[r] = "push-file"
          /\ ssteps'[r]["kc-b-exchange"] = "ok"
          /\ ssteps'[r]["push-file"] = ssteps[r]["push-file"]
      BY <1>0, <2>3 DEF SaTypeOK, SaSteps
    <3> QED BY <2>1, <3>1 DEF SaMoves, SaRedeems, Authorised
  <2> QED BY <1>11, <2>2, <2>3 DEF RedeemSubBadge
<1>12. CASE WriteFails(r)
  <2>1. sent' = sent
    BY <1>12 DEF WriteFails, world
  <2> QED BY <1>5, <1>12, <2>1 DEF WriteFails, SaRecord
<1>13. CASE PushFile(r)
  <2> DEFINE request == WriteRequest(r, "push-file", Spawn(r).repo, "none")
  <2>1. /\ request.repo = task[r].repo /\ request.action = "push-file"
        /\ spc[r] = "push-file"
    BY <1>13 DEF PushFile, WriteRequest, Spawn, Ticket
  <2>2. CASE Admitted(r, request)
    <3>1. sent' = sent \cup {WriteCall(r, "push-file", task[r].repo)}
      BY <1>13, <2>1, <2>2 DEF PushFile, PassOn
    <3>2. spc'[r] = "pushing" /\ ssteps' = ssteps
      BY <1>0, <1>13, <2>2 DEF PushFile, SaTypeOK
    <3> QED BY <2>1, <3>1, <3>2 DEF SaMoves, SaAsksToPush
  <2>3. CASE ~Admitted(r, request)
    <3>1. SaReport(r, "push-file", "denied", "open-pr") /\ sent' = sent
      BY <1>13, <2>3 DEF PushFile, WriteDenied, SaRecord
    <3> QED BY <1>5, <2>1, <3>1
  <2> QED BY <2>2, <2>3
<1>14. CASE OpenPr(r)
  <2> DEFINE request == WriteRequest(r, "open-pr", Spawn(r).repo, "remediate")
  <2>1. /\ request.repo = task[r].repo /\ request.action = "open-pr"
        /\ spc[r] = "open-pr"
    BY <1>14 DEF OpenPr, WriteRequest, Spawn, Ticket
  <2>2. CASE Admitted(r, request)
    <3>1. sent' = sent \cup {WriteCall(r, "open-pr", task[r].repo)}
      BY <1>14, <2>1, <2>2 DEF OpenPr, PassOn
    <3>2. ssteps[r]["push-file"] = "ok"
      BY <2>2 DEF Admitted, EnvoyAdmits, WriteAllows, ValidActionBody, WriteRequest
    <3>3. spc'[r] = "opening" /\ ssteps' = ssteps
      BY <1>0, <1>14, <2>2 DEF OpenPr, SaTypeOK
    <3> QED BY <2>1, <3>1, <3>2, <3>3 DEF SaMoves, SaAsksToOpen
  <2>3. CASE ~Admitted(r, request)
    <3>1. SaReport(r, "open-pr", "denied", "denied-pr-attempt") /\ sent' = sent
      BY <1>14, <2>3 DEF OpenPr, WriteDenied, SaRecord
    <3> QED BY <1>5, <2>1, <3>1
  <2> QED BY <2>2, <2>3
<1>15. CASE \E repo \in ProtectedRepos : DeniedPrAttempt(r, repo)
  <2>1. /\ sent' = sent /\ spc[r] = "denied-pr-attempt"
        /\ SaReport(r, "denied-pr-attempt", "denied", "dir-push")
    BY <1>15, AttemptIsDenied DEF DeniedPrAttempt, WriteDenied, SaRecord
  <2> QED BY <1>5, <2>1
<1>16. CASE Conclude(r)
  <2>1. /\ sent' = sent
        /\ spc[r] = "dir-push" /\ spc'[r] = "replied"
        /\ \A s \in {"kc-b-exchange", "push-file"} : ssteps'[r][s] = ssteps[r][s]
    BY <1>0, <1>16 DEF Conclude, SaTypeOK, SaSteps, world
  <2> QED BY <2>1 DEF SaMoves, SaQuiet, Authorised, SaFatal, SaWriting
<1>17. CASE WriteAnswered(r)
  <2>1. sent' = sent
    BY <1>17 DEF WriteAnswered, world
  <2>2. CASE spc[r] = "pushing"
    <3>1. [run |-> r, repo |-> task[r].repo] \in branches
      BY <1>17, <2>2 DEF WriteAnswered, AwaitedBy, CarriedOut, WriteCall, Spawn, Ticket
    <3>2. spc'[r] = "open-pr" /\ ssteps'[r]["kc-b-exchange"] = ssteps[r]["kc-b-exchange"]
      BY <1>0, <1>17, <2>2 DEF WriteAnswered, SaReport, SaTypeOK, SaSteps
    <3> QED BY <2>1, <2>2, <3>1, <3>2 DEF SaMoves, SaHasPushed, Authorised
  <2>3. CASE spc[r] = "opening"
    BY <1>5, <1>17, <2>1, <2>3 DEF WriteAnswered
  <2> QED BY <1>17, <2>2, <2>3 DEF WriteAnswered
<1> QED
  BY <1>6, <1>7, <1>8, <1>9, <1>10, <1>11, <1>12, <1>13, <1>14, <1>15, <1>16, <1>17
     DEF SaNext

-----------------------------------------------------------------------------
(* The invariant                                                           *)

\* A step leaves all of r's state alone.
Left(r) ==
  /\ Unaffected(r) /\ BranchesOf(r)' = BranchesOf(r) /\ PullsOf(r)' = PullsOf(r)

\* A step of one run's handlers leaves the others as they are.
LEMMA OthersLeft ==
  ASSUME PInv, NEW actor \in Runs, NEW r \in Runs, r # actor,
         OcNext(actor) \/ TrNext(actor) \/ SaNext(actor)
  PROVE  Left(r)
<1>1. Unaffected(r)
  BY OthersUnaffected DEF PInv, VInv, IInv
<1>2. CASE OcNext(actor)
  BY <1>1, <1>2, OcLeaves DEF Left, BranchesOf, PullsOf
<1>3. CASE TrNext(actor)
  BY <1>1, <1>3, TrLeaves DEF Left, BranchesOf, PullsOf
<1>4. CASE SaNext(actor)
  BY <1>1, <1>4, SaStepKinds DEF Left, BranchesOf, PullsOf
<1> QED BY <1>2, <1>3, <1>4

\* A write of one run leaves the others as they are.
LEMMA OthersUnwritten ==
  ASSUME NEW r, NEW call, GiteaWrites(call), call.run # r
  PROVE  Left(r)
<1>1. Unaffected(r)
  BY GiteaUnaffected
<1>2. BranchesOf(r)' = BranchesOf(r)
  BY DEF GiteaWrites, BranchesOf
<1>3. PullsOf(r)' = PullsOf(r)
  BY DEF GiteaWrites, PullsOf
<1> QED BY <1>1, <1>2, <1>3 DEF Left

\* A run that is not affected has asked nothing more.
LEMMA UnaffectedRequests ==
  ASSUME NEW r, Unaffected(r)
  PROVE  RequestsOf(r)' = RequestsOf(r)
BY DEF Unaffected, RequestsOf

\* Resting and stuttering leave every run as it is.
LEMMA RestLeaves ==
  ASSUME NEW r \in Runs, Rest \/ UNCHANGED vars
  PROVE  Left(r)
BY DEF Rest, vars, ocVars, trVars, saVars, world, Left, Unaffected, Untouched, Effect,
   BranchesOf, PullsOf

\* A run that is not affected, and whose branches stay, keeps its part of the
\* invariant.
LEMMA UnaffectedPromiseKeeps ==
  ASSUME NEW r \in Runs, PromiseInv(r), Unaffected(r), BranchesOf(r) \subseteq BranchesOf(r)'
  PROVE  PromiseInv(r)'
<1>1. /\ spc'[r] = spc[r] /\ ssteps'[r] = ssteps[r] /\ task'[r] = task[r]
      /\ RequestsOf(r)' = RequestsOf(r)
  BY UnaffectedRequests DEF Unaffected, Untouched
<1>2. ssteps'[r]["push-file"] = "ok" => [run |-> r, repo |-> task'[r].repo] \in branches'
  BY <1>1 DEF PromiseInv, BranchesOf
<1> QED BY <1>1, <1>2 DEF PromiseInv, Authorised

\* Every step of OpenCode.
LEMMA OcPromiseKeeps ==
  ASSUME PInv, NEW r \in Runs, OcNext(r)
  PROVE  PromiseInv(r)'
<1>1. PromiseInv(r) /\ RunInv(r)
  BY DEF PInv, VInv, IInv
<1>2. /\ spc' = spc /\ ssteps' = ssteps /\ sent' = sent /\ branches' = branches
      /\ opc[r] = "idle" \/ task'[r].repo = task[r].repo
  BY OcLeaves
<1>3. opc[r] = "idle" => ssteps[r]["push-file"] # "ok"
  BY <1>1 DEF RunInv, CallOrder, PromiseInv, Early
<1> QED BY <1>1, <1>2, <1>3 DEF PromiseInv, Authorised, RequestsOf

\* Every step of Triage.
LEMMA TrPromiseKeeps ==
  ASSUME PInv, NEW r \in Runs, TrNext(r)
  PROVE  PromiseInv(r)'
<1>1. PromiseInv(r)
  BY DEF PInv
<1>2. /\ ssteps' = ssteps /\ sent' = sent /\ branches' = branches /\ task' = task
      /\ spc'[r] = spc[r] \/ (spc[r] = "idle" /\ spc'[r] = "verify-subbadge")
  BY TrLeaves
<1>3. RequestsOf(r)' = RequestsOf(r)
  BY <1>2 DEF RequestsOf
<1>4. spc'[r] # spc[r] =>
        spc[r] \in Early /\ spc'[r] \notin SaWriting \cup {"pushing", "open-pr"}
  BY <1>2 DEF Early, SaWriting
<1> QED BY <1>1, <1>2, <1>3, <1>4 DEF PromiseInv, Authorised

\* Every step of the Sub-Agent.
LEMMA SaPromiseKeeps ==
  ASSUME PInv, NEW r \in Runs, SaNext(r)
  PROVE  PromiseInv(r)'
<1>1. PromiseInv(r)
  BY DEF PInv
<1>2. task' = task /\ branches' = branches /\ spc'[r] # "idle" /\ SaMoves(r)
  BY SaStepKinds
<1>3. sent' = sent => RequestsOf(r)' = RequestsOf(r)
  BY DEF RequestsOf
<1>4. CASE SaQuiet(r)
  <2>1. spc'[r] \in Early \cup {"push-file"} => spc[r] \in Early
    BY <1>2, <1>4 DEF SaQuiet, Early
  <2>2. spc'[r] \in {"pushing", "open-pr"} => spc[r] \in {"push-file", "pushing"}
    BY <1>4 DEF SaQuiet
  <2> QED BY <1>1, <1>2, <1>3, <1>4, <2>1, <2>2 DEF PromiseInv, SaQuiet, Early
<1>5. CASE SaRedeems(r)
  <2>1. spc[r] \in Early /\ spc'[r] \notin Early
    BY <1>5 DEF SaRedeems, Early, SaFatal
  <2> QED BY <1>1, <1>2, <1>3, <1>5, <2>1 DEF PromiseInv, SaRedeems
<1>6. CASE SaAsksToPush(r)
  <2>1. RequestsOf(r) = {} /\ Authorised(r) /\ ssteps' = ssteps
    BY <1>1, <1>6 DEF SaAsksToPush, PromiseInv, SaWriting
  <2>2. "open-pr" \notin RequestsOf(r)'
    BY <1>6, <2>1 DEF SaAsksToPush, RequestsOf, WriteCall
  <2>3. spc'[r] = "pushing" /\ spc'[r] \notin Early \cup {"push-file"}
    BY <1>6 DEF SaAsksToPush, Early, SaFatal
  <2> QED BY <1>1, <1>2, <2>1, <2>2, <2>3 DEF PromiseInv, Authorised
<1>7. CASE SaHasPushed(r)
  <2>1. spc'[r] \notin Early \cup {"push-file"} /\ spc[r] \in SaWriting
    BY <1>7 DEF SaHasPushed, Early, SaFatal, SaWriting
  <2> QED BY <1>1, <1>2, <1>3, <1>7, <2>1 DEF PromiseInv, SaHasPushed
<1>8. CASE SaAsksToOpen(r)
  <2>1. /\ spc'[r] \notin Early \cup {"push-file", "pushing", "open-pr"}
        /\ spc[r] \in SaWriting /\ ssteps' = ssteps
    BY <1>8 DEF SaAsksToOpen, Early, SaFatal, SaWriting
  <2> QED BY <1>1, <1>2, <2>1 DEF PromiseInv, Authorised
<1> QED BY <1>2, <1>4, <1>5, <1>6, <1>7, <1>8 DEF SaMoves

\* A crash moves a handler that works to "crashed", and nothing else.
LEMMA CrashLeaves ==
  ASSUME PInv, NEW r \in Runs, Crash
  PROVE  /\ verdict' = verdict /\ task' = task /\ ssteps' = ssteps
         /\ sent' = sent /\ branches' = branches /\ pulls' = pulls
         /\ opc'[r] = opc[r] \/ (OcBusy(r) /\ opc'[r] = "crashed")
         /\ tpc'[r] = tpc[r] \/ (TrBusy(r) /\ tpc'[r] = "crashed")
         /\ spc'[r] = spc[r] \/ (SaBusy(r) /\ spc'[r] = "crashed")
BY DEF Crash, OpenCodeCrash, TriageCrash, SubAgentCrash, ocVars, trVars, saVars, world

\* A crash takes no authority back and undoes no write.
LEMMA CrashPromiseKeeps ==
  ASSUME PInv, NEW r \in Runs, Crash
  PROVE  PromiseInv(r)'
<1>1. PromiseInv(r)
  BY DEF PInv
<1>2. /\ task' = task /\ ssteps' = ssteps /\ sent' = sent /\ branches' = branches
      /\ spc'[r] \in {spc[r], "crashed"}
  BY CrashLeaves
<1>3. RequestsOf(r)' = RequestsOf(r)
  BY <1>2 DEF RequestsOf
<1>4. "crashed" \notin Early \cup SaWriting
  BY DEF Early, SaFatal, SaWriting
<1> QED BY <1>1, <1>2, <1>3, <1>4 DEF PromiseInv, Authorised, SaWriting

\* The invariant is inductive.
LEMMA StepPromise == PInv /\ [Next]_vars => PInv'
<1> SUFFICES ASSUME PInv, [Next]_vars PROVE PInv'
  OBVIOUS
<1>1. VInv'
  BY StepVerdict DEF PInv
<1>2. ASSUME NEW r \in Runs PROVE PromiseInv(r)'
  <2>1. ASSUME NEW actor \in Runs, OcNext(actor) \/ TrNext(actor) \/ SaNext(actor)
        PROVE  PromiseInv(r)'
    <3>1. CASE actor = r
      BY <2>1, <3>1, OcPromiseKeeps, TrPromiseKeeps, SaPromiseKeeps
    <3>2. CASE actor # r
      BY <2>1, <3>2, OthersLeft, UnaffectedPromiseKeeps DEF PInv, Left
    <3> QED BY <3>1, <3>2
  <2>2. CASE Crash
    BY <2>2, CrashPromiseKeeps
  <2>3. CASE Rest \/ UNCHANGED vars
    BY <2>3, RestLeaves, UnaffectedPromiseKeeps DEF PInv, Left
  <2>4. CASE \E call \in sent : GiteaWrites(call)
    <3>1. BranchesOf(r) \subseteq BranchesOf(r)'
      BY <2>4 DEF GiteaWrites, BranchesOf
    <3> QED BY <2>4, <3>1, GiteaUnaffected, UnaffectedPromiseKeeps DEF PInv
  <2> QED BY <2>1, <2>2, <2>3, <2>4 DEF Next
<1> QED BY <1>1, <1>2 DEF PInv

\* The invariant under which every step is one of the promise.
THEOREM PromiseInvariant == Spec => []PInv
BY InitPromise, StepPromise, PTL DEF Spec

-----------------------------------------------------------------------------
(* The simulation                                                          *)

\* Nothing of the promise moves.
LEMMA Stutters ==
  ASSUME NEW r, StageOf(r)' = StageOf(r), task'[r].repo = task[r].repo, sent' = sent,
         branches' = branches, pulls' = pulls, AnswerOf(r)' = AnswerOf(r)
  PROVE  UNCHANGED Promise(r)!vars
BY DEF Promise!vars, RequestsOf, BranchesOf, PullsOf

\* While a handler of OpenCode works its user has no answer.
LEMMA OcUnanswered ==
  ASSUME PInv, NEW r \in Runs, opc[r] \notin {"done", "crashed"}
  PROVE  AnswerOf(r) = "none" /\ verdict[r] = "none"
<1>1. verdict[r] \in {"none", "ok", "failed"}
  BY DEF PInv, VInv, IInv, TypeOK, OcTypeOK
<1>2. verdict[r] # "ok" /\ verdict[r] # "failed"
  BY DEF PInv, VInv, VerdictInv, VerdictReported, IInv, RunInv, CallOrder
<1> QED BY <1>1, <1>2 DEF AnswerOf

\* What a step of OpenCode does to its position, Triage's and the answer.
LEMMA OcMoves ==
  ASSUME PInv, NEW r \in Runs, OcNext(r)
  PROVE  /\ opc[r] \notin {"done", "crashed"} /\ opc'[r] \notin {"idle", "crashed"}
         /\ \/ tpc'[r] = tpc[r]
            \/ /\ opc[r] = "create-ticket" /\ tpc'[r] = "verify-idjag"
               /\ verdict' = verdict
         /\ opc[r] = "idle" =>
              tpc'[r] = tpc[r] /\ task'[r].repo \in Repos /\ verdict' = verdict
         /\ verdict'[r] \in {"none", "failed", "ok"}
<1>0. /\ OcTypeOK /\ TrTypeOK /\ WorldTypeOK
      /\ OcTypeOK' /\ WorldTypeOK'
  BY StepIInv DEF PInv, VInv, IInv, TypeOK, Next
<1>1. opc[r] \notin {"done", "crashed"}
  BY DEF OcNext, StartRun, OcCallFails, SignIn, BadgeScopeCheck, ResolveBadge, MintRead,
     ReadEgressCheck, RedeemRead, FetchSource, Scan, Plan, UseDirectory, ExchangeAtA,
     MintIdJag, EgressCheck, RedeemAtB, CreateTicket, TicketLost, TicketAnswered,
     TicketAbandoned, TicketFinishes, OcAnswered, OcTolerated, OcOk, OcRefused, OcHalt,
     OcRecord, OcFatal, OcSteps
<1>2. opc'[r] \notin {"idle", "crashed"}
  BY <1>0 DEF OcNext, StartRun, OcCallFails, SignIn, BadgeScopeCheck, ResolveBadge,
     MintRead, ReadEgressCheck, RedeemRead, FetchSource, Scan, Plan, UseDirectory,
     ExchangeAtA, MintIdJag, EgressCheck, RedeemAtB, CreateTicket, TicketLost,
     TicketAnswered, TicketAbandoned, TicketFinishes, OcAnswered, OcTolerated, OcOk,
     OcRefused, OcHalt, OcRecord, OcTypeOK
<1>3. \/ tpc'[r] = tpc[r]
      \/ opc[r] = "create-ticket" /\ tpc'[r] = "verify-idjag" /\ verdict' = verdict
  <2>1. CASE CreateTicket(r)
    BY <1>0, <2>1 DEF CreateTicket, trVars, TrTypeOK
  <2>2. CASE ~CreateTicket(r)
    <3>1. UNCHANGED trVars
      BY <2>2 DEF OcNext, StartRun, OcCallFails, SignIn, BadgeScopeCheck, ResolveBadge,
         MintRead, ReadEgressCheck, RedeemRead, FetchSource, Scan, Plan, UseDirectory,
         ExchangeAtA, MintIdJag, EgressCheck, RedeemAtB, TicketLost, TicketAnswered,
         TicketAbandoned, TicketFinishes
    <3> QED BY <3>1 DEF trVars
  <2> QED BY <2>1, <2>2
<1>4. opc[r] = "idle" =>
        tpc'[r] = tpc[r] /\ task'[r].repo \in Repos /\ verdict' = verdict
  <2> SUFFICES ASSUME opc[r] = "idle"
               PROVE  tpc'[r] = tpc[r] /\ task'[r].repo \in Repos /\ verdict' = verdict
    OBVIOUS
  <2>1. \E repo \in Repos, cve \in Findings : StartRun(r, repo, cve)
    BY DEF OcNext, OcCallFails, SignIn, BadgeScopeCheck, ResolveBadge, MintRead,
       ReadEgressCheck, RedeemRead, FetchSource, Scan, Plan, UseDirectory, ExchangeAtA,
       MintIdJag, EgressCheck, RedeemAtB, CreateTicket, TicketLost, TicketAnswered,
       TicketAbandoned, TicketFinishes, OcAnswered, OcTolerated, OcOk, OcRefused, OcHalt,
       OcRecord, OcFatal, OcSteps
  <2>2. task' \in [Runs -> [repo : Repos, cve : Findings]]
    BY <1>0 DEF WorldTypeOK
  <2> QED BY <2>1, <2>2 DEF StartRun, trVars
<1>5. verdict'[r] \in {"none", "failed", "ok"}
  BY <1>0 DEF OcTypeOK
<1> QED BY <1>1, <1>2, <1>3, <1>4, <1>5

\* Asking, delegating and answering.
LEMMA OcPromises ==
  ASSUME PInv, NEW r \in Runs, OcNext(r)
  PROVE  [Promise(r)!Next]_(Promise(r)!vars)
<1>0. PInv' /\ RunInv(r) /\ PromiseInv(r)
  BY StepPromise DEF Next, PInv, VInv, IInv
<1>1. /\ spc' = spc /\ ssteps' = ssteps /\ sent' = sent
      /\ branches' = branches /\ pulls' = pulls
      /\ opc[r] = "idle" \/ task'[r].repo = task[r].repo
  BY OcLeaves
<1>2. /\ opc[r] \notin {"done", "crashed"} /\ opc'[r] \notin {"idle", "crashed"}
      /\ AnswerOf(r) = "none" /\ verdict[r] = "none" /\ AnswerOf(r)' = verdict'[r]
  BY OcMoves, OcUnanswered DEF AnswerOf
<1>3. /\ RequestsOf(r)' = RequestsOf(r)
      /\ ReposIn(BranchesOf(r))' = ReposIn(BranchesOf(r))
      /\ ReposIn(PullsOf(r))' = ReposIn(PullsOf(r))
  BY <1>1 DEF RequestsOf, BranchesOf, PullsOf, ReposIn
<1>4. CASE opc[r] = "idle"
  <2>1. /\ tpc[r] = "idle" /\ tpc'[r] = "idle" /\ task'[r].repo \in Repos
        /\ verdict'[r] = verdict[r]
    BY <1>0, <1>4, OcMoves DEF RunInv, CallOrder
  <2>2. StageOf(r) = "idle" /\ StageOf(r)' = "asked"
    BY <1>2, <1>4, <2>1 DEF StageOf
  <2>3. Promise(r)!Ask
    BY <1>2, <1>3, <2>1, <2>2 DEF Promise!Ask
  <2> QED BY <2>3 DEF Promise!Next
<1>5. CASE opc[r] # "idle" /\ tpc'[r] # tpc[r]
  <2>1. opc[r] = "create-ticket" /\ tpc'[r] = "verify-idjag" /\ verdict' = verdict
    BY <1>5, OcMoves
  <2>2. tpc[r] = "idle" /\ spc[r] = "idle"
    BY <1>0, <2>1 DEF RunInv, CallOrder
  <2>3. StageOf(r) = "asked" /\ StageOf(r)' = "delegated"
    BY <1>0, <1>1, <1>2, <1>5, <2>1, <2>2
    DEF StageOf, TrBusy, SaBusy, PromiseInv, Authorised, Early
  <2>4. Promise(r)!Delegate
    BY <1>1, <1>2, <1>3, <1>5, <2>1, <2>3 DEF Promise!Delegate
  <2> QED BY <2>4 DEF Promise!Next
<1>6. CASE opc[r] # "idle" /\ tpc'[r] = tpc[r]
  <2>1. StageOf(r)' = StageOf(r) /\ StageOf(r) # "idle"
    BY <1>1, <1>2, <1>6 DEF StageOf, TrBusy, SaBusy
  <2>2. task'[r].repo = task[r].repo
    BY <1>1, <1>6
  <2>3. CASE verdict'[r] = "none"
    BY <1>1, <1>2, <2>1, <2>2, <2>3, Stutters
  <2>4. CASE verdict'[r] = "failed"
    <3>1. Promise(r)!AnswerFailed
      BY <1>2, <1>3, <2>1, <2>2, <2>4 DEF Promise!AnswerFailed
    <3> QED BY <3>1 DEF Promise!Next, Promise!Respond
  <2>5. CASE verdict'[r] = "ok"
    <3>1. /\ tpc'[r] = "replied" /\ spc'[r] = "replied"
          /\ [run |-> r, repo |-> task'[r].repo] \in pulls'
          /\ \A p \in pulls' : p.run = r => p.repo = task'[r].repo
      BY <1>0, <2>5 DEF PInv, VInv, VerdictInv, VerdictReported, WritesReported,
         PullsReported, IInv, WritesWereSent, WriteCall
    <3>2. StageOf(r) = "ended"
      BY <1>1, <1>2, <1>6, <3>1 DEF StageOf, TrBusy, SaBusy
    <3>3. ReposIn(PullsOf(r)) = {task[r].repo}
      BY <1>1, <2>2, <3>1 DEF ReposIn, PullsOf
    <3>4. Promise(r)!AnswerOk
      BY <1>2, <1>3, <2>1, <2>2, <2>5, <3>2, <3>3 DEF Promise!AnswerOk
    <3> QED BY <3>4 DEF Promise!Next, Promise!Respond
  <2> QED BY <2>3, <2>4, <2>5, OcMoves
<1> QED BY <1>4, <1>5, <1>6

\* Triage only ever ends the run's work, when it was the last.
LEMMA TrPromises ==
  ASSUME PInv, NEW r \in Runs, TrNext(r)
  PROVE  [Promise(r)!Next]_(Promise(r)!vars)
<1>0. RunInv(r)
  BY DEF PInv, VInv, IInv
<1>1. /\ opc' = opc /\ verdict' = verdict /\ task' = task
      /\ ssteps' = ssteps /\ sent' = sent /\ branches' = branches /\ pulls' = pulls
      /\ \/ spc'[r] = spc[r]
         \/ spc[r] = "idle" /\ spc'[r] = "verify-subbadge" /\ tpc'[r] = "await-sub-agent"
      /\ TrBusy(r) /\ tpc'[r] # "idle"
  BY TrLeaves
<1>2. opc[r] # "idle" /\ tpc[r] # "idle"
  BY <1>0, <1>1 DEF RunInv, CallOrder, TrBusy
<1>3. AnswerOf(r)' = AnswerOf(r)
  BY <1>1 DEF AnswerOf
<1>4. StageOf(r) = IF Authorised(r) THEN "authorised" ELSE "delegated"
  BY <1>1, <1>2 DEF StageOf, Authorised, TrBusy
<1>5. CASE TrBusy(r)' \/ SaBusy(r)'
  <2>1. StageOf(r)' = StageOf(r)
    BY <1>1, <1>2, <1>4, <1>5 DEF StageOf, Authorised
  <2> QED BY <1>1, <1>3, <2>1, Stutters
<1>6. CASE ~TrBusy(r)' /\ ~SaBusy(r)'
  <2>1. StageOf(r)' = "ended"
    BY <1>1, <1>2, <1>6 DEF StageOf
  <2>2. /\ RequestsOf(r)' = RequestsOf(r)
        /\ ReposIn(BranchesOf(r))' = ReposIn(BranchesOf(r))
        /\ ReposIn(PullsOf(r))' = ReposIn(PullsOf(r))
    BY <1>1 DEF RequestsOf, BranchesOf, PullsOf, ReposIn
  <2>3. Promise(r)!Finish
    BY <1>1, <1>3, <1>4, <2>1, <2>2 DEF Promise!Finish
  <2> QED BY <2>3 DEF Promise!Next
<1> QED BY <1>5, <1>6

\* A write passed on to Gitea is one more request of its run.
LEMMA PassingOnRequests ==
  ASSUME NEW r, NEW action, NEW repo, sent' = sent \cup {WriteCall(r, action, repo)}
  PROVE  RequestsOf(r)' = RequestsOf(r) \cup {action}
<1> DEFINE call == WriteCall(r, action, repo)
<1>1. call.run = r /\ call.action = action
  BY DEF WriteCall
<1>2. {c \in sent' : c.run = r} = {c \in sent : c.run = r} \cup {call}
  BY <1>1
<1> HIDE DEF call
<1> QED BY <1>1, <1>2 DEF RequestsOf

\* The Sub-Agent gets its token, asks for the branch and the pull request, and ends
\* the run's work if Triage no longer waits for it.
LEMMA SaPromises ==
  ASSUME PInv, NEW r \in Runs, SaNext(r)
  PROVE  [Promise(r)!Next]_(Promise(r)!vars)
<1>0. RunInv(r) /\ PromiseInv(r)
  BY DEF PInv, VInv, IInv
<1>1. /\ opc' = opc /\ verdict' = verdict /\ task' = task /\ tpc' = tpc
      /\ branches' = branches /\ pulls' = pulls
      /\ SaBusy(r) /\ spc'[r] # "idle" /\ SaMoves(r)
  BY SaStepKinds
<1>2. opc[r] # "idle" /\ tpc[r] # "idle"
  BY <1>0, <1>1 DEF RunInv, CallOrder, SaBusy
<1>3. /\ AnswerOf(r)' = AnswerOf(r)
      /\ ReposIn(BranchesOf(r))' = ReposIn(BranchesOf(r))
      /\ ReposIn(PullsOf(r))' = ReposIn(PullsOf(r))
      /\ sent' = sent => RequestsOf(r)' = RequestsOf(r)
  BY <1>1 DEF AnswerOf, BranchesOf, PullsOf, ReposIn, RequestsOf
<1>4. StageOf(r) = IF Authorised(r) THEN "authorised" ELSE "delegated"
  BY <1>1, <1>2 DEF StageOf, Authorised, SaBusy
<1>5. StageOf(r)' = IF ~TrBusy(r)' /\ ~SaBusy(r)' THEN "ended"
                    ELSE IF Authorised(r)' THEN "authorised" ELSE "delegated"
  BY <1>1, <1>2 DEF StageOf, Authorised
<1>6. ASSUME sent' = sent, Authorised(r)' <=> Authorised(r)
      PROVE  [Promise(r)!Next]_(Promise(r)!vars)
  <2>1. CASE TrBusy(r)' \/ SaBusy(r)'
    <3>1. StageOf(r)' = StageOf(r)
      BY <1>4, <1>5, <1>6, <2>1
    <3> QED BY <1>1, <1>3, <1>6, <3>1, Stutters
  <2>2. CASE ~TrBusy(r)' /\ ~SaBusy(r)'
    <3>1. Promise(r)!Finish
      BY <1>1, <1>3, <1>4, <1>5, <1>6, <2>2 DEF Promise!Finish
    <3> QED BY <3>1 DEF Promise!Next
  <2> QED BY <2>1, <2>2
<1>7. CASE SaQuiet(r) \/ SaHasPushed(r)
  BY <1>6, <1>7 DEF SaQuiet, SaHasPushed
<1>8. CASE SaRedeems(r)
  <2>1. ~Authorised(r) /\ Authorised(r)' /\ SaBusy(r)' /\ sent' = sent
    BY <1>0, <1>8 DEF SaRedeems, PromiseInv, Early, SaFatal, SaBusy
  <2>2. Promise(r)!Authorise
    BY <1>1, <1>3, <1>4, <1>5, <2>1 DEF Promise!Authorise
  <2> QED BY <2>2 DEF Promise!Next
<1>9. CASE SaAsksToPush(r)
  <2>1. /\ Authorised(r) /\ Authorised(r)' /\ SaBusy(r)'
        /\ "push-file" \notin RequestsOf(r)
    BY <1>0, <1>9 DEF SaAsksToPush, PromiseInv, SaWriting, SaBusy, Authorised
  <2>2. RequestsOf(r)' = RequestsOf(r) \cup {"push-file"}
    BY <1>9, PassingOnRequests DEF SaAsksToPush
  <2>3. Promise(r)!RequestBranch
    BY <1>1, <1>3, <1>4, <1>5, <2>1, <2>2 DEF Promise!RequestBranch
  <2> QED BY <2>3 DEF Promise!Next
<1>10. CASE SaAsksToOpen(r)
  <2>1. /\ Authorised(r) /\ Authorised(r)' /\ SaBusy(r)'
        /\ "open-pr" \notin RequestsOf(r)
        /\ [run |-> r, repo |-> task[r].repo] \in BranchesOf(r)
    BY <1>0, <1>10
       DEF SaAsksToOpen, PromiseInv, SaWriting, SaBusy, Authorised, BranchesOf
  <2>2. /\ RequestsOf(r)' = RequestsOf(r) \cup {"open-pr"}
        /\ task[r].repo \in ReposIn(BranchesOf(r))
    BY <1>10, <2>1, PassingOnRequests DEF SaAsksToOpen, ReposIn
  <2>3. Promise(r)!RequestPull
    BY <1>1, <1>3, <1>4, <1>5, <2>1, <2>2 DEF Promise!RequestPull
  <2> QED BY <2>3 DEF Promise!Next
<1> QED BY <1>1, <1>7, <1>8, <1>9, <1>10 DEF SaMoves

\* A crash of OpenCode leaves nobody to answer, one in Org B may end its work.
LEMMA CrashPromises ==
  ASSUME PInv, NEW r \in Runs, Crash
  PROVE  [Promise(r)!Next]_(Promise(r)!vars)
<1>0. RunInv(r)
  BY DEF PInv, VInv, IInv
<1>1. /\ verdict' = verdict /\ task' = task /\ ssteps' = ssteps
      /\ sent' = sent /\ branches' = branches /\ pulls' = pulls
  BY CrashLeaves
<1>2. /\ RequestsOf(r)' = RequestsOf(r)
      /\ ReposIn(BranchesOf(r))' = ReposIn(BranchesOf(r))
      /\ ReposIn(PullsOf(r))' = ReposIn(PullsOf(r))
  BY <1>1 DEF RequestsOf, BranchesOf, PullsOf, ReposIn
<1>3. CASE OpenCodeCrash
  <2>1. tpc' = tpc /\ spc' = spc
    BY <1>3 DEF OpenCodeCrash, trVars, saVars
  <2>2. CASE opc'[r] = opc[r]
    <3>1. StageOf(r)' = StageOf(r) /\ AnswerOf(r)' = AnswerOf(r)
      BY <1>1, <2>1, <2>2 DEF StageOf, AnswerOf, TrBusy, SaBusy
    <3> QED BY <1>1, <3>1, Stutters
  <2>3. CASE OcBusy(r) /\ opc'[r] = "crashed"
    <3>1. opc[r] \notin {"idle", "done", "crashed"}
      BY <2>3 DEF OcBusy, OcSteps
    <3>2. StageOf(r)' = StageOf(r) /\ StageOf(r) # "idle"
      BY <1>1, <2>1, <2>3, <3>1 DEF StageOf, TrBusy, SaBusy
    <3>3. AnswerOf(r) = "none" /\ AnswerOf(r)' = "lost"
      BY <2>3, <3>1, OcUnanswered DEF AnswerOf
    <3>4. Promise(r)!Die
      BY <1>1, <1>2, <3>2, <3>3 DEF Promise!Die
    <3> QED BY <3>4 DEF Promise!Next, Promise!Respond
  <2> QED BY <2>2, <2>3, CrashLeaves
<1>4. CASE TriageCrash \/ SubAgentCrash
  <2>1. /\ opc' = opc
        /\ tpc'[r] = tpc[r] \/ (TrBusy(r) /\ tpc'[r] = "crashed")
        /\ spc'[r] = spc[r] \/ (SaBusy(r) /\ spc'[r] = "crashed")
    BY <1>4, CrashLeaves DEF TriageCrash, SubAgentCrash, ocVars
  <2>2. AnswerOf(r)' = AnswerOf(r)
    BY <1>1, <2>1 DEF AnswerOf
  <2>3. CASE tpc'[r] = tpc[r] /\ spc'[r] = spc[r]
    <3>1. StageOf(r)' = StageOf(r)
      BY <1>1, <2>1, <2>3 DEF StageOf, TrBusy, SaBusy
    <3> QED BY <1>1, <2>2, <3>1, Stutters
  <2>4. CASE tpc'[r] # tpc[r] \/ spc'[r] # spc[r]
    <3>1. TrBusy(r) \/ SaBusy(r)
      BY <2>1, <2>4
    <3>2. opc[r] # "idle" /\ tpc[r] # "idle" /\ tpc'[r] # "idle"
      BY <1>0, <2>1, <3>1 DEF RunInv, CallOrder, TrBusy, SaBusy
    <3>3. StageOf(r) = IF Authorised(r) THEN "authorised" ELSE "delegated"
      BY <3>1, <3>2 DEF StageOf, Authorised
    <3>4. StageOf(r)' = IF ~TrBusy(r)' /\ ~SaBusy(r)' THEN "ended"
                        ELSE IF Authorised(r) THEN "authorised" ELSE "delegated"
      BY <1>1, <2>1, <3>2 DEF StageOf, Authorised
    <3>5. CASE StageOf(r)' = StageOf(r)
      BY <1>1, <2>2, <3>5, Stutters
    <3>6. CASE StageOf(r)' = "ended"
      <4>1. Promise(r)!Finish
        BY <1>1, <1>2, <2>2, <3>3, <3>6 DEF Promise!Finish
      <4> QED BY <4>1 DEF Promise!Next
    <3> QED BY <3>3, <3>4, <3>5, <3>6
  <2> QED BY <2>3, <2>4
<1> QED BY <1>3, <1>4 DEF Crash

\* Gitea carries out what was asked of it, whoever still waits: the branch or the
\* pull request appears on the run's repository, once.
LEMMA GiteaPromises ==
  ASSUME PInv, NEW call \in sent, GiteaWrites(call), NEW r \in Runs, call.run = r
  PROVE  [Promise(r)!Next]_(Promise(r)!vars)
<1>1. /\ WritesWereSent /\ call.repo = task[r].repo
      /\ \A other \in sent : other.run = r => other.repo = task[r].repo
      /\ branches \subseteq [run : Runs, repo : Repos]
      /\ pulls \subseteq [run : Runs, repo : Repos]
  BY DEF PInv, VInv, VerdictInv, PullsReported, IInv, TypeOK, WorldTypeOK
<1>2. /\ \A b \in BranchesOf(r) : b = [run |-> r, repo |-> task[r].repo]
      /\ \A p \in PullsOf(r) : p = [run |-> r, repo |-> task[r].repo]
  <2>1. ASSUME NEW w \in [run : Runs, repo : Repos], w.run = r, NEW action,
               WriteCall(w.run, action, w.repo) \in sent
        PROVE  w = [run |-> r, repo |-> task[r].repo]
    <3>1. w.repo = task[r].repo
      BY <1>1, <2>1 DEF WriteCall
    <3> QED BY <2>1, <3>1
  <2> QED BY <1>1, <2>1 DEF WritesWereSent, BranchesOf, PullsOf
<1>3. /\ opc' = opc /\ verdict' = verdict /\ tpc' = tpc /\ spc' = spc
      /\ ssteps' = ssteps /\ task' = task /\ sent' = sent
  BY DEF GiteaWrites, ocVars, trVars, saVars
<1>4. /\ StageOf(r)' = StageOf(r) /\ AnswerOf(r)' = AnswerOf(r)
      /\ RequestsOf(r)' = RequestsOf(r)
  BY <1>3 DEF StageOf, AnswerOf, TrBusy, SaBusy, RequestsOf
<1>5. CASE call.action = "push-file"
  <2>1. /\ branches' = branches \cup {[run |-> r, repo |-> task[r].repo]}
        /\ pulls' = pulls /\ [run |-> r, repo |-> task[r].repo] \notin branches
    BY <1>1, <1>5 DEF GiteaWrites, CarriedOut
  <2>2. BranchesOf(r) = {} /\ BranchesOf(r)' = {[run |-> r, repo |-> task[r].repo]}
    BY <1>2, <2>1 DEF BranchesOf
  <2>3. /\ ReposIn(BranchesOf(r)) = {} /\ ReposIn(BranchesOf(r))' = {task[r].repo}
        /\ ReposIn(PullsOf(r))' = ReposIn(PullsOf(r))
    BY <2>1, <2>2 DEF ReposIn, PullsOf
  <2>4. "push-file" \in RequestsOf(r)
    BY <1>5 DEF RequestsOf
  <2>5. Promise(r)!Push
    BY <1>3, <1>4, <2>3, <2>4 DEF Promise!Push
  <2> QED BY <2>5 DEF Promise!Next
<1>6. CASE call.action = "open-pr"
  <2>1. /\ pulls' = pulls \cup {[run |-> r, repo |-> task[r].repo]}
        /\ branches' = branches /\ [run |-> r, repo |-> task[r].repo] \notin pulls
    BY <1>1, <1>6 DEF GiteaWrites, CarriedOut
  <2>2. PullsOf(r) = {} /\ PullsOf(r)' = {[run |-> r, repo |-> task[r].repo]}
    BY <1>2, <2>1 DEF PullsOf
  <2>3. /\ ReposIn(PullsOf(r)) = {} /\ ReposIn(PullsOf(r))' = {task[r].repo}
        /\ ReposIn(BranchesOf(r))' = ReposIn(BranchesOf(r))
    BY <2>1, <2>2 DEF ReposIn, BranchesOf
  <2>4. "open-pr" \in RequestsOf(r)
    BY <1>6 DEF RequestsOf
  <2>5. Promise(r)!Open
    BY <1>3, <1>4, <2>3, <2>4 DEF Promise!Open
  <2> QED BY <2>5 DEF Promise!Next
<1> QED BY <1>5, <1>6 DEF GiteaWrites

\* What leaves a run as it is is a stuttering step of its promise.
LEMMA LeftPromises ==
  ASSUME NEW r \in Runs, Left(r)
  PROVE  UNCHANGED Promise(r)!vars
<1>1. /\ opc'[r] = opc[r] /\ verdict'[r] = verdict[r] /\ tpc'[r] = tpc[r]
      /\ spc'[r] = spc[r] /\ ssteps'[r] = ssteps[r] /\ task'[r] = task[r]
      /\ BranchesOf(r)' = BranchesOf(r) /\ PullsOf(r)' = PullsOf(r)
  BY DEF Left, Unaffected, Untouched
<1>2. StageOf(r)' = StageOf(r) /\ AnswerOf(r)' = AnswerOf(r)
  BY <1>1 DEF StageOf, AnswerOf, TrBusy, SaBusy
<1>3. /\ RequestsOf(r)' = RequestsOf(r)
      /\ ReposIn(BranchesOf(r))' = ReposIn(BranchesOf(r))
      /\ ReposIn(PullsOf(r))' = ReposIn(PullsOf(r))
  BY <1>1, UnaffectedRequests DEF Left, ReposIn
<1> QED BY <1>1, <1>2, <1>3 DEF Promise!vars

\* Every run starts where its promise does.
LEMMA InitPromises ==
  ASSUME Init, NEW r \in Runs
  PROVE  Promise(r)!Init
<1>1. StageOf(r) = "idle" /\ AnswerOf(r) = "none"
  <2>1. opc[r] = "idle" /\ verdict[r] = "none" /\ tpc[r] = "idle"
    BY DEF Init, OcInit, TrInit
  <2>2. StageOf(r) = "idle"
    BY <2>1 DEF StageOf
  <2>3. AnswerOf(r) = "none"
    BY <2>1 DEF AnswerOf
  <2> QED BY <2>2, <2>3
<1>2. task[r].repo \in Repos
  BY InitType DEF TypeOK, WorldTypeOK
<1>3. RequestsOf(r) = {} /\ ReposIn(BranchesOf(r)) = {} /\ ReposIn(PullsOf(r)) = {}
  BY DEF Init, RequestsOf, BranchesOf, PullsOf, ReposIn
<1> QED BY <1>1, <1>2, <1>3 DEF Promise!Init

\* The delegation implements Remediation: each run starts as one promise and every
\* step, of whichever handler or failure, or of Gitea however late, is a step of
\* each run's promise or leaves it alone.
THEOREM StepsKeepPromise == Spec => KeepsPromise
<1>1. Init => \A r \in Runs : Promise(r)!Init
  BY InitPromises
<1>2. ASSUME PInv, [Next]_vars, NEW r \in Runs
      PROVE  [Promise(r)!Next]_(Promise(r)!vars)
  <2>1. ASSUME NEW actor \in Runs, OcNext(actor) \/ TrNext(actor) \/ SaNext(actor)
        PROVE  [Promise(r)!Next]_(Promise(r)!vars)
    <3>1. CASE actor = r
      BY <1>2, <2>1, <3>1, OcPromises, TrPromises, SaPromises
    <3>2. CASE actor # r
      BY <1>2, <2>1, <3>2, OthersLeft, LeftPromises
    <3> QED BY <3>1, <3>2
  <2>2. CASE Crash
    BY <1>2, <2>2, CrashPromises
  <2>3. CASE Rest \/ UNCHANGED vars
    BY <2>3, RestLeaves, LeftPromises
  <2>4. CASE \E call \in sent : GiteaWrites(call)
    BY <1>2, <2>4, GiteaPromises, OthersUnwritten, LeftPromises
  <2> QED BY <1>2, <2>1, <2>2, <2>3, <2>4 DEF Next
<1>3. PInv /\ [Next]_vars =>
        [\A r \in Runs : [Promise(r)!Next]_(Promise(r)!vars)]_vars
  BY <1>2
<1>4. Spec => [][\A r \in Runs : [Promise(r)!Next]_(Promise(r)!vars)]_vars
  BY <1>3, PromiseInvariant, PTL DEF Spec
<1>5. Spec => \A r \in Runs : Promise(r)!Init
  BY <1>1, PTL DEF Spec
<1> QED BY <1>4, <1>5 DEF KeepsPromise
=============================================================================
