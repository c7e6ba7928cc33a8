-------------------------- MODULE DelegationProofs --------------------------
(***************************************************************************)
(* Proofs about Delegation, for every set of runs, repositories, findings  *)
(* and every number of faults.                                             *)
(***************************************************************************)
EXTENDS Delegation, TLAPS

-----------------------------------------------------------------------------
(* Types: what one step of a handler does to its report and its position   *)

\* The failures that may still happen are never exceeded.
LEMMA FaultType ==
  ASSUME faults \in 0..MaxFaults, Fault \/ UNCHANGED faults
  PROVE  faults' \in 0..MaxFaults
BY FaultAssumption DEF Fault

\* A recorded step of OpenCode stays in the vocabulary of its report.
LEMMA OcRecordType ==
  ASSUME OcTypeOK, NEW r \in Runs, NEW step \in OcSteps, NEW status \in Statuses,
         NEW next \in OcPositions, OcRecord(r, step, status, next),
         verdict' \in [Runs -> {"none", "ok", "failed"}]
  PROVE  OcTypeOK'
<1>1. opc' \in [Runs -> OcPositions]
  BY DEF OcTypeOK, OcRecord
<1>2. osteps' \in [Runs -> [OcSteps -> Statuses]]
  BY DEF OcTypeOK, OcRecord
<1> QED BY <1>1, <1>2 DEF OcTypeOK

\* The same of Triage.
LEMMA TrRecordType ==
  ASSUME TrTypeOK, NEW r \in Runs, NEW step \in TrSteps, NEW status \in Statuses,
         NEW next \in TrPositions, TrRecord(r, step, status, next)
  PROVE  TrTypeOK'
BY DEF TrTypeOK, TrRecord

\* The same of the Sub-Agent, wherever it stands.
LEMMA SaReportType ==
  ASSUME SaTypeOK, NEW r \in Runs, NEW step \in SaSteps, NEW status \in Statuses,
         NEW next \in SaPositions, SaReport(r, step, status, next)
  PROVE  SaTypeOK'
BY DEF SaTypeOK, SaReport

\* The same when the step it records is the one it is at.
LEMMA SaRecordType ==
  ASSUME SaTypeOK, NEW r \in Runs, NEW step \in SaSteps, NEW status \in Statuses,
         NEW next \in SaPositions, SaRecord(r, step, status, next)
  PROVE  SaTypeOK'
BY SaReportType DEF SaRecord

\* What the gateway passes on is a call Gitea can be given.
LEMMA PassOnType ==
  ASSUME WorldTypeOK, NEW r \in Runs, NEW request,
         request.action \in {"push-file", "open-pr"}, request.repo \in Repos,
         PassOn(r, request) \/ UNCHANGED sent
  PROVE  sent' \subseteq [run : Runs, action : {"push-file", "open-pr"}, repo : Repos]
BY DEF WorldTypeOK, PassOn, WriteCall

-----------------------------------------------------------------------------
(* Types: what is minted, redeemed and published                           *)

\* What the agents ask for are claims Keycloak knows.
LEMMA AssertionTypes ==
  ASSUME WorldTypeOK, NEW r \in Runs
  PROVE  /\ ReadAssertion(r) \in AssertionClaims
         /\ TriageAssertion(r) \in AssertionClaims
         /\ SubBadge(r) \in AssertionClaims
         /\ SubChain(r) \in Seq(Agents)
         /\ Spawn(r).chain \in Seq(Agents)
<1> DEFINE claims == AssertionClaims
<1>1. task[r] \in [repo : Repos, cve : Findings]
  BY DEF WorldTypeOK
<1>2. /\ <<OpenCode>> \in Seq(Agents)
      /\ SubChain(r) \in Seq(Agents)
      /\ Spawn(r).chain \in Seq(Agents)
  BY DEF SubChain, Spawn, Ticket, Agents
<1>3. ReadAssertion(r) \in claims
  BY <1>1, <1>2 DEF ReadAssertion, AssertionClaims, Orgs, Users, Agents, Scopes, Intents
<1>4. TriageAssertion(r) \in claims
  BY <1>1, <1>2 DEF TriageAssertion, AssertionClaims, Orgs, Users, Agents, Scopes, Intents
<1>5. SubBadge(r) \in claims
  BY <1>1, <1>2 DEF SubBadge, Ticket, SubbadgeScope, AssertionClaims, Orgs, Users,
                    Agents, Scopes, Intents
<1> QED BY <1>2, <1>3, <1>4, <1>5

\* Keycloak signs claims of that type only.
LEMMA MintType ==
  ASSUME WorldTypeOK, NEW r \in Runs, NEW a \in AssertionClaims,
         Mint(r, a) \/ UNCHANGED minted
  PROVE  minted' \subseteq [run : Runs, claims : AssertionClaims]
BY DEF WorldTypeOK, Mint

\* Keycloak B issues access tokens of their type only.
LEMMA RedeemType ==
  ASSUME WorldTypeOK, NEW r \in Runs, NEW a \in AssertionClaims,
         NEW scope \in SUBSET Scopes, Redeem(r, a, scope)
  PROVE  tokens' \subseteq
           [grant : [run : Runs, claims : AssertionClaims], access : AccessClaims]
<1> DEFINE grant == [run |-> r, claims |-> a]
           access == [azp |-> a.azp, user |-> a.sub, scope |-> scope]
<1>1. grant \in [run : Runs, claims : AssertionClaims]
  OBVIOUS
<1>2. access \in AccessClaims
  BY DEF AccessClaims, AssertionClaims
<1>3. tokens' = tokens \cup {[grant |-> grant, access |-> access]}
  BY DEF Redeem
<1> QED BY <1>1, <1>2, <1>3 DEF WorldTypeOK

\* A published badge is one the Identity Node can hold.
LEMMA IssueBadgeType ==
  ASSUME WorldTypeOK, NEW subject \in Agents, NEW caps \in SUBSET Capabilities,
         NEW delegatable \in SUBSET Scopes, NEW chain \in Seq(Agents),
         IssueBadge(subject, caps, delegatable, chain)
  PROVE  badges' \subseteq BadgeClaims
BY DEF WorldTypeOK, IssueBadge, BadgeClaims

-----------------------------------------------------------------------------
(* Types: the idioms of the three handlers                                 *)

\* However a step of OpenCode ends, its report stays in its type.
LEMMA OcEndings ==
  ASSUME OcTypeOK, NEW r \in Runs, NEW step \in OcSteps, NEW next \in OcPositions
  PROVE  /\ OcOk(r, step, next) => OcTypeOK'
         /\ OcHalt(r, step) => OcTypeOK'
         /\ OcAnswered(r, step, next) => OcTypeOK'
<1>1. {"ok", "error"} \subseteq Statuses /\ "done" \in OcPositions
  BY DEF Statuses, OcPositions
<1>2. ASSUME OcOk(r, step, next) PROVE OcTypeOK'
  <2>1. OcRecord(r, step, "ok", next) /\ UNCHANGED verdict
    BY <1>2 DEF OcOk
  <2>2. verdict' \in [Runs -> {"none", "ok", "failed"}]
    BY <2>1 DEF OcTypeOK
  <2> QED BY <1>1, <2>1, <2>2, OcRecordType
<1>3. ASSUME OcHalt(r, step) PROVE OcTypeOK'
  <2>1. /\ OcRecord(r, step, "error", "done")
        /\ verdict' \in [Runs -> {"none", "ok", "failed"}]
    BY <1>3 DEF OcHalt, OcTypeOK
  <2> QED BY <1>1, <2>1, OcRecordType
<1> QED BY <1>2, <1>3 DEF OcAnswered

\* Whether a step of OpenCode takes a failure shows in how it ends.
LEMMA OcFaults ==
  ASSUME NEW r, NEW step, NEW next
  PROVE  /\ OcOk(r, step, next) => UNCHANGED faults
         /\ OcRefused(r, step) => UNCHANGED faults /\ OcHalt(r, step)
         /\ OcAnswered(r, step, next) => Fault \/ UNCHANGED faults
BY DEF OcOk, OcRefused, OcAnswered

\* The same of Triage: its report, and the failures taken.
LEMMA TrEndings ==
  ASSUME TrTypeOK, NEW r \in Runs, NEW step \in TrSteps, NEW next \in TrPositions
  PROVE  /\ TrOk(r, step, next) => TrTypeOK' /\ UNCHANGED faults
         /\ TrHalt(r, step) => TrTypeOK'
         /\ TrRefused(r, step) => TrTypeOK' /\ UNCHANGED faults
         /\ TrAnswered(r, step, next) => TrTypeOK' /\ (Fault \/ UNCHANGED faults)
<1>1. {"ok", "error"} \subseteq Statuses /\ "replied" \in TrPositions
  BY DEF Statuses, TrPositions
<1>2. TrOk(r, step, next) => TrTypeOK' /\ UNCHANGED faults
  BY <1>1, TrRecordType DEF TrOk
<1>3. TrHalt(r, step) => TrTypeOK'
  BY <1>1, TrRecordType DEF TrHalt
<1> QED BY <1>2, <1>3 DEF TrRefused, TrAnswered

\* The same of the Sub-Agent.
LEMMA SaEndings ==
  ASSUME SaTypeOK, NEW r \in Runs, NEW step \in SaSteps, NEW next \in SaPositions
  PROVE  /\ SaOk(r, step, next) => SaTypeOK' /\ UNCHANGED faults
         /\ SaHalt(r, step) => SaTypeOK'
         /\ SaRefused(r, step) => SaTypeOK' /\ UNCHANGED faults
         /\ WriteDenied(r, step, next) => SaTypeOK' /\ UNCHANGED faults
<1>1. {"ok", "error", "denied"} \subseteq Statuses /\ "replied" \in SaPositions
  BY DEF Statuses, SaPositions
<1>2. \A status \in Statuses : SaRecord(r, step, status, next) => SaTypeOK'
  BY SaRecordType
<1>3. SaHalt(r, step) => SaTypeOK'
  BY <1>1, SaRecordType DEF SaHalt
<1> QED BY <1>1, <1>2, <1>3 DEF SaOk, SaRefused, WriteDenied

-----------------------------------------------------------------------------
(* Types: OpenCode's steps                                                 *)

\* A step of OpenCode that changes at most its own state, and the world within
\* its types, keeps all the types.
LEMMA OcKeepsTypes ==
  ASSUME TypeOK, OcTypeOK', WorldTypeOK', UNCHANGED <<trVars, saVars>>
  PROVE  TypeOK'
BY DEF TypeOK, TrTypeOK, SaTypeOK, trVars, saVars

\* Nothing shared changes in a step that stays within a handler.
LEMMA WorldKeepsTypes ==
  ASSUME WorldTypeOK, UNCHANGED world, Fault \/ UNCHANGED faults
  PROVE  WorldTypeOK'
BY FaultType DEF WorldTypeOK, world

\* The steps of OpenCode that change nothing but its own report.
LEMMA OcLocalType ==
  ASSUME TypeOK, NEW r \in Runs,
         \/ OcCallFails(r) \/ SignIn(r) \/ BadgeScopeCheck(r) \/ ReadEgressCheck(r)
         \/ FetchSource(r) \/ Plan(r) \/ UseDirectory(r) \/ ExchangeAtA(r)
         \/ EgressCheck(r) \/ TicketLost(r)
  PROVE  TypeOK'
<1>0. OcSteps \subseteq OcPositions /\ OcFatal \subseteq OcSteps
      /\ {"ok", "error", "skipped"} \subseteq Statuses
  BY DEF OcPositions, OcFatal, Statuses
<1>1. OcTypeOK /\ WorldTypeOK
  BY DEF TypeOK
<1>2. CASE OcCallFails(r)
  BY <1>0, <1>1, <1>2, OcEndings, OcKeepsTypes, WorldKeepsTypes DEF OcCallFails, OcPositions
<1>3. CASE SignIn(r)
  BY <1>0, <1>1, <1>3, OcEndings, OcFaults, OcKeepsTypes, WorldKeepsTypes DEF SignIn, OcSteps
<1>4. CASE BadgeScopeCheck(r)
  BY <1>0, <1>1, <1>4, OcEndings, OcFaults, OcKeepsTypes, WorldKeepsTypes
     DEF BadgeScopeCheck, OcSteps
<1>5. CASE ReadEgressCheck(r)
  BY <1>0, <1>1, <1>5, OcEndings, OcFaults, OcKeepsTypes, WorldKeepsTypes
     DEF ReadEgressCheck, OcSteps
<1>6. CASE FetchSource(r)
  BY <1>0, <1>1, <1>6, OcEndings, OcFaults, OcKeepsTypes, WorldKeepsTypes
     DEF FetchSource, OcSteps
<1>7. CASE Plan(r)
  BY <1>0, <1>1, <1>7, OcRecordType, OcKeepsTypes, WorldKeepsTypes
     DEF Plan, OcSteps, OcTypeOK
<1>8. CASE UseDirectory(r)
  BY <1>0, <1>1, <1>8, OcRecordType, OcKeepsTypes, WorldKeepsTypes
     DEF UseDirectory, OcTolerated, OcOk, OcSteps, OcTypeOK
<1>9. CASE ExchangeAtA(r)
  BY <1>0, <1>1, <1>9, OcEndings, OcFaults, OcKeepsTypes, WorldKeepsTypes
     DEF ExchangeAtA, OcSteps
<1>10. CASE EgressCheck(r)
  BY <1>0, <1>1, <1>10, OcEndings, OcFaults, OcKeepsTypes, WorldKeepsTypes
     DEF EgressCheck, OcSteps
<1>11. CASE TicketLost(r)
  BY <1>0, <1>1, <1>11, OcEndings, OcKeepsTypes, WorldKeepsTypes DEF TicketLost, OcSteps
<1> QED BY <1>2, <1>3, <1>4, <1>5, <1>6, <1>7, <1>8, <1>9, <1>10, <1>11

\* The steps of OpenCode that mint, redeem, publish or name a finding.
LEMMA OcWorldType ==
  ASSUME TypeOK, NEW r \in Runs,
         \/ ResolveBadge(r) \/ MintRead(r) \/ RedeemRead(r) \/ Scan(r)
         \/ MintIdJag(r) \/ RedeemAtB(r)
         \/ \E repo \in Repos, cve \in Findings : StartRun(r, repo, cve)
  PROVE  TypeOK'
<1>0. OcSteps \subseteq OcPositions /\ {"ok", "error"} \subseteq Statuses
  BY DEF OcPositions, Statuses
<1>1. OcTypeOK /\ WorldTypeOK
  BY DEF TypeOK
<1>2. /\ <<OpenCode>> \in Seq(Agents)
      /\ OpenCode \in Agents
      /\ {"scan", "remediate", "delegate", "gitea:read"} \subseteq Capabilities
      /\ {"openid", "triage:create"} \subseteq Scopes
      /\ {"openid", "gitea:read"} \subseteq Scopes
  BY DEF Agents, Capabilities, Scopes
<1>3. CASE ResolveBadge(r)
  <2>1. OcTypeOK' /\ (Fault \/ UNCHANGED faults)
    BY <1>0, <1>1, <1>3, OcEndings, OcFaults DEF ResolveBadge, OcSteps
  <2>2. badges' \subseteq BadgeClaims
    BY <1>1, <1>2, <1>3, IssueBadgeType DEF ResolveBadge
  <2>3. WorldTypeOK'
    BY <1>1, <1>3, <2>1, <2>2, FaultType DEF ResolveBadge, WorldTypeOK
  <2> QED BY <1>3, <2>1, <2>3, OcKeepsTypes DEF ResolveBadge
<1>4. CASE MintRead(r)
  <2>1. OcTypeOK' /\ (Fault \/ UNCHANGED faults)
    BY <1>0, <1>1, <1>4, OcEndings, OcFaults DEF MintRead, OcSteps
  <2>2. minted' \subseteq [run : Runs, claims : AssertionClaims]
    BY <1>1, <1>4, MintType, AssertionTypes DEF MintRead
  <2>3. WorldTypeOK'
    BY <1>1, <1>4, <2>1, <2>2, FaultType DEF MintRead, WorldTypeOK
  <2> QED BY <1>4, <2>1, <2>3, OcKeepsTypes DEF MintRead
<1>5. CASE RedeemRead(r)
  <2>1. OcTypeOK' /\ (Fault \/ UNCHANGED faults)
    BY <1>0, <1>1, <1>5, OcEndings, OcFaults DEF RedeemRead, OcSteps
  <2>2. tokens' \subseteq
          [grant : [run : Runs, claims : AssertionClaims], access : AccessClaims]
    BY <1>1, <1>2, <1>5, RedeemType, AssertionTypes DEF RedeemRead
  <2>3. WorldTypeOK'
    BY <1>1, <1>5, <2>1, <2>2, FaultType DEF RedeemRead, WorldTypeOK
  <2> QED BY <1>5, <2>1, <2>3, OcKeepsTypes DEF RedeemRead
<1>6. CASE Scan(r)
  <2>1. OcTypeOK'
    BY <1>0, <1>1, <1>6, OcRecordType DEF Scan, OcSteps, OcTypeOK
  <2>2. WorldTypeOK'
    BY <1>1, <1>6 DEF Scan, WorldTypeOK
  <2> QED BY <1>6, <2>1, <2>2, OcKeepsTypes DEF Scan
<1>7. CASE MintIdJag(r)
  <2>1. OcTypeOK' /\ (Fault \/ UNCHANGED faults)
    BY <1>0, <1>1, <1>7, OcEndings, OcFaults DEF MintIdJag, OcSteps
  <2>2. minted' \subseteq [run : Runs, claims : AssertionClaims]
    BY <1>1, <1>7, MintType, AssertionTypes DEF MintIdJag
  <2>3. WorldTypeOK'
    BY <1>1, <1>7, <2>1, <2>2, FaultType DEF MintIdJag, WorldTypeOK
  <2> QED BY <1>7, <2>1, <2>3, OcKeepsTypes DEF MintIdJag
<1>8. CASE RedeemAtB(r)
  <2>1. OcTypeOK' /\ (Fault \/ UNCHANGED faults)
    BY <1>0, <1>1, <1>8, OcEndings, OcFaults DEF RedeemAtB, OcSteps
  <2>2. tokens' \subseteq
          [grant : [run : Runs, claims : AssertionClaims], access : AccessClaims]
    BY <1>1, <1>2, <1>8, RedeemType, AssertionTypes DEF RedeemAtB
  <2>3. WorldTypeOK'
    BY <1>1, <1>8, <2>1, <2>2, FaultType DEF RedeemAtB, WorldTypeOK
  <2> QED BY <1>8, <2>1, <2>3, OcKeepsTypes DEF RedeemAtB
<1>9. CASE \E repo \in Repos, cve \in Findings : StartRun(r, repo, cve)
  <2>1. PICK repo \in Repos, cve \in Findings : StartRun(r, repo, cve)
    BY <1>9
  <2>2. OcTypeOK' /\ WorldTypeOK'
    BY <1>1, <2>1 DEF StartRun, OcTypeOK, WorldTypeOK, OcPositions, OcSteps
  <2> QED BY <2>1, <2>2, OcKeepsTypes DEF StartRun
<1> QED BY <1>3, <1>4, <1>5, <1>6, <1>7, <1>8, <1>9

\* Sending the ticket, and the ways its answer comes or does not.
LEMMA OcTicketType ==
  ASSUME TypeOK, NEW r \in Runs,
         CreateTicket(r) \/ TicketAnswered(r) \/ TicketAbandoned(r)
  PROVE  TypeOK'
<1>1. OcTypeOK /\ TrTypeOK /\ WorldTypeOK
  BY DEF TypeOK
<1>2. CASE CreateTicket(r)
  <2>1. CASE OcRefused(r, "create-ticket") /\ UNCHANGED trVars
    <3>1. OcTypeOK' /\ UNCHANGED faults
      BY <1>1, <2>1, OcEndings, OcFaults DEF OcSteps, OcPositions
    <3> QED BY <1>1, <1>2, <2>1, <3>1, OcKeepsTypes, WorldKeepsTypes DEF CreateTicket
  <2>2. CASE /\ opc' = [opc EXCEPT ![r] = "await-ticket"]
             /\ tpc' = [tpc EXCEPT ![r] = "verify-idjag"]
             /\ tsteps' = [tsteps EXCEPT ![r]["opa-ingress"] = "ok"]
             /\ UNCHANGED <<osteps, verdict, faults>>
    <3>1. OcTypeOK'
      BY <1>1, <2>2 DEF OcTypeOK, OcPositions
    <3>2. TrTypeOK'
      BY <1>1, <2>2 DEF TrTypeOK, TrPositions, TrSteps, Statuses
    <3>3. SaTypeOK' /\ WorldTypeOK'
      BY <1>1, <1>2, <2>2, WorldKeepsTypes DEF CreateTicket, TypeOK, SaTypeOK, saVars
    <3> QED BY <3>1, <3>2, <3>3 DEF TypeOK
  <2> QED BY <1>2, <2>1, <2>2 DEF CreateTicket
<1>3. ASSUME NEW status \in {"ok", "error"}, NEW nested \in BOOLEAN,
             TicketFinishes(r, status, nested), Fault \/ UNCHANGED faults
      PROVE  TypeOK'
  <2>1. OcTypeOK'
    BY <1>1, <1>3 DEF TicketFinishes, OcTypeOK, OcPositions, OcSteps, Statuses
  <2> QED BY <1>1, <1>3, <2>1, OcKeepsTypes, WorldKeepsTypes DEF TicketFinishes
<1>4. CASE TicketAnswered(r)
  <2>1. NestedOk(r) \in BOOLEAN
    BY DEF NestedOk
  <2> QED BY <1>3, <1>4, <2>1 DEF TicketAnswered
<1>5. CASE TicketAbandoned(r)
  BY <1>3, <1>5 DEF TicketAbandoned
<1> QED BY <1>2, <1>4, <1>5

-----------------------------------------------------------------------------
(* Types: Triage's and the Sub-Agent's steps                               *)

\* A step of Triage leaves the types of the other two handlers alone.
LEMMA TrKeepsTypes ==
  ASSUME TypeOK, TrTypeOK', WorldTypeOK', UNCHANGED <<ocVars, saVars>>
  PROVE  TypeOK'
BY DEF TypeOK, OcTypeOK, SaTypeOK, ocVars, saVars

\* A step of the Sub-Agent leaves the types of the other two handlers alone.
LEMMA SaKeepsTypes ==
  ASSUME TypeOK, SaTypeOK', WorldTypeOK', UNCHANGED <<ocVars, trVars>>
  PROVE  TypeOK'
BY DEF TypeOK, OcTypeOK, TrTypeOK, ocVars, trVars

\* The steps of Triage that change nothing but its own report.
LEMMA TrLocalType ==
  ASSUME TypeOK, NEW r \in Runs,
         \/ TrCallFails(r) \/ VerifyIdJag(r) \/ VerifyOpenCodeBadge(r)
         \/ RegisterTriage(r) \/ SubbadgeScopeCheck(r) \/ UseDirectoryB(r)
         \/ SpawnLost(r) \/ SpawnAnswered(r) \/ SpawnAbandoned(r)
  PROVE  TypeOK'
<1>0. TrFatal \subseteq TrSteps /\ {"ok", "error"} \subseteq Statuses
  BY DEF TrFatal, TrSteps, Statuses
<1>1. TrTypeOK /\ WorldTypeOK
  BY DEF TypeOK
<1>2. ASSUME TrTypeOK', Fault \/ UNCHANGED faults, UNCHANGED <<ocVars, saVars, world>>
      PROVE  TypeOK'
  BY <1>1, <1>2, TrKeepsTypes, WorldKeepsTypes
<1>3. CASE TrCallFails(r)
  BY <1>0, <1>1, <1>2, <1>3, TrEndings DEF TrCallFails, TrPositions
<1>4. CASE VerifyIdJag(r)
  BY <1>1, <1>2, <1>4, TrEndings DEF VerifyIdJag, TrSteps, TrPositions
<1>5. CASE VerifyOpenCodeBadge(r)
  BY <1>1, <1>2, <1>5, TrEndings DEF VerifyOpenCodeBadge, TrSteps, TrPositions
<1>6. CASE RegisterTriage(r)
  BY <1>1, <1>2, <1>6, TrEndings DEF RegisterTriage, TrSteps, TrPositions
<1>7. CASE SubbadgeScopeCheck(r)
  BY <1>1, <1>2, <1>7, TrEndings DEF SubbadgeScopeCheck, TrSteps, TrPositions
<1>8. CASE UseDirectoryB(r)
  BY <1>0, <1>1, <1>2, <1>8, TrEndings, TrRecordType
     DEF UseDirectoryB, TrSteps, TrPositions
<1>9. CASE SpawnLost(r)
  BY <1>0, <1>1, <1>2, <1>9, TrRecordType DEF SpawnLost, TrSteps, TrPositions
<1>10. ASSUME NEW status \in {"ok", "error"}, SpawnFinishes(r, status)
       PROVE  TrTypeOK' /\ UNCHANGED <<ocVars, saVars, world>>
  BY <1>1, <1>10 DEF SpawnFinishes, TrTypeOK, TrPositions, TrSteps, Statuses
<1>11. CASE SpawnAnswered(r)
  BY <1>2, <1>10, <1>11 DEF SpawnAnswered
<1>12. CASE SpawnAbandoned(r)
  BY <1>2, <1>10, <1>12 DEF SpawnAbandoned
<1> QED BY <1>3, <1>4, <1>5, <1>6, <1>7, <1>8, <1>9, <1>11, <1>12

\* The steps of Triage that publish, mint or spawn.
LEMMA TrWorldType ==
  ASSUME TypeOK, NEW r \in Runs, TriageBadge(r) \/ MintSubBadge(r) \/ SpawnSubAgent(r)
  PROVE  TypeOK'
<1>1. TrTypeOK /\ SaTypeOK /\ WorldTypeOK
  BY DEF TypeOK
<1>2. CASE TriageBadge(r)
  <2>1. TrTypeOK' /\ (Fault \/ UNCHANGED faults)
    <3>1. CASE TrHalt(r, "resolve-badge") /\ Fault
      BY <1>1, <3>1, TrEndings DEF TrSteps, TrPositions
    <3>2. CASE /\ tpc' = [tpc EXCEPT ![r] = "mint-sub-badge"]
               /\ tsteps' = [tsteps EXCEPT ![r]["resolve-badge"] = "ok",
                                           ![r]["plan"] = "ok"]
               /\ UNCHANGED faults
      BY <1>1, <3>2 DEF TrTypeOK, TrSteps, TrPositions, Statuses
    <3> QED BY <1>2, <3>1, <3>2 DEF TriageBadge
  <2>2. badges' \subseteq BadgeClaims
    <3>1. /\ Triage \in Agents /\ SubChain(r) \in Seq(Agents)
          /\ TriageAssertion(r).scope \subseteq Capabilities
          /\ SubbadgeScope \subseteq Scopes
      BY <1>1, AssertionTypes
         DEF Agents, TriageAssertion, SubbadgeScope, Capabilities, Scopes
    <3> QED BY <1>1, <1>2, <3>1, IssueBadgeType DEF TriageBadge
  <2>3. WorldTypeOK'
    BY <1>1, <1>2, <2>1, <2>2, FaultType DEF TriageBadge, WorldTypeOK
  <2> QED BY <1>2, <2>1, <2>3, TrKeepsTypes DEF TriageBadge
<1>3. CASE MintSubBadge(r)
  <2>1. TrTypeOK' /\ (Fault \/ UNCHANGED faults)
    BY <1>1, <1>3, TrEndings DEF MintSubBadge, TrSteps, TrPositions
  <2>2. minted' \subseteq [run : Runs, claims : AssertionClaims]
    BY <1>1, <1>3, MintType, AssertionTypes DEF MintSubBadge
  <2>3. WorldTypeOK'
    BY <1>1, <1>3, <2>1, <2>2, FaultType DEF MintSubBadge, WorldTypeOK
  <2> QED BY <1>3, <2>1, <2>3, TrKeepsTypes DEF MintSubBadge
<1>4. CASE SpawnSubAgent(r)
  <2>1. TrTypeOK' /\ SaTypeOK'
    BY <1>1, <1>4 DEF SpawnSubAgent, TrTypeOK, SaTypeOK, TrPositions, TrSteps,
                      SaPositions, SaSteps
  <2>2. OcTypeOK' /\ WorldTypeOK'
    BY <1>1, <1>4, WorldKeepsTypes DEF SpawnSubAgent, TypeOK, OcTypeOK, ocVars
  <2> QED BY <2>1, <2>2 DEF TypeOK
<1> QED BY <1>2, <1>3, <1>4

\* The steps of the Sub-Agent that change nothing but its own report.
LEMMA SaLocalType ==
  ASSUME TypeOK, NEW r \in Runs,
         \/ SaCallFails(r) \/ VerifySubBadge(r) \/ RegisterSubAgent(r)
         \/ VerifyTriageBadge(r) \/ WriteAnswered(r) \/ WriteFails(r) \/ Conclude(r)
  PROVE  TypeOK'
<1>0. SaFatal \subseteq SaSteps /\ {"ok", "error"} \subseteq Statuses
  BY DEF SaFatal, SaSteps, Statuses
<1>1. SaTypeOK /\ WorldTypeOK
  BY DEF TypeOK
<1>2. ASSUME SaTypeOK', Fault \/ UNCHANGED faults, UNCHANGED <<ocVars, trVars, world>>
      PROVE  TypeOK'
  BY <1>1, <1>2, SaKeepsTypes, WorldKeepsTypes
<1>3. CASE SaCallFails(r)
  BY <1>0, <1>1, <1>2, <1>3, SaEndings DEF SaCallFails, SaPositions
<1>4. CASE VerifySubBadge(r)
  BY <1>1, <1>2, <1>4, SaEndings DEF VerifySubBadge, SaSteps, SaPositions
<1>5. CASE RegisterSubAgent(r)
  BY <1>1, <1>2, <1>5, SaEndings DEF RegisterSubAgent, SaSteps, SaPositions
<1>6. CASE VerifyTriageBadge(r)
  BY <1>1, <1>2, <1>6, SaEndings DEF VerifyTriageBadge, SaSteps, SaPositions
<1>7. CASE WriteFails(r)
  BY <1>0, <1>1, <1>2, <1>7, SaRecordType, SaReportType
     DEF WriteFails, SaSteps, SaPositions
<1>8. CASE Conclude(r)
  <2>1. SaTypeOK'
    BY <1>1, <1>8 DEF Conclude, SaTypeOK, SaSteps, SaPositions, Statuses
  <2> QED BY <1>2, <1>8, <2>1 DEF Conclude
<1>9. CASE WriteAnswered(r)
  BY <1>0, <1>1, <1>2, <1>9, SaReportType DEF WriteAnswered, SaSteps, SaPositions
<1> QED BY <1>3, <1>4, <1>5, <1>6, <1>7, <1>8, <1>9

\* The steps of the Sub-Agent that publish, redeem or write.
LEMMA SaWorldType ==
  ASSUME TypeOK, NEW r \in Runs,
         \/ SubAgentBadge(r) \/ RedeemSubBadge(r) \/ PushFile(r) \/ OpenPr(r)
         \/ \E repo \in ProtectedRepos : DeniedPrAttempt(r, repo)
  PROVE  TypeOK'
<1>1. SaTypeOK /\ WorldTypeOK
  BY DEF TypeOK
<1>2. CASE SubAgentBadge(r)
  <2>1. SaTypeOK' /\ (Fault \/ UNCHANGED faults)
    BY <1>1, <1>2, SaEndings DEF SubAgentBadge, SaSteps, SaPositions
  <2>2. badges' \subseteq BadgeClaims
    <3>1. /\ SubAgent \in Agents /\ Spawn(r).chain \in Seq(Agents)
          /\ SubBadge(r).scope \subseteq Capabilities
          /\ {} \subseteq Scopes
      BY <1>1, AssertionTypes DEF Agents, SubBadge, SubbadgeScope, Capabilities, Scopes
    <3> QED BY <1>1, <1>2, <3>1, IssueBadgeType DEF SubAgentBadge
  <2>3. WorldTypeOK'
    BY <1>1, <1>2, <2>1, <2>2, FaultType DEF SubAgentBadge, WorldTypeOK
  <2> QED BY <1>2, <2>1, <2>3, SaKeepsTypes DEF SubAgentBadge
<1>3. CASE RedeemSubBadge(r)
  <2>1. SaTypeOK' /\ (Fault \/ UNCHANGED faults)
    <3>1. CASE SaHalt(r, "kc-b-exchange") /\ Fault
      BY <1>1, <3>1, SaEndings DEF SaSteps, SaPositions
    <3>2. CASE /\ spc' = [spc EXCEPT ![r] = "push-file"]
               /\ ssteps' = [ssteps EXCEPT ![r]["kc-b-exchange"] = "ok",
                                           ![r]["idjag-gitea"] = "ok"]
               /\ UNCHANGED faults
      BY <1>1, <3>2 DEF SaTypeOK, SaSteps, SaPositions, Statuses
    <3> QED BY <1>3, <3>1, <3>2 DEF RedeemSubBadge
  <2>2. tokens' \subseteq
          [grant : [run : Runs, claims : AssertionClaims], access : AccessClaims]
    <3>1. {"openid", "gitea:write", "gitea:pr"} \subseteq Scopes
      BY DEF Scopes
    <3> QED BY <1>1, <1>3, <3>1, RedeemType, AssertionTypes DEF RedeemSubBadge
  <2>3. WorldTypeOK'
    BY <1>1, <1>3, <2>1, <2>2, FaultType DEF RedeemSubBadge, WorldTypeOK
  <2> QED BY <1>3, <2>1, <2>3, SaKeepsTypes DEF RedeemSubBadge
<1>4. Spawn(r).repo \in Repos
  BY <1>1 DEF WorldTypeOK, Spawn, Ticket
<1>5. ASSUME NEW position \in SaPositions,
             spc' = [spc EXCEPT ![r] = position] /\ UNCHANGED ssteps
      PROVE  SaTypeOK'
  BY <1>1, <1>5 DEF SaTypeOK
<1>6. CASE PushFile(r)
  <2>1. SaTypeOK' /\ UNCHANGED faults
    BY <1>1, <1>5, <1>6, SaEndings DEF PushFile, SaSteps, SaPositions
  <2>2. sent' \subseteq [run : Runs, action : {"push-file", "open-pr"}, repo : Repos]
    BY <1>1, <1>4, <1>6, PassOnType DEF PushFile, WriteRequest
  <2>3. WorldTypeOK'
    BY <1>1, <1>6, <2>1, <2>2 DEF PushFile, WorldTypeOK
  <2> QED BY <1>6, <2>1, <2>3, SaKeepsTypes DEF PushFile
<1>7. CASE OpenPr(r)
  <2>1. SaTypeOK' /\ UNCHANGED faults
    BY <1>1, <1>5, <1>7, SaEndings DEF OpenPr, SaSteps, SaPositions
  <2>2. sent' \subseteq [run : Runs, action : {"push-file", "open-pr"}, repo : Repos]
    BY <1>1, <1>4, <1>7, PassOnType DEF OpenPr, WriteRequest
  <2>3. WorldTypeOK'
    BY <1>1, <1>7, <2>1, <2>2 DEF OpenPr, WorldTypeOK
  <2> QED BY <1>7, <2>1, <2>3, SaKeepsTypes DEF OpenPr
<1>8. CASE \E repo \in ProtectedRepos : DeniedPrAttempt(r, repo)
  <2>1. PICK repo \in Repos : DeniedPrAttempt(r, repo)
    BY <1>8, RepoAssumption
  <2>2. SaTypeOK' /\ UNCHANGED faults
    BY <1>1, <2>1, SaEndings, SaRecordType
       DEF DeniedPrAttempt, SaSteps, SaPositions, Statuses
  <2>3. sent' \subseteq [run : Runs, action : {"push-file", "open-pr"}, repo : Repos]
    BY <1>1, <2>1, PassOnType DEF DeniedPrAttempt, WriteRequest
  <2>4. WorldTypeOK'
    BY <1>1, <2>1, <2>2, <2>3 DEF DeniedPrAttempt, WorldTypeOK
  <2> QED BY <2>1, <2>2, <2>4, SaKeepsTypes DEF DeniedPrAttempt
<1> QED BY <1>2, <1>3, <1>6, <1>7, <1>8

\* What Gitea carries out has the run and the repository of a call it was given.
LEMMA GiteaType ==
  ASSUME TypeOK, NEW call \in sent, GiteaWrites(call)
  PROVE  TypeOK'
<1>1. /\ OcTypeOK' /\ TrTypeOK' /\ SaTypeOK'
  BY DEF TypeOK, GiteaWrites, OcTypeOK, TrTypeOK, SaTypeOK, ocVars, trVars, saVars
<1>2. [run |-> call.run, repo |-> call.repo] \in [run : Runs, repo : Repos]
  BY DEF TypeOK, WorldTypeOK
<1>3. WorldTypeOK'
  BY <1>2 DEF TypeOK, GiteaWrites, WorldTypeOK
<1> QED BY <1>1, <1>3 DEF TypeOK

-----------------------------------------------------------------------------
(* Types: the whole specification                                          *)

\* The system starts in its types.
LEMMA InitType == Init => TypeOK
<1> SUFFICES ASSUME Init PROVE TypeOK
  OBVIOUS
<1>1. OcTypeOK
  BY DEF Init, OcInit, OcTypeOK, OcPositions, Statuses
<1>2. TrTypeOK
  BY DEF Init, TrInit, TrTypeOK, TrPositions, Statuses
<1>3. SaTypeOK
  BY DEF Init, SaInit, SaTypeOK, SaPositions, Statuses
<1>4. WorldTypeOK
  <2>1. /\ (CHOOSE repo \in Repos : TRUE) \in Repos
        /\ (CHOOSE cve \in Findings : TRUE) \in Findings
    BY RepoAssumption, FindingAssumption
  <2> QED BY <2>1, FaultAssumption DEF Init, WorldTypeOK
<1> QED BY <1>1, <1>2, <1>3, <1>4 DEF TypeOK

\* A crash puts handlers into a position they have, and takes one failure.
LEMMA CrashType == TypeOK /\ Crash => TypeOK'
<1> SUFFICES ASSUME TypeOK, Crash PROVE TypeOK'
  OBVIOUS
<1>1. OcTypeOK /\ TrTypeOK /\ SaTypeOK /\ WorldTypeOK
  BY DEF TypeOK
<1>2. CASE OpenCodeCrash
  <2>1. OcTypeOK'
    BY <1>1, <1>2 DEF OpenCodeCrash, OcTypeOK, OcPositions
  <2> QED BY <1>1, <1>2, <2>1, OcKeepsTypes, WorldKeepsTypes DEF OpenCodeCrash
<1>3. CASE TriageCrash
  <2>1. TrTypeOK'
    BY <1>1, <1>3 DEF TriageCrash, TrTypeOK, TrPositions
  <2> QED BY <1>1, <1>3, <2>1, TrKeepsTypes, WorldKeepsTypes DEF TriageCrash
<1>4. CASE SubAgentCrash
  <2>1. SaTypeOK'
    BY <1>1, <1>4 DEF SubAgentCrash, SaTypeOK, SaPositions
  <2> QED BY <1>1, <1>4, <2>1, SaKeepsTypes, WorldKeepsTypes DEF SubAgentCrash
<1> QED BY <1>2, <1>3, <1>4 DEF Crash

\* Every step stays in the types.
LEMMA StepType == TypeOK /\ [Next]_vars => TypeOK'
<1> SUFFICES ASSUME TypeOK, [Next]_vars PROVE TypeOK'
  OBVIOUS
<1>1. CASE \E r \in Runs : OcNext(r)
  BY <1>1, OcLocalType, OcWorldType, OcTicketType DEF OcNext
<1>2. CASE \E r \in Runs : TrNext(r)
  BY <1>2, TrLocalType, TrWorldType DEF TrNext
<1>3. CASE \E r \in Runs : SaNext(r)
  BY <1>3, SaLocalType, SaWorldType DEF SaNext
<1>4. CASE Crash
  BY <1>4, CrashType
<1>5. CASE UNCHANGED vars
  BY <1>5 DEF TypeOK, OcTypeOK, TrTypeOK, SaTypeOK, WorldTypeOK,
              vars, ocVars, trVars, saVars, world
<1>6. CASE \E call \in sent : GiteaWrites(call)
  BY <1>6, GiteaType
<1> QED BY <1>1, <1>2, <1>3, <1>4, <1>5, <1>6 DEF Next, Rest

\* Whatever the runs, the repositories and the failures, every position, status,
\* assertion, token and badge of the three handlers stays within its type.
THEOREM TypeCorrect == Spec => []TypeOK
<1>1. Init => TypeOK
  BY InitType
<1>2. TypeOK /\ [Next]_vars => TypeOK'
  BY StepType
<1> QED BY <1>1, <1>2, PTL DEF Spec

-----------------------------------------------------------------------------
(***************************************************************************)
(* Approval.  HaltedRunsHaveNoEffect and WritesFollowApproval relate a run *)
(* that is over, or its writes, to steps three handlers recorded earlier.  *)
(* Neither is inductive: RunInv adds how far each handler has come when    *)
(* the next one works, and what its report says from each position on.     *)
(***************************************************************************)

OcUpToScope  == {"idle", "sarah-login", "cimd-generate-id", "cimd-resolve-id",
                 "badge-scope-check"}
OcUpToRead   == OcUpToScope \cup {"resolve-badge", "mint-read-idjag",
                                  "read-egress-check"}
OcUpToFetch  == OcUpToRead \cup {"kc-b-read-exchange", "fetch-source"}
OcUpToEgress == OcUpToFetch \cup {"scan", "opencode-plan", "dir-push", "dir-search",
                                  "kc-a-exchange", "mint-idjag", "egress-check"}
OcEnded == {"done", "crashed"}

TrUpToIdJag  == {"idle", "verify-idjag"}
TrUpToSender == TrUpToIdJag \cup {"verify-sender-badge"}
TrUpToScope  == TrUpToSender \cup {"cimd-generate-id", "cimd-resolve-id",
                                   "subbadge-scope-check"}
TrEnded == {"replied", "crashed"}

SaUpToSubBadge == {"idle", "verify-subbadge"}
SaUpToSender   == SaUpToSubBadge \cup {"cimd-generate-id", "cimd-resolve-id",
                                       "resolve-badge", "verify-sender-badge"}
SaEnded == {"replied", "crashed"}

\* What a run has asked of Gitea, carried out or not.
Effect(r) == \E call \in sent : call.run = r

\* A handler works only after its caller has called it; a run that failed is
\* over, and one that failed before its ticket was sent called nobody.
CallOrder(r) ==
  /\ tpc[r] # "idle" => opc[r] \in {"await-ticket", "done", "crashed"}
  /\ tpc[r] # "idle" /\ opc[r] = "done" => osteps[r]["create-ticket"] # "none"
  /\ spc[r] # "idle" => tpc[r] \in {"await-sub-agent", "replied", "crashed"}
  /\ Effect(r) => spc[r] \notin SaUpToSender \cup {"kc-b-exchange"}
  /\ verdict[r] = "failed" => opc[r] = "done"

\* From each position on, the report shows the approvals that lie behind it.
OcApprovals(r) ==
  /\ opc[r] \notin OcUpToScope \cup OcEnded => osteps[r]["badge-scope-check"] = "ok"
  /\ opc[r] \notin OcUpToRead \cup OcEnded => osteps[r]["read-egress-check"] = "ok"
  /\ opc[r] \notin OcUpToFetch \cup OcEnded => osteps[r]["fetch-source"] = "ok"
  /\ opc[r] \notin OcUpToEgress \cup OcEnded => osteps[r]["egress-check"] = "ok"
  /\ tpc[r] # "idle" =>
       \A s \in {"badge-scope-check", "read-egress-check", "fetch-source",
                 "egress-check"} : osteps[r][s] = "ok"

TrApprovals(r) ==
  /\ tpc[r] \notin TrUpToIdJag \cup TrEnded => tsteps[r]["verify-idjag"] = "ok"
  /\ tpc[r] \notin TrUpToSender \cup TrEnded => tsteps[r]["verify-sender-badge"] = "ok"
  /\ tpc[r] \notin TrUpToScope \cup TrEnded => tsteps[r]["subbadge-scope-check"] = "ok"
  /\ spc[r] # "idle" =>
       \A s \in {"verify-idjag", "verify-sender-badge", "subbadge-scope-check"} :
         tsteps[r][s] = "ok"

SaApprovals(r) ==
  /\ spc[r] \notin SaUpToSubBadge \cup SaEnded => ssteps[r]["verify-subbadge"] = "ok"
  /\ spc[r] \notin SaUpToSender \cup SaEnded => ssteps[r]["verify-sender-badge"] = "ok"
  /\ Effect(r) =>
       \A s \in {"verify-subbadge", "verify-sender-badge"} : ssteps[r][s] = "ok"

RunInv(r) == CallOrder(r) /\ OcApprovals(r) /\ TrApprovals(r) /\ SaApprovals(r)

\* Nothing is in Gitea that it was not asked for.
WritesWereSent ==
  /\ \A b \in branches : WriteCall(b.run, "push-file", b.repo) \in sent
  /\ \A p \in pulls : WriteCall(p.run, "open-pr", p.repo) \in sent

IInv == TypeOK /\ WritesWereSent /\ \A r \in Runs : RunInv(r)

\* At the start nobody has called anybody and nothing is written.
LEMMA InitRunInv == Init => IInv
<1>0. Init => WritesWereSent
  BY DEF Init, WritesWereSent
<1> SUFFICES ASSUME Init, NEW r \in Runs PROVE RunInv(r)
  BY <1>0, InitType DEF IInv
<1>1. ~Effect(r)
  BY DEF Init, Effect
<1> QED
  BY <1>1 DEF Init, OcInit, TrInit, SaInit, RunInv, CallOrder, OcApprovals, TrApprovals,
              SaApprovals, OcUpToScope, OcUpToRead, OcUpToFetch, OcUpToEgress,
              TrUpToIdJag, TrUpToSender, TrUpToScope, SaUpToSubBadge, SaUpToSender

\* The run's state, as its handlers see it, is the same after the step.
Untouched(r) ==
  /\ opc'[r] = opc[r] /\ osteps'[r] = osteps[r] /\ verdict'[r] = verdict[r]
  /\ tpc'[r] = tpc[r] /\ tsteps'[r] = tsteps[r]
  /\ spc'[r] = spc[r] /\ ssteps'[r] = ssteps[r]
  /\ Effect(r)' <=> Effect(r)

\* A run that a step leaves alone keeps its invariant.
LEMMA UntouchedKeeps ==
  ASSUME NEW r \in Runs, RunInv(r), Untouched(r)
  PROVE  RunInv(r)'
BY DEF Untouched, RunInv, CallOrder, OcApprovals, TrApprovals, SaApprovals

\* A step of one run's handlers leaves the other runs alone.
LEMMA OthersUntouched ==
  ASSUME TypeOK, NEW r \in Runs, NEW other \in Runs, other # r,
         OcNext(r) \/ TrNext(r) \/ SaNext(r)
  PROVE  Untouched(other)
<1>0. OcTypeOK /\ TrTypeOK /\ SaTypeOK
  BY DEF TypeOK
<1>1. CASE OcNext(r)
  <2>1. UNCHANGED <<saVars, sent>>
    BY <1>1 DEF OcNext, StartRun, OcCallFails, SignIn, BadgeScopeCheck, ResolveBadge,
         MintRead, ReadEgressCheck, RedeemRead, FetchSource, Scan, Plan, UseDirectory,
         ExchangeAtA, MintIdJag, EgressCheck, RedeemAtB, CreateTicket, TicketLost,
         TicketAnswered, TicketAbandoned, TicketFinishes, world, trVars, saVars
  <2>2. opc'[other] = opc[other] /\ osteps'[other] = osteps[other]
        /\ verdict'[other] = verdict[other]
    BY <1>0, <1>1 DEF OcNext, StartRun, OcCallFails, SignIn, BadgeScopeCheck,
         ResolveBadge, MintRead, ReadEgressCheck, RedeemRead, FetchSource, Scan, Plan,
         UseDirectory, ExchangeAtA, MintIdJag, EgressCheck, RedeemAtB, CreateTicket,
         TicketLost, TicketAnswered, TicketAbandoned, TicketFinishes, OcAnswered,
         OcTolerated, OcOk, OcRefused, OcHalt, OcRecord, OcTypeOK
  <2>3. tpc'[other] = tpc[other] /\ tsteps'[other] = tsteps[other]
    BY <1>0, <1>1 DEF OcNext, StartRun, OcCallFails, SignIn, BadgeScopeCheck,
         ResolveBadge, MintRead, ReadEgressCheck, RedeemRead, FetchSource, Scan, Plan,
         UseDirectory, ExchangeAtA, MintIdJag, EgressCheck, RedeemAtB, CreateTicket,
         TicketLost, TicketAnswered, TicketAbandoned, TicketFinishes, TrTypeOK, trVars
  <2> QED BY <2>1, <2>2, <2>3 DEF Untouched, Effect, saVars
<1>2. CASE TrNext(r)
  <2>1. UNCHANGED <<ocVars, sent>>
    BY <1>2 DEF TrNext, TrCallFails, VerifyIdJag, VerifyOpenCodeBadge, RegisterTriage,
         SubbadgeScopeCheck, TriageBadge, MintSubBadge, UseDirectoryB, SpawnSubAgent,
         SpawnLost, SpawnAnswered, SpawnAbandoned, SpawnFinishes, world, ocVars
  <2>2. tpc'[other] = tpc[other] /\ tsteps'[other] = tsteps[other]
    BY <1>0, <1>2 DEF TrNext, TrCallFails, VerifyIdJag, VerifyOpenCodeBadge,
         RegisterTriage, SubbadgeScopeCheck, TriageBadge, MintSubBadge, UseDirectoryB,
         SpawnSubAgent, SpawnLost, SpawnAnswered, SpawnAbandoned, SpawnFinishes,
         TrAnswered, TrOk, TrRefused, TrHalt, TrRecord, TrTypeOK
  <2>3. spc'[other] = spc[other] /\ ssteps'[other] = ssteps[other]
    BY <1>0, <1>2 DEF TrNext, TrCallFails, VerifyIdJag, VerifyOpenCodeBadge,
         RegisterTriage, SubbadgeScopeCheck, TriageBadge, MintSubBadge, UseDirectoryB,
         SpawnSubAgent, SpawnLost, SpawnAnswered, SpawnAbandoned, SpawnFinishes,
         SaTypeOK, saVars
  <2> QED BY <2>1, <2>2, <2>3 DEF Untouched, Effect, ocVars
<1>3. CASE SaNext(r)
  <2>1. UNCHANGED <<ocVars, trVars>>
    BY <1>3 DEF SaNext, SaCallFails, VerifySubBadge, RegisterSubAgent, SubAgentBadge,
         VerifyTriageBadge, RedeemSubBadge, WriteAnswered, WriteFails, PushFile, OpenPr,
         DeniedPrAttempt, Conclude, ocVars, trVars
  <2>2. spc'[other] = spc[other] /\ ssteps'[other] = ssteps[other]
    BY <1>0, <1>3 DEF SaNext, SaCallFails, VerifySubBadge, RegisterSubAgent,
         SubAgentBadge, VerifyTriageBadge, RedeemSubBadge, WriteAnswered, WriteFails,
         PushFile, OpenPr, DeniedPrAttempt, Conclude, WriteDenied, SaOk, SaRefused,
         SaHalt, SaRecord, SaReport, SaTypeOK
  <2>3. Effect(other)' <=> Effect(other)
    BY <1>3 DEF SaNext, SaCallFails, VerifySubBadge, RegisterSubAgent, SubAgentBadge,
         VerifyTriageBadge, RedeemSubBadge, WriteAnswered, WriteFails, PushFile, OpenPr,
         DeniedPrAttempt, Conclude, PassOn, WriteCall, world, Effect
  <2> QED BY <2>1, <2>2, <2>3 DEF Untouched, ocVars, trVars
<1> QED BY <1>1, <1>2, <1>3

\* Going from step to next passes no approval but one that step itself records.
Advances(step, status, next) ==
  /\ next \notin OcUpToScope \cup OcEnded =>
       step \notin OcUpToScope \/ (step = "badge-scope-check" /\ status = "ok")
  /\ next \notin OcUpToRead \cup OcEnded =>
       step \notin OcUpToRead \/ (step = "read-egress-check" /\ status = "ok")
  /\ next \notin OcUpToFetch \cup OcEnded =>
       step \notin OcUpToFetch \/ (step = "fetch-source" /\ status = "ok")
  /\ next \notin OcUpToEgress \cup OcEnded =>
       step \notin OcUpToEgress \/ (step = "egress-check" /\ status = "ok")

\* OpenCode records the outcome of the step it is at: then the approvals behind
\* its new position are those behind the old one and the new outcome.
LEMMA OcRecordKeeps ==
  ASSUME TypeOK, NEW r \in Runs, RunInv(r), NEW step \in OcSteps \ {"create-ticket"},
         NEW status \in Statuses, NEW next \in OcPositions,
         OcRecord(r, step, status, next), UNCHANGED <<trVars, saVars, sent>>,
         UNCHANGED verdict \/ next = "done",
         Advances(step, status, next)
  PROVE  RunInv(r)'
<1>0. OcTypeOK
  BY DEF TypeOK
<1>1. /\ opc[r] = step /\ opc'[r] = next
      /\ osteps'[r] = [osteps[r] EXCEPT ![step] = status]
      /\ osteps[r] \in [OcSteps -> Statuses]
  BY <1>0 DEF OcRecord, OcTypeOK
<1>2. tpc[r] = "idle" /\ spc[r] = "idle" /\ ~Effect(r)
  BY <1>1 DEF RunInv, CallOrder, OcSteps, SaUpToSender, SaUpToSubBadge
<1>3. tpc'[r] = "idle" /\ spc'[r] = "idle" /\ ~Effect(r)'
      /\ tsteps' = tsteps /\ ssteps' = ssteps
  BY <1>2 DEF trVars, saVars, Effect
<1>4. verdict'[r] = "failed" => opc'[r] = "done"
  BY <1>1 DEF RunInv, CallOrder, OcSteps
<1>5. OcApprovals(r)'
  BY <1>1, <1>3 DEF Advances, RunInv, OcApprovals, OcUpToScope, OcUpToRead, OcUpToFetch,
     OcUpToEgress, OcEnded, OcSteps
<1> QED
  BY <1>2, <1>3, <1>4, <1>5
     DEF RunInv, CallOrder, TrApprovals, SaApprovals, TrUpToIdJag, TrUpToSender,
         TrUpToScope, SaUpToSubBadge, SaUpToSender

\* A run may be given up at any step before the ticket.
LEMMA OcHaltKeeps ==
  ASSUME TypeOK, NEW r \in Runs, RunInv(r), NEW step \in OcSteps \ {"create-ticket"},
         OcHalt(r, step), UNCHANGED <<trVars, saVars, sent>>
  PROVE  RunInv(r)'
<1>1. OcRecord(r, step, "error", "done")
  BY DEF OcHalt
<1>2. "error" \in Statuses /\ "done" \in OcPositions /\ Advances(step, "error", "done")
  BY DEF Statuses, OcPositions, OcEnded, Advances
<1> QED BY <1>1, <1>2, OcRecordKeeps

\* The steps of OpenCode before the ticket.
LEMMA OcOwnStep ==
  ASSUME TypeOK, NEW r \in Runs, RunInv(r),
         \/ OcCallFails(r) \/ SignIn(r) \/ BadgeScopeCheck(r) \/ ResolveBadge(r)
         \/ MintRead(r) \/ ReadEgressCheck(r) \/ RedeemRead(r) \/ FetchSource(r)
         \/ Scan(r) \/ Plan(r) \/ UseDirectory(r) \/ ExchangeAtA(r) \/ MintIdJag(r)
         \/ EgressCheck(r) \/ RedeemAtB(r)
  PROVE  RunInv(r)'
<1> DEFINE Inner == OcSteps \ {"create-ticket"}
<1>0. OcFatal \subseteq Inner
  BY DEF OcFatal
<1>1. ASSUME NEW step \in Inner, NEW next \in OcPositions, NEW status \in Statuses,
             OcRecord(r, step, status, next), UNCHANGED verdict,
             UNCHANGED <<trVars, saVars, sent>>, Advances(step, status, next)
      PROVE  RunInv(r)'
  BY <1>1, OcRecordKeeps
<1>2. CASE OcCallFails(r)
  BY <1>0, <1>2, OcHaltKeeps DEF OcCallFails, world
<1>3. CASE SignIn(r)
  BY <1>1, <1>3, OcHaltKeeps
     DEF SignIn, OcOk, OcSteps, OcPositions, Statuses, world,
         OcUpToScope, OcUpToRead, OcUpToFetch, OcUpToEgress, OcEnded, Advances
<1>4. CASE BadgeScopeCheck(r)
  BY <1>1, <1>4, OcHaltKeeps
     DEF BadgeScopeCheck, OcRefused, OcOk, OcSteps, OcPositions, Statuses, world,
         OcUpToScope, OcUpToRead, OcUpToFetch, OcUpToEgress, OcEnded, Advances
<1>5. CASE ResolveBadge(r)
  BY <1>1, <1>5, OcHaltKeeps
     DEF ResolveBadge, OcAnswered, OcOk, OcSteps, OcPositions, Statuses, world,
         OcUpToScope, OcUpToRead, OcUpToFetch, OcUpToEgress, OcEnded, Advances
<1>6. CASE MintRead(r)
  BY <1>1, <1>6, OcHaltKeeps
     DEF MintRead, OcAnswered, OcRefused, OcOk, OcSteps, OcPositions, Statuses, world,
         OcUpToScope, OcUpToRead, OcUpToFetch, OcUpToEgress, OcEnded, Advances
<1>7. CASE ReadEgressCheck(r)
  BY <1>1, <1>7, OcHaltKeeps
     DEF ReadEgressCheck, OcRefused, OcOk, OcSteps, OcPositions, Statuses, world,
         OcUpToScope, OcUpToRead, OcUpToFetch, OcUpToEgress, OcEnded, Advances
<1>8. CASE RedeemRead(r)
  BY <1>1, <1>8, OcHaltKeeps
     DEF RedeemRead, OcAnswered, OcOk, OcSteps, OcPositions, Statuses, world,
         OcUpToScope, OcUpToRead, OcUpToFetch, OcUpToEgress, OcEnded, Advances
<1>9. CASE FetchSource(r)
  BY <1>1, <1>9, OcHaltKeeps
     DEF FetchSource, OcRefused, OcOk, OcSteps, OcPositions, Statuses, world,
         OcUpToScope, OcUpToRead, OcUpToFetch, OcUpToEgress, OcEnded, Advances
<1>10. ASSUME NEW step \in {"scan", "opencode-plan", "dir-push", "dir-search"},
              NEW next \in {"opencode-plan", "dir-push", "dir-search", "kc-a-exchange"},
              NEW status \in {"ok", "error", "skipped"},
              OcRecord(r, step, status, next), UNCHANGED verdict,
              UNCHANGED <<trVars, saVars, sent>>
       PROVE  RunInv(r)'
  <2>1. step \in Inner /\ next \in OcPositions /\ status \in Statuses
    BY <1>10 DEF OcSteps, OcPositions, Statuses
  <2>2. Advances(step, status, next)
    BY <1>10 DEF Advances, OcUpToScope, OcUpToRead, OcUpToFetch, OcUpToEgress
  <2> QED BY <1>1, <1>10, <2>1, <2>2
<1>11. CASE Scan(r)
  BY <1>10, <1>11 DEF Scan
<1>12. CASE Plan(r)
  BY <1>10, <1>12 DEF Plan, world
<1>13. CASE UseDirectory(r)
  BY <1>10, <1>13 DEF UseDirectory, OcTolerated, OcOk, world
<1>14. CASE ExchangeAtA(r)
  BY <1>1, <1>14, OcHaltKeeps
     DEF ExchangeAtA, OcOk, OcSteps, OcPositions, Statuses, world,
         OcUpToScope, OcUpToRead, OcUpToFetch, OcUpToEgress, OcEnded, Advances
<1>15. CASE MintIdJag(r)
  BY <1>1, <1>15, OcHaltKeeps
     DEF MintIdJag, OcAnswered, OcRefused, OcOk, OcSteps, OcPositions, Statuses, world,
         OcUpToScope, OcUpToRead, OcUpToFetch, OcUpToEgress, OcEnded, Advances
<1>16. CASE EgressCheck(r)
  BY <1>1, <1>16, OcHaltKeeps
     DEF EgressCheck, OcRefused, OcOk, OcSteps, OcPositions, Statuses, world,
         OcUpToScope, OcUpToRead, OcUpToFetch, OcUpToEgress, OcEnded, Advances
<1>17. CASE RedeemAtB(r)
  BY <1>1, <1>17, OcHaltKeeps
     DEF RedeemAtB, OcAnswered, OcOk, OcSteps, OcPositions, Statuses, world,
         OcUpToScope, OcUpToRead, OcUpToFetch, OcUpToEgress, OcEnded, Advances
<1> QED BY <1>2, <1>3, <1>4, <1>5, <1>6, <1>7, <1>8, <1>9, <1>11, <1>12, <1>13, <1>14, <1>15, <1>16, <1>17

\* The ticket goes out only from a position that has every approval of Org A
\* behind it, and answering it is the last thing OpenCode does.
LEMMA OcTicketStep ==
  ASSUME TypeOK, NEW r \in Runs, RunInv(r),
         CreateTicket(r) \/ TicketLost(r) \/ TicketAnswered(r) \/ TicketAbandoned(r)
  PROVE  RunInv(r)'
<1>0. OcTypeOK /\ TrTypeOK
  BY DEF TypeOK
<1>1. CASE \/ TicketLost(r)
           \/ (OcRefused(r, "create-ticket") /\ UNCHANGED <<trVars, saVars, world>>)
  <2>1. /\ OcHalt(r, "create-ticket") /\ UNCHANGED <<trVars, saVars, sent>>
    BY <1>1 DEF TicketLost, OcRefused, world
  <2>2. /\ opc[r] = "create-ticket" /\ opc'[r] = "done"
        /\ tpc'[r] = "idle" /\ spc'[r] = "idle" /\ ~Effect(r)'
        /\ tsteps' = tsteps /\ ssteps' = ssteps
    BY <1>0, <2>1 DEF OcHalt, OcRecord, OcTypeOK, RunInv, CallOrder, SaUpToSender,
       SaUpToSubBadge, trVars, saVars, Effect
  <2> QED
    BY <2>2 DEF RunInv, CallOrder, OcApprovals, TrApprovals, SaApprovals, OcEnded,
       TrUpToIdJag, TrUpToSender, TrUpToScope, SaUpToSubBadge, SaUpToSender
<1>2. CASE /\ opc[r] = "create-ticket"
           /\ opc' = [opc EXCEPT ![r] = "await-ticket"]
           /\ tpc' = [tpc EXCEPT ![r] = "verify-idjag"]
           /\ tsteps' = [tsteps EXCEPT ![r]["opa-ingress"] = "ok"]
           /\ UNCHANGED <<osteps, verdict, saVars, sent>>
  <2>1. /\ tpc[r] = "idle" /\ spc[r] = "idle" /\ ~Effect(r)
    BY <1>2 DEF RunInv, CallOrder, SaUpToSender, SaUpToSubBadge
  <2>2. /\ opc'[r] = "await-ticket" /\ tpc'[r] = "verify-idjag"
        /\ spc'[r] = "idle" /\ ~Effect(r)' /\ osteps' = osteps /\ ssteps' = ssteps
    BY <1>0, <1>2, <2>1 DEF OcTypeOK, TrTypeOK, saVars, Effect
  <2>3. verdict'[r] # "failed"
    BY <1>2 DEF RunInv, CallOrder
  <2>4. OcApprovals(r)'
    BY <1>2, <2>2 DEF RunInv, OcApprovals, OcUpToScope, OcUpToRead, OcUpToFetch,
       OcUpToEgress, OcEnded
  <2> QED
    BY <2>2, <2>3, <2>4 DEF RunInv, CallOrder, TrApprovals, SaApprovals, TrUpToIdJag,
       TrUpToSender, TrUpToScope, SaUpToSubBadge, SaUpToSender
<1>3. CASE CreateTicket(r)
  BY <1>1, <1>2, <1>3 DEF CreateTicket, world
<1>4. ASSUME NEW status \in {"ok", "error"}, NEW nested, TicketFinishes(r, status, nested)
      PROVE  RunInv(r)'
  <2>1. /\ opc[r] = "await-ticket" /\ opc'[r] = "done"
        /\ osteps'[r] = [osteps[r] EXCEPT !["create-ticket"] = status]
        /\ osteps[r] \in [OcSteps -> Statuses]
    BY <1>0, <1>4 DEF TicketFinishes, OcTypeOK
  <2>2. /\ osteps'[r]["create-ticket"] # "none"
        /\ \A s \in OcSteps \ {"create-ticket"} : osteps'[r][s] = osteps[r][s]
    BY <1>4, <2>1 DEF OcSteps
  <2>3. UNCHANGED <<tpc, tsteps, spc, ssteps>> /\ (Effect(r)' <=> Effect(r))
    BY <1>4 DEF TicketFinishes, trVars, saVars, world, Effect
  <2>4. OcApprovals(r)'
    BY <2>1, <2>2, <2>3 DEF RunInv, OcApprovals, OcEnded, OcSteps
  <2> QED
    BY <2>1, <2>2, <2>3, <2>4 DEF RunInv, CallOrder, TrApprovals, SaApprovals
<1>5. CASE TicketAnswered(r)
  BY <1>4, <1>5 DEF TicketAnswered
<1>6. CASE TicketAbandoned(r)
  BY <1>4, <1>6 DEF TicketAbandoned
<1> QED BY <1>1, <1>3, <1>5, <1>6

\* A run that starts has passed nothing.
LEMMA OcStartStep ==
  ASSUME TypeOK, NEW r \in Runs, RunInv(r), NEW repo, NEW cve, StartRun(r, repo, cve)
  PROVE  RunInv(r)'
<1>1. /\ opc[r] = "idle" /\ opc'[r] = "sarah-login"
      /\ tpc[r] = "idle" /\ spc[r] = "idle" /\ ~Effect(r)
      /\ verdict[r] # "failed"
  BY DEF StartRun, TypeOK, OcTypeOK, RunInv, CallOrder, SaUpToSender, SaUpToSubBadge
<1>2. /\ UNCHANGED <<osteps, verdict, tpc, tsteps, spc, ssteps>>
      /\ Effect(r)' <=> Effect(r)
  BY DEF StartRun, trVars, saVars, Effect
<1> QED
  BY <1>1, <1>2 DEF RunInv, CallOrder, OcApprovals, TrApprovals, SaApprovals,
     OcUpToScope, OcUpToRead, OcUpToFetch, OcUpToEgress

\* Every step of OpenCode.
LEMMA OcKeeps ==
  ASSUME TypeOK, NEW r \in Runs, RunInv(r), OcNext(r)
  PROVE  RunInv(r)'
<1>1. CASE \E repo \in Repos, cve \in Findings : StartRun(r, repo, cve)
  BY <1>1, OcStartStep
<1> QED BY <1>1, OcOwnStep, OcTicketStep DEF OcNext

\* Triage works while its caller waits or has gone, and calls the Sub-Agent
\* only once its own approvals are behind it.
TrAdvances(step, status, next) ==
  /\ next \notin TrUpToIdJag \cup TrEnded =>
       step \notin TrUpToIdJag \/ (step = "verify-idjag" /\ status = "ok")
  /\ next \notin TrUpToSender \cup TrEnded =>
       step \notin TrUpToSender \/ (step = "verify-sender-badge" /\ status = "ok")
  /\ next \notin TrUpToScope \cup TrEnded =>
       step \notin TrUpToScope \/ (step = "subbadge-scope-check" /\ status = "ok")

\* The positions at which Triage has not called the Sub-Agent yet.
TrBeforeSpawn == TrPositions \ ({"await-sub-agent"} \cup TrEnded)

\* A step of Triage before the spawn: nothing is written yet, the report moves by one.
LEMMA TrRecordKeeps ==
  ASSUME TypeOK, NEW r \in Runs, RunInv(r), NEW step \in TrBeforeSpawn \ {"idle"},
         NEW status \in Statuses, NEW next \in TrPositions \ {"idle"},
         TrRecord(r, step, status, next), UNCHANGED <<ocVars, saVars, sent>>,
         TrAdvances(step, status, next)
  PROVE  RunInv(r)'
<1>0. TrTypeOK
  BY DEF TypeOK
<1>1. /\ tpc[r] = step /\ tpc'[r] = next
      /\ tsteps'[r] = [tsteps[r] EXCEPT ![step] = status]
      /\ tsteps[r] \in [TrSteps -> Statuses]
      /\ step \in TrSteps
  BY <1>0 DEF TrRecord, TrTypeOK, TrBeforeSpawn, TrEnded, TrPositions
<1>2. /\ spc[r] = "idle" /\ ~Effect(r) /\ tpc[r] # "idle"
      /\ opc[r] \in {"await-ticket", "done", "crashed"}
  BY <1>1 DEF RunInv, CallOrder, SaUpToSender, SaUpToSubBadge, TrBeforeSpawn, TrEnded
<1>3. /\ spc'[r] = "idle" /\ ~Effect(r)' /\ tpc'[r] # "idle"
      /\ opc' = opc /\ osteps' = osteps /\ verdict' = verdict /\ ssteps' = ssteps
  BY <1>1, <1>2 DEF ocVars, saVars, Effect
<1>4. TrApprovals(r)'
  BY <1>1, <1>3 DEF TrAdvances, RunInv, TrApprovals, TrUpToIdJag, TrUpToSender,
     TrUpToScope, TrEnded, TrSteps
<1>5. OcApprovals(r)'
  BY <1>2, <1>3 DEF RunInv, OcApprovals
<1>6. CallOrder(r)'
  BY <1>2, <1>3 DEF RunInv, CallOrder
<1> QED
  BY <1>2, <1>3, <1>4, <1>5, <1>6
     DEF RunInv, SaApprovals, SaUpToSubBadge, SaUpToSender

\* A ticket may be given up at any step before the spawn.
LEMMA TrHaltKeeps ==
  ASSUME TypeOK, NEW r \in Runs, RunInv(r), NEW step \in TrBeforeSpawn \ {"idle"},
         TrHalt(r, step), UNCHANGED <<ocVars, saVars, sent>>
  PROVE  RunInv(r)'
<1>1. "error" \in Statuses /\ "replied" \in TrPositions \ {"idle"}
      /\ TrAdvances(step, "error", "replied")
  BY DEF Statuses, TrPositions, TrEnded, TrAdvances
<1> QED BY <1>1, TrRecordKeeps DEF TrHalt

\* The steps of Triage before the spawn.
LEMMA TrOwnStep ==
  ASSUME TypeOK, NEW r \in Runs, RunInv(r),
         \/ TrCallFails(r) \/ VerifyIdJag(r) \/ VerifyOpenCodeBadge(r)
         \/ RegisterTriage(r) \/ SubbadgeScopeCheck(r) \/ TriageBadge(r)
         \/ MintSubBadge(r) \/ UseDirectoryB(r) \/ SpawnLost(r)
  PROVE  RunInv(r)'
<1>0. TrTypeOK
  BY DEF TypeOK
<1>1. ASSUME NEW step \in TrBeforeSpawn \ {"idle"}, NEW status \in Statuses,
             NEW next \in TrPositions \ {"idle"}, TrRecord(r, step, status, next),
             UNCHANGED <<ocVars, saVars, sent>>,
             TrAdvances(step, status, next)
      PROVE  RunInv(r)'
  BY <1>1, TrRecordKeeps
<1>2. TrFatal \subseteq TrBeforeSpawn \ {"idle"}
  BY DEF TrFatal, TrBeforeSpawn, TrPositions, TrSteps, TrEnded
<1>3. CASE TrCallFails(r)
  BY <1>2, <1>3, TrHaltKeeps DEF TrCallFails, world
<1>4. CASE VerifyIdJag(r)
  BY <1>1, <1>4, TrHaltKeeps
     DEF VerifyIdJag, TrOk, TrRefused, TrBeforeSpawn, TrPositions, TrSteps, TrEnded,
         Statuses, TrAdvances, TrUpToIdJag, TrUpToSender, TrUpToScope, world
<1>5. CASE VerifyOpenCodeBadge(r)
  <2>1. CASE TrOk(r, "verify-sender-badge", "cimd-generate-id")
    BY <1>1, <1>5, <2>1
       DEF VerifyOpenCodeBadge, TrOk, TrBeforeSpawn, TrPositions, TrSteps, TrEnded,
           Statuses, TrAdvances, TrUpToIdJag, TrUpToSender, TrUpToScope, world
  <2>2. CASE TrRefused(r, "verify-sender-badge")
    BY <1>2, <1>5, <2>2, TrHaltKeeps DEF VerifyOpenCodeBadge, TrRefused, TrFatal, world
  <2> QED BY <1>5, <2>1, <2>2 DEF VerifyOpenCodeBadge
<1>6. CASE RegisterTriage(r)
  BY <1>1, <1>6
     DEF RegisterTriage, TrOk, TrBeforeSpawn, TrPositions, TrSteps, TrEnded,
         Statuses, TrAdvances, TrUpToIdJag, TrUpToSender, TrUpToScope, world
<1>7. CASE SubbadgeScopeCheck(r)
  BY <1>1, <1>7, TrHaltKeeps
     DEF SubbadgeScopeCheck, TrOk, TrRefused, TrBeforeSpawn, TrPositions, TrSteps,
         TrEnded, Statuses, TrAdvances, TrUpToIdJag, TrUpToSender, TrUpToScope, world
<1>8. CASE TriageBadge(r)
  <2>1. UNCHANGED <<ocVars, saVars, sent>>
    BY <1>8 DEF TriageBadge
  <2>2. CASE TrHalt(r, "resolve-badge")
    BY <1>2, <2>1, <2>2, TrHaltKeeps DEF TrFatal
  <2>3. CASE /\ tpc[r] = "resolve-badge"
             /\ tpc' = [tpc EXCEPT ![r] = "mint-sub-badge"]
             /\ tsteps' = [tsteps EXCEPT ![r]["resolve-badge"] = "ok",
                                         ![r]["plan"] = "ok"]
    <3>1. /\ spc[r] = "idle" /\ ~Effect(r)
          /\ opc[r] \in {"await-ticket", "done", "crashed"}
      BY <2>3 DEF RunInv, CallOrder, SaUpToSender, SaUpToSubBadge
    <3>2. /\ spc'[r] = "idle" /\ ~Effect(r)' /\ tpc'[r] = "mint-sub-badge"
          /\ opc' = opc /\ osteps' = osteps /\ verdict' = verdict /\ ssteps' = ssteps
          /\ \A s \in TrSteps \ {"resolve-badge", "plan"} :
               tsteps'[r][s] = tsteps[r][s]
      BY <1>0, <2>1, <2>3, <3>1 DEF ocVars, saVars, Effect, TrTypeOK
    <3>3. TrApprovals(r)'
      BY <2>3, <3>2 DEF RunInv, TrApprovals, TrUpToIdJag, TrUpToSender, TrUpToScope,
         TrEnded, TrSteps
    <3> QED
      BY <2>3, <3>1, <3>2, <3>3 DEF RunInv, CallOrder, OcApprovals, SaApprovals,
         SaUpToSubBadge, SaUpToSender
  <2> QED BY <1>8, <2>2, <2>3 DEF TriageBadge
<1>9. CASE MintSubBadge(r)
  BY <1>1, <1>9, TrHaltKeeps
     DEF MintSubBadge, TrAnswered, TrOk, TrRefused, TrBeforeSpawn, TrPositions, TrSteps,
         TrEnded, Statuses, TrAdvances, TrUpToIdJag, TrUpToSender, TrUpToScope
<1>10. CASE UseDirectoryB(r)
  BY <1>1, <1>10
     DEF UseDirectoryB, TrOk, TrBeforeSpawn, TrPositions, TrSteps, TrEnded,
         Statuses, TrAdvances, TrUpToIdJag, TrUpToSender, TrUpToScope, world
<1>11. CASE SpawnLost(r)
  BY <1>1, <1>11
     DEF SpawnLost, TrBeforeSpawn, TrPositions, TrSteps, TrEnded,
         Statuses, TrAdvances, TrUpToIdJag, TrUpToSender, TrUpToScope, world
<1> QED BY <1>3, <1>4, <1>5, <1>6, <1>7, <1>8, <1>9, <1>10, <1>11

\* The spawn, and the ways its answer comes or does not.
LEMMA TrSpawnStep ==
  ASSUME TypeOK, NEW r \in Runs, RunInv(r),
         SpawnSubAgent(r) \/ SpawnAnswered(r) \/ SpawnAbandoned(r)
  PROVE  RunInv(r)'
<1>0. TrTypeOK /\ SaTypeOK
  BY DEF TypeOK
<1>1. CASE SpawnSubAgent(r)
  <2>1. /\ tpc[r] = "spawn-sub-agent" /\ spc[r] = "idle" /\ ~Effect(r)
    BY <1>1 DEF SpawnSubAgent, RunInv, CallOrder, SaUpToSender, SaUpToSubBadge
  <2>2. /\ tpc'[r] = "await-sub-agent" /\ spc'[r] = "verify-subbadge" /\ ~Effect(r)'
        /\ UNCHANGED <<opc, osteps, verdict, tsteps, ssteps>>
    BY <1>0, <1>1, <2>1 DEF SpawnSubAgent, TrTypeOK, SaTypeOK, ocVars, world, Effect
  <2>3. TrApprovals(r)'
    BY <2>1, <2>2 DEF RunInv, TrApprovals, TrUpToIdJag, TrUpToSender, TrUpToScope, TrEnded
  <2>4. OcApprovals(r)'
    BY <2>1, <2>2 DEF RunInv, OcApprovals
  <2> QED
    BY <2>1, <2>2, <2>3, <2>4 DEF RunInv, CallOrder, SaApprovals, SaUpToSubBadge,
       SaUpToSender
<1>2. ASSUME NEW status \in {"ok", "error"}, SpawnFinishes(r, status)
      PROVE  RunInv(r)'
  <2>1. /\ tpc[r] = "await-sub-agent" /\ tpc'[r] = "replied"
        /\ \A s \in TrSteps \ {"spawn-sub-agent"} : tsteps'[r][s] = tsteps[r][s]
    BY <1>0, <1>2 DEF SpawnFinishes, TrTypeOK
  <2>2. UNCHANGED <<opc, osteps, verdict, spc, ssteps>> /\ (Effect(r)' <=> Effect(r))
    BY <1>2 DEF SpawnFinishes, ocVars, saVars, world, Effect
  <2>3. TrApprovals(r)'
    BY <2>1, <2>2 DEF RunInv, TrApprovals, TrEnded, TrSteps
  <2> QED
    BY <2>1, <2>2, <2>3 DEF RunInv, CallOrder, OcApprovals, SaApprovals
<1>3. CASE SpawnAnswered(r)
  BY <1>2, <1>3 DEF SpawnAnswered
<1>4. CASE SpawnAbandoned(r)
  BY <1>2, <1>4 DEF SpawnAbandoned
<1> QED BY <1>1, <1>3, <1>4

\* Every step of Triage.
LEMMA TrKeeps ==
  ASSUME TypeOK, NEW r \in Runs, RunInv(r), TrNext(r)
  PROVE  RunInv(r)'
BY TrOwnStep, TrSpawnStep DEF TrNext

\* What a Sub-Agent step may do without passing an approval it has not recorded.
SaAdvances(step, status, next) ==
  /\ next \notin SaUpToSubBadge \cup SaEnded =>
       step \notin SaUpToSubBadge \/ (step = "verify-subbadge" /\ status = "ok")
  /\ next \notin SaUpToSender \cup SaEnded =>
       step \notin SaUpToSender \/ (step = "verify-sender-badge" /\ status = "ok")

\* The Sub-Agent's own approvals, by the names of their steps.
SaApproved(r) == \A s \in {"verify-subbadge", "verify-sender-badge"} : ssteps[r][s] = "ok"

\* The positions from which the Sub-Agent may already have written.
SaWriting ==
  {"push-file", "pushing", "open-pr", "opening", "denied-pr-attempt", "dir-push"}

\* Before the first write: no effect, and the report moves by one step.
LEMMA SaRecordKeeps ==
  ASSUME TypeOK, NEW r \in Runs, RunInv(r),
         NEW step \in SaFatal, NEW status \in Statuses, NEW next \in SaPositions \ {"idle"},
         SaRecord(r, step, status, next), UNCHANGED <<ocVars, trVars, sent>>,
         SaAdvances(step, status, next)
  PROVE  RunInv(r)'
<1>0. SaTypeOK
  BY DEF TypeOK
<1>1. /\ spc[r] = step /\ spc'[r] = next /\ step \in SaSteps
      /\ ssteps'[r] = [ssteps[r] EXCEPT ![step] = status]
      /\ ssteps[r] \in [SaSteps -> Statuses]
  BY <1>0 DEF SaRecord, SaReport, SaTypeOK, SaFatal, SaSteps
<1>2. /\ ~Effect(r) /\ spc[r] # "idle"
      /\ tpc[r] \in {"await-sub-agent", "replied", "crashed"}
  BY <1>1 DEF RunInv, CallOrder, SaUpToSender, SaUpToSubBadge, SaFatal
<1>3. /\ ~Effect(r)' /\ spc'[r] # "idle"
      /\ UNCHANGED <<opc, osteps, verdict, tpc, tsteps>>
  BY <1>1, <1>2 DEF ocVars, trVars, Effect
<1>4. SaApprovals(r)'
  BY <1>1, <1>3 DEF SaAdvances, RunInv, SaApprovals, SaUpToSubBadge, SaUpToSender,
     SaEnded, SaSteps
<1> QED
  BY <1>2, <1>3, <1>4 DEF RunInv, CallOrder, OcApprovals, TrApprovals

\* From the push on: both approvals are recorded and stay so.
LEMMA SaWriteKeeps ==
  ASSUME TypeOK, NEW r \in Runs, RunInv(r), spc[r] \in SaWriting,
         spc'[r] \in SaWriting \cup {"replied"}, UNCHANGED <<ocVars, trVars>>,
         \A s \in {"verify-subbadge", "verify-sender-badge"} :
           ssteps'[r][s] = ssteps[r][s]
  PROVE  RunInv(r)'
<1>1. SaApproved(r) /\ spc[r] # "idle"
      /\ tpc[r] \in {"await-sub-agent", "replied", "crashed"}
  BY DEF SaApproved, SaWriting, RunInv, CallOrder, SaApprovals, SaUpToSubBadge,
         SaUpToSender, SaEnded
<1>2. SaApproved(r)' /\ UNCHANGED <<opc, osteps, verdict, tpc, tsteps>>
  BY <1>1 DEF SaApproved, ocVars, trVars
<1>3. spc'[r] \notin SaUpToSender \cup {"kc-b-exchange"}
  BY DEF SaWriting, SaUpToSender, SaUpToSubBadge
<1>4. CallOrder(r)'
  BY <1>1, <1>2, <1>3 DEF RunInv, CallOrder
<1>5. OcApprovals(r)' /\ TrApprovals(r)'
  BY <1>1, <1>2 DEF RunInv, OcApprovals, TrApprovals
<1> QED BY <1>2, <1>4, <1>5 DEF RunInv, SaApprovals, SaApproved

\* Every step of the Sub-Agent: the checks before the redemption, the redemption, and
\* the writes after it.
LEMMA SaKeeps ==
  ASSUME TypeOK, NEW r \in Runs, RunInv(r), SaNext(r)
  PROVE  RunInv(r)'
<1>0. SaTypeOK
  BY DEF TypeOK
<1>1. ASSUME NEW step \in SaFatal, NEW status \in Statuses,
             NEW next \in SaPositions \ {"idle"}, SaRecord(r, step, status, next),
             UNCHANGED <<ocVars, trVars, sent>>,
             SaAdvances(step, status, next)
      PROVE  RunInv(r)'
  BY <1>1, SaRecordKeeps
<1>2. ASSUME NEW step \in SaFatal, SaHalt(r, step),
             UNCHANGED <<ocVars, trVars, sent>>
      PROVE  RunInv(r)'
  <2>1. "error" \in Statuses /\ "replied" \in SaPositions \ {"idle"}
        /\ SaAdvances(step, "error", "replied")
    BY DEF Statuses, SaPositions, SaEnded, SaAdvances
  <2> QED BY <1>1, <1>2, <2>1 DEF SaHalt
<1>3. CASE SaCallFails(r)
  BY <1>2, <1>3 DEF SaCallFails, world
<1>4. CASE VerifySubBadge(r)
  BY <1>1, <1>2, <1>4 DEF VerifySubBadge, SaOk, SaRefused, SaFatal, SaPositions, SaSteps,
     SaEnded, Statuses, SaAdvances, SaUpToSubBadge, SaUpToSender, world
<1>5. CASE RegisterSubAgent(r)
  BY <1>1, <1>5 DEF RegisterSubAgent, SaOk, SaFatal, SaPositions, SaSteps,
     SaEnded, Statuses, SaAdvances, SaUpToSubBadge, SaUpToSender, world
<1>6. CASE SubAgentBadge(r)
  BY <1>1, <1>2, <1>6 DEF SubAgentBadge, SaOk, SaFatal, SaPositions, SaSteps,
     SaEnded, Statuses, SaAdvances, SaUpToSubBadge, SaUpToSender
<1>7. CASE VerifyTriageBadge(r)
  <2>1. CASE SaOk(r, "verify-sender-badge", "kc-b-exchange")
    BY <1>1, <1>7, <2>1 DEF VerifyTriageBadge, SaOk, SaFatal, SaPositions, SaSteps,
       SaEnded, Statuses, SaAdvances, SaUpToSubBadge, SaUpToSender, world
  <2>2. CASE SaRefused(r, "verify-sender-badge")
    BY <1>2, <1>7, <2>2 DEF VerifyTriageBadge, SaRefused, SaFatal, world
  <2> QED BY <1>7, <2>1, <2>2 DEF VerifyTriageBadge
<1>8. CASE RedeemSubBadge(r)
  <2>1. UNCHANGED <<ocVars, trVars, sent>>
    BY <1>8 DEF RedeemSubBadge
  <2>2. CASE SaHalt(r, "kc-b-exchange")
    BY <1>2, <2>1, <2>2 DEF SaFatal
  <2>3. CASE /\ spc[r] = "kc-b-exchange"
             /\ spc' = [spc EXCEPT ![r] = "push-file"]
             /\ ssteps' = [ssteps EXCEPT ![r]["kc-b-exchange"] = "ok",
                                         ![r]["idjag-gitea"] = "ok"]
    <3>1. SaApproved(r) /\ ~Effect(r)
          /\ tpc[r] \in {"await-sub-agent", "replied", "crashed"}
      BY <2>3 DEF SaApproved, RunInv, CallOrder, SaApprovals, SaUpToSubBadge,
         SaUpToSender, SaEnded
    <3>2. /\ spc'[r] = "push-file" /\ ~Effect(r)'
          /\ UNCHANGED <<opc, osteps, verdict, tpc, tsteps>>
          /\ \A s \in SaSteps \ {"kc-b-exchange", "idjag-gitea"} :
               ssteps'[r][s] = ssteps[r][s]
      BY <1>0, <2>1, <2>3, <3>1 DEF SaTypeOK, ocVars, trVars, Effect
    <3>3. SaApproved(r)'
      BY <3>1, <3>2 DEF SaApproved, SaSteps
    <3> QED
      BY <2>3, <3>1, <3>2, <3>3 DEF RunInv, CallOrder, OcApprovals, TrApprovals,
         SaApprovals, SaApproved
  <2> QED BY <1>8, <2>2, <2>3 DEF RedeemSubBadge
<1>9. ASSUME NEW step \in {"push-file", "open-pr", "denied-pr-attempt"},
             NEW status, NEW next \in SaWriting, SaReport(r, step, status, next),
             spc[r] \in SaWriting, UNCHANGED <<ocVars, trVars>>
      PROVE  RunInv(r)'
  <2>1. /\ spc'[r] \in SaWriting
        /\ \A s \in {"verify-subbadge", "verify-sender-badge"} :
             ssteps'[r][s] = ssteps[r][s]
    BY <1>0, <1>9 DEF SaReport, SaTypeOK, SaSteps
  <2> QED BY <1>9, <2>1, SaWriteKeeps
<1>10. ASSUME NEW position \in SaWriting, spc[r] \in SaWriting,
              spc' = [spc EXCEPT ![r] = position], UNCHANGED <<ssteps, ocVars, trVars>>
       PROVE  RunInv(r)'
  <2>1. spc'[r] \in SaWriting
    BY <1>0, <1>10 DEF SaTypeOK
  <2> QED BY <1>10, <2>1, SaWriteKeeps
<1>11. CASE WriteAnswered(r) \/ WriteFails(r)
  BY <1>9, <1>11 DEF WriteAnswered, WriteFails, SaRecord, SaWriting
<1>12. CASE PushFile(r) \/ OpenPr(r)
  BY <1>9, <1>10, <1>12 DEF PushFile, OpenPr, WriteDenied, SaRecord, SaWriting
<1>13. CASE \E repo \in ProtectedRepos : DeniedPrAttempt(r, repo)
  BY <1>9, <1>13 DEF DeniedPrAttempt, WriteDenied, SaRecord, SaWriting
<1>14. CASE Conclude(r)
  <2>1. /\ spc[r] \in SaWriting /\ spc'[r] = "replied" /\ UNCHANGED <<ocVars, trVars>>
        /\ \A s \in {"verify-subbadge", "verify-sender-badge"} :
             ssteps'[r][s] = ssteps[r][s]
    BY <1>0, <1>14 DEF Conclude, SaTypeOK, SaWriting, SaSteps
  <2> QED BY <2>1, SaWriteKeeps
<1> QED
  BY <1>3, <1>4, <1>5, <1>6, <1>7, <1>8, <1>11, <1>12, <1>13, <1>14 DEF SaNext

-----------------------------------------------------------------------------
\* A crash ends the handlers it hits and passes no approval.
LEMMA CrashKeeps ==
  ASSUME TypeOK, NEW r \in Runs, RunInv(r), Crash
  PROVE  RunInv(r)'
<1>1. /\ Effect(r)' <=> Effect(r)
      /\ UNCHANGED <<osteps, tsteps, ssteps, verdict>>
  BY DEF Crash, OpenCodeCrash, TriageCrash, SubAgentCrash, world, Effect, ocVars, trVars,
         saVars
<1>2. CASE OpenCodeCrash
  <2>1. /\ opc'[r] = IF OcBusy(r) THEN "crashed" ELSE opc[r]
        /\ tpc' = tpc /\ spc' = spc
    BY <1>2 DEF OpenCodeCrash, trVars, saVars
  <2>2. CASE OcBusy(r)
    <3>1. verdict[r] # "failed" /\ opc'[r] = "crashed"
      BY <2>1, <2>2 DEF OcBusy, OcSteps, RunInv, CallOrder
    <3> QED BY <1>1, <2>1, <3>1
            DEF RunInv, CallOrder, OcApprovals, TrApprovals, SaApprovals, OcEnded
  <2>3. CASE ~OcBusy(r)
    BY <1>1, <2>1, <2>3, UntouchedKeeps DEF Untouched
  <2> QED BY <2>2, <2>3
<1>3. CASE TriageCrash
  <2>1. /\ tpc'[r] = IF TrBusy(r) THEN "crashed" ELSE tpc[r]
        /\ opc' = opc /\ spc' = spc
    BY <1>3 DEF TriageCrash, ocVars, saVars
  <2>2. CASE TrBusy(r)
    <3>1. tpc[r] # "idle" /\ tpc'[r] = "crashed"
      BY <2>1, <2>2 DEF TrBusy
    <3> QED BY <1>1, <2>1, <3>1
            DEF RunInv, CallOrder, OcApprovals, TrApprovals, SaApprovals, TrEnded
  <2>3. CASE ~TrBusy(r)
    BY <1>1, <2>1, <2>3, UntouchedKeeps DEF Untouched
  <2> QED BY <2>2, <2>3
<1>4. CASE SubAgentCrash
  <2>1. /\ spc'[r] = IF SaBusy(r) THEN "crashed" ELSE spc[r]
        /\ opc' = opc /\ tpc' = tpc
    BY <1>4 DEF SubAgentCrash, ocVars, trVars
  <2>2. CASE SaBusy(r)
    <3>1. spc[r] # "idle" /\ spc'[r] = "crashed"
      BY <2>1, <2>2 DEF SaBusy
    <3> QED BY <1>1, <2>1, <3>1
            DEF RunInv, CallOrder, OcApprovals, TrApprovals, SaApprovals, SaEnded,
                SaUpToSender, SaUpToSubBadge
  <2>3. CASE ~SaBusy(r)
    BY <1>1, <2>1, <2>3, UntouchedKeeps DEF Untouched
  <2> QED BY <2>2, <2>3
<1> QED BY <1>2, <1>3, <1>4 DEF Crash

\* Only the Sub-Agent's steps add to what was sent, and only Gitea's own to what is
\* there; nothing is taken back.
LEMMA WritesGrow ==
  ASSUME TypeOK, [Next]_vars
  PROVE  /\ sent \subseteq sent'
         /\ UNCHANGED <<branches, pulls>> \/ \E call \in sent : GiteaWrites(call)
<1>1. ASSUME NEW r \in Runs, OcNext(r)
      PROVE  UNCHANGED <<sent, branches, pulls>>
  BY <1>1 DEF OcNext, StartRun, OcCallFails, SignIn, BadgeScopeCheck, ResolveBadge,
       MintRead, ReadEgressCheck, RedeemRead, FetchSource, Scan, Plan, UseDirectory,
       ExchangeAtA, MintIdJag, EgressCheck, RedeemAtB, CreateTicket, TicketLost,
       TicketAnswered, TicketAbandoned, TicketFinishes, world
<1>2. ASSUME NEW r \in Runs, TrNext(r)
      PROVE  UNCHANGED <<sent, branches, pulls>>
  BY <1>2 DEF TrNext, TrCallFails, VerifyIdJag, VerifyOpenCodeBadge, RegisterTriage,
       SubbadgeScopeCheck, TriageBadge, MintSubBadge, UseDirectoryB, SpawnSubAgent,
       SpawnLost, SpawnAnswered, SpawnAbandoned, SpawnFinishes, world
<1>3. ASSUME NEW r \in Runs, SaNext(r)
      PROVE  sent \subseteq sent' /\ UNCHANGED <<branches, pulls>>
  BY <1>3 DEF SaNext, SaCallFails, VerifySubBadge, RegisterSubAgent, SubAgentBadge,
       VerifyTriageBadge, RedeemSubBadge, WriteAnswered, WriteFails, PushFile, OpenPr,
       DeniedPrAttempt, Conclude, PassOn, world
<1>4. ASSUME Crash \/ Rest \/ UNCHANGED vars
      PROVE  UNCHANGED <<sent, branches, pulls>>
  BY <1>4 DEF Crash, OpenCodeCrash, TriageCrash, SubAgentCrash, Rest, world, vars
<1>5. ASSUME NEW call \in sent, GiteaWrites(call)
      PROVE  UNCHANGED sent
  BY <1>5 DEF GiteaWrites
<1> QED BY <1>1, <1>2, <1>3, <1>4, <1>5 DEF Next

\* Gitea stays within what it was asked for.
LEMMA SentKeeps ==
  ASSUME TypeOK, WritesWereSent, [Next]_vars
  PROVE  WritesWereSent'
<1>1. sent \subseteq sent'
  BY WritesGrow
<1>2. CASE UNCHANGED <<branches, pulls>>
  BY <1>1, <1>2 DEF WritesWereSent, WriteCall
<1>3. ASSUME NEW call \in sent, GiteaWrites(call)
      PROVE  WritesWereSent'
  <2>1. call = WriteCall(call.run, call.action, call.repo)
    BY DEF TypeOK, WorldTypeOK, WriteCall
  <2>2. CASE /\ call.action = "push-file" /\ UNCHANGED pulls
             /\ branches' = branches \cup {[run |-> call.run, repo |-> call.repo]}
    BY <1>1, <2>1, <2>2 DEF WritesWereSent, WriteCall
  <2>3. CASE /\ call.action = "open-pr" /\ UNCHANGED branches
             /\ pulls' = pulls \cup {[run |-> call.run, repo |-> call.repo]}
    BY <1>1, <2>1, <2>3 DEF WritesWereSent, WriteCall
  <2> QED BY <1>3, <2>2, <2>3 DEF GiteaWrites
<1> QED BY <1>2, <1>3, WritesGrow

\* The invariant is inductive: a step is one run's, which keeps its own part, or a crash.
LEMMA StepIInv == IInv /\ [Next]_vars => IInv'
<1> SUFFICES ASSUME IInv, [Next]_vars PROVE IInv'
  OBVIOUS
<1>1. TypeOK /\ WritesWereSent /\ \A r \in Runs : RunInv(r)
  BY DEF IInv
<1>2. TypeOK'
  BY <1>1, StepType
<1>3. ASSUME NEW r \in Runs PROVE RunInv(r)'
  <2>1. ASSUME NEW actor \in Runs, OcNext(actor) \/ TrNext(actor) \/ SaNext(actor)
        PROVE  RunInv(r)'
    <3>1. CASE actor = r
      BY <1>1, <2>1, <3>1, OcKeeps, TrKeeps, SaKeeps
    <3>2. CASE actor # r
      <4>1. Untouched(r)
        BY <1>1, <2>1, <3>2, OthersUntouched
      <4> QED BY <1>1, <4>1, UntouchedKeeps
    <3> QED BY <3>1, <3>2
  <2>2. CASE Crash
    BY <1>1, <2>2, CrashKeeps
  <2>3. CASE Rest \/ UNCHANGED vars
    <3>1. Untouched(r)
      BY <2>3 DEF Rest, vars, ocVars, trVars, saVars, world, Untouched, Effect
    <3> QED BY <1>1, <3>1, UntouchedKeeps
  <2>4. CASE \E call \in sent : GiteaWrites(call)
    <3>1. Untouched(r)
      BY <2>4 DEF GiteaWrites, ocVars, trVars, saVars, Untouched, Effect
    <3> QED BY <1>1, <3>1, UntouchedKeeps
  <2> QED BY <2>1, <2>2, <2>3, <2>4 DEF Next
<1>4. WritesWereSent'
  BY <1>1, SentKeeps
<1> QED BY <1>2, <1>3, <1>4 DEF IInv

\* The inductive invariant holds in every reachable state.
THEOREM ApprovalInvariant == Spec => []IInv
<1>1. Init => IInv
  BY InitRunInv
<1>2. IInv /\ [Next]_vars => IInv'
  BY StepIInv
<1> QED BY <1>1, <1>2, PTL DEF Spec

\* A run that has left something in Gitea has asked for it.
LEMMA WritesHaveEffect ==
  ASSUME WritesWereSent, NEW r, BranchesOf(r) \cup PullsOf(r) # {}
  PROVE  Effect(r)
<1>1. ASSUME NEW b \in branches, b.run = r PROVE Effect(r)
  BY <1>1 DEF WritesWereSent, WriteCall, Effect
<1>2. ASSUME NEW p \in pulls, p.run = r PROVE Effect(r)
  BY <1>2 DEF WritesWereSent, WriteCall, Effect
<1> QED BY <1>1, <1>2 DEF BranchesOf, PullsOf

\* Whatever a run leaves in Gitea was approved at every boundary of both
\* organisations beforehand, however many runs there are and whatever fails.
THEOREM ApprovedWrites == Spec => []WritesFollowApproval
<1>1. IInv => WritesFollowApproval
  <2> SUFFICES ASSUME IInv, NEW r \in Runs, Effect(r)
               PROVE  /\ \A s \in {"badge-scope-check", "read-egress-check",
                                   "fetch-source", "egress-check"} : osteps[r][s] = "ok"
                      /\ \A s \in {"verify-idjag", "verify-sender-badge",
                                   "subbadge-scope-check"} : tsteps[r][s] = "ok"
                      /\ SaApproved(r)
    BY WritesHaveEffect DEF IInv, WritesFollowApproval, SaApproved
  <2>1. spc[r] # "idle" /\ tpc[r] # "idle"
    BY DEF IInv, RunInv, CallOrder, SaUpToSender, SaUpToSubBadge
  <2> QED
    BY <2>1 DEF IInv, RunInv, OcApprovals, TrApprovals, SaApprovals, SaApproved
<1> QED BY <1>1, ApprovalInvariant, PTL

\* A run that failed before its ticket was sent never has an effect in Org B.
THEOREM HaltedIsInert == Spec => []HaltedRunsHaveNoEffect
<1>1. IInv => HaltedRunsHaveNoEffect
  <2> SUFFICES ASSUME IInv, NEW r \in Runs, verdict[r] = "failed",
                      osteps[r]["create-ticket"] = "none"
               PROVE  tpc[r] = "idle" /\ spc[r] = "idle" /\ ~Effect(r)
    BY WritesHaveEffect DEF IInv, HaltedRunsHaveNoEffect
  <2> QED BY DEF IInv, RunInv, CallOrder, SaUpToSender, SaUpToSubBadge
<1> QED BY <1>1, ApprovalInvariant, PTL
=============================================================================
