------------------------------ MODULE RunTiming ------------------------------
(***************************************************************************)
(* The clocks of one remediation: how long each handler waits for the next *)
(* (webapp, OpenCode, Triage, Sub-Agent), and how long the credentials     *)
(* live that are passed from step to step.  What the steps decide is in    *)
(* Delegation; here a step goes well, fails, or finds that a credential it *)
(* presents has expired.                                                   *)
(*                                                                         *)
(* Time is in seconds since the user's POST /api/run reached the web       *)
(* application.  A step began at one time and is due at another, and the   *)
(* earliest due step is the next to happen.  What a step presents is       *)
(* checked when the step ends, what it obtains was issued when it began or *)
(* when it ended, so neither side of a slow call is favoured.              *)
(***************************************************************************)
EXTENDS Naturals

CONSTANTS
  CallTimes,       \* what a remote call may take, up to its client timeout
  ModelTimes,      \* what a session and a message to the model may take
  DirectoryTimes,  \* what the two Directory calls of a handler may take
  MaxSlow,         \* bound: steps that take longer than the quickest call
  RunTimeout,      \* the web application's wait: OPENCODE_TIMEOUT + 60
  TicketTimeout,   \* OpenCode's wait for Triage
  SpawnTimeout,    \* Triage's wait for the Sub-Agent
  UserLife,        \* accessTokenLifespan of org-a
  AssertionLife,   \* ASSERTION_TTL_SECONDS of an ID-JAG
  AccessLife,      \* the access tokens of org-b, which leaves Keycloak's default
  Skew             \* what Envoy's jwt_authn grants an expired token

ASSUME TimesAssumption ==
  /\ CallTimes \subseteq Nat /\ ModelTimes \subseteq Nat /\ DirectoryTimes \subseteq Nat
  /\ MaxSlow \in Nat
  /\ RunTimeout \in Nat /\ TicketTimeout \in Nat /\ SpawnTimeout \in Nat
  /\ UserLife \in Nat /\ AssertionLife \in Nat /\ AccessLife \in Nat /\ Skew \in Nat

\* No credential lives shorter than the user is kept waiting.
ASSUME LifeAssumption ==
  RunTimeout <= UserLife /\ RunTimeout <= AssertionLife /\ RunTimeout <= AccessLife

VARIABLES
  web,         \* the web application's answer to the user
  pc,          \* the step each handler is at
  began, due,  \* when that step began, and when it ends or its caller gives up
  exp,         \* when each credential expires; 0 while there is none
  hung,        \* handlers that wait for an answer without a deadline
  slow,        \* slow steps so far
  wrote        \* history: when Envoy B last admitted a write; 0 if never

vars == <<web, pc, began, due, exp, hung, slow, wrote>>

OpenCode == "opencode-agent"
Triage   == "triage-agent"
SubAgent == "sub-agent"
Handlers == {OpenCode, Triage, SubAgent}

Credentials ==
  {"user", "read", "read-access", "exchanged", "id-jag", "access", "sub-badge",
   "write-access"}

\* Mutant: the lifetime of an assertion is given in minutes.
LifeInMinutes(c) ==
  CASE c \in {"user", "exchanged"} -> UserLife
    [] c \in {"read", "id-jag", "sub-badge"} -> AssertionLife \div 60
    [] c \in {"read-access", "access", "write-access"} -> AccessLife

Life(c) ==
  CASE c \in {"user", "exchanged"} -> UserLife
    [] c \in {"read", "id-jag", "sub-badge"} -> AssertionLife
    [] c \in {"read-access", "access", "write-access"} -> AccessLife

\* The steps that present each credential.
PresentedAt(c) ==
  CASE c = "user" ->
         {<<OpenCode, "badge-scope">>, <<OpenCode, "mint-read">>,
          <<OpenCode, "exchange">>}
    [] c = "read" ->
         {<<OpenCode, "read-egress">>, <<OpenCode, "redeem-read">>,
          <<OpenCode, "fetch">>}
    [] c = "read-access" -> {<<OpenCode, "fetch">>}
    [] c = "exchanged" -> {<<OpenCode, "mint">>}
    [] c = "id-jag" ->
         {<<OpenCode, "egress">>, <<OpenCode, "redeem">>, <<OpenCode, "ticket">>,
          <<Triage, "verify">>}
    [] c = "access" ->
         {<<OpenCode, "ticket">>, <<Triage, "narrow">>, <<Triage, "mint-sub">>}
    [] c = "sub-badge" ->
         {<<SubAgent, "verify">>, <<SubAgent, "redeem">>, <<SubAgent, "push">>,
          <<SubAgent, "open">>}
    [] c = "write-access" -> {<<SubAgent, "push">>, <<SubAgent, "open">>}

\* The steps whose credentials one of the two Envoys checks.
AtEnvoy ==
  {<<OpenCode, "badge-scope">>, <<OpenCode, "read-egress">>, <<OpenCode, "fetch">>,
   <<OpenCode, "egress">>, <<OpenCode, "ticket">>, <<Triage, "narrow">>,
   <<SubAgent, "push">>, <<SubAgent, "open">>}

-----------------------------------------------------------------------------
\* Neither finished nor waiting for an answer that may never come.
Pending(h) == pc[h] \notin {"idle", "over"} /\ h \notin hung

\* The next thing to happen is the end of h's step.
Turn(h) ==
  /\ Pending(h)
  /\ \A g \in Handlers : Pending(g) => due[h] <= due[g]
  /\ web = "waiting" => due[h] <= RunTimeout

\* What h presents is live when its step ends, give or take the verifier's grace.
LiveWithin(h, grace) ==
  \A c \in Credentials : <<h, pc[h]>> \in PresentedAt(c) => due[h] <= exp[c] + grace

Live(h) == LiveWithin(h, IF <<h, pc[h]>> \in AtEnvoy THEN Skew ELSE 0)

\* The step h begins next takes n calls of one duration each.
TakesCalls(h, n) ==
  \E c \in CallTimes :
    /\ due' = [due EXCEPT ![h] = due[h] + n * c]
    /\ IF \E quicker \in CallTimes : quicker < c
         THEN slow < MaxSlow /\ slow' = slow + 1
         ELSE UNCHANGED slow

Takes(h, times) ==
  /\ \E t \in times : due' = [due EXCEPT ![h] = due[h] + t]
  /\ UNCHANGED slow

\* A step ends and h begins the next.
Goto(h, from, to) ==
  /\ Turn(h) /\ pc[h] = from
  /\ pc' = [pc EXCEPT ![h] = to]
  /\ began' = [began EXCEPT ![h] = due[h]]
  /\ UNCHANGED <<web, hung, wrote>>

Issue(h, c) ==
  \E at \in {began[h], due[h]} : exp' = [exp EXCEPT ![c] = at + Life(c)]

\* A step that goes well without a credential to show for it ...
Step(h, from, to) == Goto(h, from, to) /\ Live(h) /\ UNCHANGED exp

\* ... and one that obtains a credential for those it presents.
Trade(h, from, to, c) == Goto(h, from, to) /\ Live(h) /\ Issue(h, c)

\* The handlers that end when h does: those that wait for its answer as well.
Unblocked(h) ==
  {g \in Handlers :
     \/ g = h
     \/ h = Triage /\ g = OpenCode /\ pc[g] = "await"
     \/ h = SubAgent /\ g = Triage /\ pc[g] = "await"
     \/ h = SubAgent /\ g = OpenCode /\ pc[Triage] = "await" /\ pc[g] = "await"}

\* h answers, after its last step or a failed one; an answer nobody waits for any
\* more is lost.
Answer(h) ==
  /\ Turn(h)
  /\ pc' = [g \in Handlers |-> IF g \in Unblocked(h) THEN "over" ELSE pc[g]]
  /\ web' = IF OpenCode \in Unblocked(h) /\ web = "waiting" THEN "answered" ELSE web
  /\ UNCHANGED <<began, due, exp, hung, slow, wrote>>

Init ==
  /\ web = "waiting"
  /\ pc = [h \in Handlers |-> IF h = OpenCode THEN "sign-in" ELSE "idle"]
  /\ began = [h \in Handlers |-> 0]
  /\ \E c \in CallTimes : due = [h \in Handlers |-> IF h = OpenCode THEN c ELSE 0]
  /\ exp = [c \in Credentials |-> 0]
  /\ hung = {} /\ slow = 0 /\ wrote = 0

-----------------------------------------------------------------------------
(* OpenCode's POST /api/run                                                *)

SignIn ==
  Trade(OpenCode, "sign-in", "register", "user") /\ TakesCalls(OpenCode, 4)

Register ==
  /\ Step(OpenCode, "register", "badge-scope")
  /\ TakesCalls(OpenCode, 1)

BadgeScope ==
  /\ Step(OpenCode, "badge-scope", "badge")
  /\ TakesCalls(OpenCode, 5)

Badge ==
  Step(OpenCode, "badge", "mint-read") /\ TakesCalls(OpenCode, 1)

MintRead ==
  /\ Trade(OpenCode, "mint-read", "read-egress", "read")
  /\ TakesCalls(OpenCode, 1)

ReadEgress ==
  /\ Step(OpenCode, "read-egress", "redeem-read")
  /\ TakesCalls(OpenCode, 1)

RedeemRead ==
  /\ Trade(OpenCode, "redeem-read", "fetch", "read-access")
  /\ TakesCalls(OpenCode, 1)

Fetch ==
  /\ Step(OpenCode, "fetch", "scan")
  /\ Takes(OpenCode, ModelTimes)

\* Scan and plan go on when the model does not answer in time.
Scan ==
  Step(OpenCode, "scan", "plan") /\ Takes(OpenCode, ModelTimes)

Plan ==
  Step(OpenCode, "plan", "directory") /\ Takes(OpenCode, DirectoryTimes)

\* So do the Directory steps, but their calls have no deadline.
Directory(h, next) ==
  Step(h, "directory", next) /\ TakesCalls(h, 1)

\* Mutant: the age of Sarah's token does not matter.
ExchangeOfAnyAge ==
  /\ Goto(OpenCode, "exchange", "mint") /\ Issue(OpenCode, "exchanged")
  /\ TakesCalls(OpenCode, 1)

Exchange ==
  /\ Trade(OpenCode, "exchange", "mint", "exchanged")
  /\ TakesCalls(OpenCode, 1)

Mint ==
  /\ Trade(OpenCode, "mint", "egress", "id-jag")
  /\ TakesCalls(OpenCode, 1)

Egress ==
  /\ Step(OpenCode, "egress", "redeem")
  /\ TakesCalls(OpenCode, 1)

Redeem ==
  /\ Trade(OpenCode, "redeem", "ticket", "access")
  /\ TakesCalls(OpenCode, 1)

\* A call is handed on: the caller waits from its beginning, the callee begins.
HandOver(h, from, callee, timeout) ==
  /\ Turn(h) /\ pc[h] = from /\ Live(h)
  /\ pc' = [pc EXCEPT ![h] = "await", ![callee] = "verify"]
  /\ began' = [began EXCEPT ![callee] = due[h]]
  /\ \E c \in CallTimes :
       due' = [due EXCEPT ![h] = began[h] + timeout, ![callee] = due[h] + c]
  /\ UNCHANGED <<web, exp, slow, wrote>>

Ticket ==
  HandOver(OpenCode, "ticket", Triage, TicketTimeout) /\ UNCHANGED hung

-----------------------------------------------------------------------------
(* Triage's POST /api/ticket                                               *)

VerifyIdJag ==
  /\ Step(Triage, "verify", "prepare")
  /\ TakesCalls(Triage, 5)

Prepare ==
  Step(Triage, "prepare", "narrow") /\ TakesCalls(Triage, 1)

Narrow ==
  Step(Triage, "narrow", "badge") /\ TakesCalls(Triage, 5)

TriageBadge ==
  Step(Triage, "badge", "mint-sub") /\ TakesCalls(Triage, 1)

MintSub ==
  /\ Trade(Triage, "mint-sub", "directory", "sub-badge")
  /\ Takes(Triage, DirectoryTimes)

\* Mutant: the call to the Sub-Agent has no timeout.
SpawnUnbounded ==
  HandOver(Triage, "spawn", SubAgent, SpawnTimeout) /\ hung' = hung \cup {Triage}

Spawn ==
  HandOver(Triage, "spawn", SubAgent, SpawnTimeout) /\ UNCHANGED hung

-----------------------------------------------------------------------------
(* The Sub-Agent's POST /api/run                                           *)

VerifySubBadge ==
  /\ Step(SubAgent, "verify", "prepare")
  /\ TakesCalls(SubAgent, 10)

SubAgentReady ==
  Step(SubAgent, "prepare", "redeem") /\ TakesCalls(SubAgent, 1)

RedeemSubBadge ==
  /\ Trade(SubAgent, "redeem", "push", "write-access")
  /\ TakesCalls(SubAgent, 1)

\* Envoy B admits a push, or a pull request: both credentials are live.
Write(from, to) ==
  /\ Turn(SubAgent) /\ pc[SubAgent] = from /\ Live(SubAgent)
  /\ pc' = [pc EXCEPT ![SubAgent] = to]
  /\ began' = [began EXCEPT ![SubAgent] = due[SubAgent]]
  /\ wrote' = due[SubAgent]
  /\ TakesCalls(SubAgent, 1)
  /\ UNCHANGED <<web, exp, hung>>

\* A write that is not admitted does not end the handler.
Unwritten(from, to) ==
  Goto(SubAgent, from, to) /\ UNCHANGED exp /\ TakesCalls(SubAgent, 1)

Push == Write("push", "open") \/ Unwritten("push", "open")
Open == Write("open", "attempt") \/ Unwritten("open", "attempt")

\* Mutant: the leaf of the chain calls an agent of its own.
AttemptAndSpawn ==
  /\ Step(SubAgent, "attempt", "spawn")
  /\ Takes(SubAgent, DirectoryTimes)

Attempt ==
  /\ Step(SubAgent, "attempt", "directory")
  /\ Takes(SubAgent, DirectoryTimes)

-----------------------------------------------------------------------------
(* How a handler ends                                                      *)

\* Steps whose failure is reported without ending the handler.
Tolerant ==
  {<<OpenCode, "scan">>, <<OpenCode, "plan">>, <<SubAgent, "push">>,
   <<SubAgent, "open">>, <<SubAgent, "attempt">>}
     \cup {<<h, "directory">> : h \in Handlers}

\* A call fails or times out, or is refused.
StepFails(h) ==
  pc[h] # "await" /\ <<h, pc[h]>> \notin Tolerant /\ Answer(h)

Concludes == pc[SubAgent] = "directory" /\ Answer(SubAgent)

\* The caller's timeout runs out; the callee knows nothing of it.
GivesUp(h) == pc[h] = "await" /\ Answer(h)

\* A Directory call is never answered.
DirectoryHangs(h) ==
  /\ pc[h] = "directory" /\ Turn(h)
  /\ hung' = hung \cup {h}
  /\ UNCHANGED <<web, pc, began, due, exp, slow, wrote>>

\* Mutant: the timeout is swallowed and the answer waited for again.
WebWaitsAgain ==
  /\ web = "waiting"
  /\ \A h \in Handlers : Pending(h) => RunTimeout <= due[h]
  /\ UNCHANGED vars

\* RUN_TIMEOUT runs out: 502, and OpenCode's handler goes on.
WebGivesUp ==
  /\ web = "waiting"
  /\ \A h \in Handlers : Pending(h) => RunTimeout <= due[h]
  /\ web' = "gave-up"
  /\ UNCHANGED <<pc, began, due, exp, hung, slow, wrote>>

\* Everything has ended, or hangs.
Rest == (\A h \in Handlers : ~Pending(h)) /\ UNCHANGED vars

Next ==
  \/ SignIn \/ Register \/ BadgeScope \/ Badge \/ MintRead \/ ReadEgress
  \/ RedeemRead \/ Fetch \/ Scan \/ Plan \/ Directory(OpenCode, "exchange")
  \/ Exchange \/ Mint \/ Egress \/ Redeem \/ Ticket
  \/ VerifyIdJag \/ Prepare \/ Narrow \/ TriageBadge \/ MintSub
  \/ Directory(Triage, "spawn") \/ Spawn
  \/ VerifySubBadge \/ SubAgentReady \/ RedeemSubBadge \/ Push \/ Open \/ Attempt
  \/ Concludes
  \/ \E h \in Handlers : StepFails(h) \/ GivesUp(h) \/ DirectoryHangs(h)
  \/ WebGivesUp
  \/ Rest

Spec == Init /\ [][Next]_vars

\* Time passes: some handler's step ends, its caller gives up, or the web
\* application does.  No Directory call has to be answered.
FairSpec == Spec /\ WF_vars(Next)

-----------------------------------------------------------------------------
OcPositions ==
  {"sign-in", "register", "badge-scope", "badge", "mint-read", "read-egress",
   "redeem-read", "fetch", "scan", "plan", "directory", "exchange", "mint", "egress",
   "redeem", "ticket", "await", "over"}

TrPositions ==
  {"idle", "verify", "prepare", "narrow", "badge", "mint-sub", "directory", "spawn",
   "await", "over"}

SaPositions ==
  {"idle", "verify", "prepare", "redeem", "push", "open", "attempt", "directory",
   "over"}

\* The answers, positions, times and credentials of one remediation.
TypeOK ==
  /\ web \in {"waiting", "answered", "gave-up"}
  /\ pc \in [Handlers -> OcPositions \cup TrPositions \cup SaPositions]
  /\ pc[OpenCode] \in OcPositions /\ pc[Triage] \in TrPositions
  /\ pc[SubAgent] \in SaPositions
  /\ began \in [Handlers -> Nat] /\ due \in [Handlers -> Nat]
  /\ exp \in [Credentials -> Nat] /\ hung \subseteq Handlers
  /\ slow \in 0..MaxSlow /\ wrote \in Nat

\* The user hears something, also when the Directory never answers OpenCode.
UserIsAnswered == web = "waiting" ~> web # "waiting"

\* A handler that never ends waits for the Directory: every other wait is bounded,
\* also of a handler whose caller has given up.
OnlyTheDirectoryHangs ==
  \A h \in Handlers :
    Pending(h) ~> pc[h] = "over" \/ (h \in hung /\ pc[h] = "directory")

\* However long services stall and whoever has given up by then, no write is
\* admitted once the lifetimes of the credentials it goes back to have passed
\* since Sarah signed in.
WritesExpire ==
  wrote <= exp["user"] + UserLife + AssertionLife + AccessLife + AssertionLife + Skew

\* No step of a run finds a credential expired while the user still waits for the
\* run: a report that blames an expired token belongs to a run already given up.
NothingExpiresWhileWaited ==
  web = "waiting" => \A h \in Handlers : Turn(h) => LiveWithin(h, 0)

\* webapp/app.py on RUN_TIMEOUT: it covers the agent's model call and the rest of
\* the lifecycle, so the web application gives up on no run that is under way.
HeadroomCoversRun ==
  web = "gave-up" => pc[OpenCode] = "over" \/ hung # {}
=============================================================================
