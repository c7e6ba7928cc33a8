--------------------------- MODULE AuthorityProofs ---------------------------
(***************************************************************************)
(* What the tokens of a run may say, and that the copies of the rules of   *)
(* two organisations agree: what is honest is never refused, and what is   *)
(* refused is refused before Gitea is asked for anything.  For any number  *)
(* of runs, failures and crashes.                                          *)
(***************************************************************************)
EXTENDS DelegationProofs, SequenceTheorems

-----------------------------------------------------------------------------
(* Authority                                                               *)

\* The three tokens Keycloak B ever issues: each goes to the client its assertion
\* targets, and one that writes comes after Triage's own in the same run.
ReadToken(t) ==
  /\ t.grant.claims.azp = OpenCode
  /\ t.access.azp = OpenCode /\ t.access.scope = {"openid", "gitea:read"}

TicketToken(t) ==
  /\ t.grant.claims.azp = Triage
  /\ t.access.azp = Triage /\ t.access.scope = {"openid", "triage:create"}
  /\ t.grant.claims.chain = <<OpenCode>>

WriteToken(t) ==
  /\ t.grant.claims.azp = SubAgent
  /\ t.access.azp = SubAgent
  /\ t.access.scope = {"openid", "gitea:write", "gitea:pr"}
  /\ t.grant.claims.chain = <<OpenCode, Triage>>
  /\ \E parent \in tokens : parent.grant.run = t.grant.run /\ TicketToken(parent)

\* A chain one hop longer, and one hop shorter.
LEMMA LongerChain ==
  ASSUME NEW S, NEW x \in S, NEW y \in S
  PROVE  Append(<<x>>, y) = <<x, y>>
<1>1. <<x>> \in Seq(S) /\ Len(<<x>>) = 1
  OBVIOUS
<1>2. Append(<<x>>, y) \in Seq(S) /\ Len(Append(<<x>>, y)) = 2
  BY <1>1
<1>3. Append(<<x>>, y)[1] = x /\ Append(<<x>>, y)[2] = y
  BY <1>1
<1>4. /\ <<x, y>> \in Seq(S) /\ Len(<<x, y>>) = 2
      /\ <<x, y>>[1] = x /\ <<x, y>>[2] = y
  OBVIOUS
<1>5. \A i \in 1..2 : Append(<<x>>, y)[i] = <<x, y>>[i]
  BY <1>3, <1>4
<1> QED BY <1>2, <1>4, <1>5, SeqEqual

LEMMA ShorterChain ==
  ASSUME NEW S, NEW x \in S, NEW y \in S
  PROVE  ButLast(<<x, y>>) = <<x>>
<1> DEFINE s == SubSeq(<<x, y>>, 1, 1)
<1>1. <<x, y>> \in Seq(S) /\ Len(<<x, y>>) = 2
  OBVIOUS
<1>2. s \in Seq(S) /\ Len(s) = 1 /\ s[1] = x
  BY <1>1, SubSeqProperties
<1>3. <<x>> \in Seq(S) /\ Len(<<x>>) = 1 /\ <<x>>[1] = x
  OBVIOUS
<1>4. \A i \in 1..1 : s[i] = <<x>>[i]
  BY <1>2, <1>3
<1>5. s = <<x>>
  <2> HIDE DEF s
  <2> QED BY <1>2, <1>3, <1>4, SeqEqual
<1> QED BY <1>1, <1>5 DEF ButLast

TokensNarrow == \A t \in tokens : ReadToken(t) \/ TicketToken(t) \/ WriteToken(t)

\* A ticket is never sent without the token for it.
TicketsHaveTokens ==
  \A r \in Runs : tpc[r] # "idle" =>
    \E t \in tokens : t.grant.run = r /\ TicketToken(t)

AuthInv == IInv /\ TokensNarrow /\ TicketsHaveTokens

\* There are no tokens and no tickets at the start.
LEMMA InitAuth == Init => AuthInv
<1> SUFFICES ASSUME Init PROVE TokensNarrow /\ TicketsHaveTokens
  BY InitRunInv DEF AuthInv
<1> QED BY DEF Init, TrInit, TokensNarrow, TicketsHaveTokens

\* Nothing but a redemption adds a token, and none is ever taken away.
LEMMA TokenSteps ==
  ASSUME Next
  PROVE  \/ UNCHANGED tokens
         \/ \E r \in Runs : RedeemRead(r) \/ RedeemAtB(r) \/ RedeemSubBadge(r)
<1>1. CASE \E r \in Runs : OcNext(r)
  BY <1>1 DEF OcNext, StartRun, OcCallFails, SignIn, BadgeScopeCheck, ResolveBadge,
     MintRead, ReadEgressCheck, FetchSource, Scan, Plan, UseDirectory, ExchangeAtA,
     MintIdJag, EgressCheck, CreateTicket, TicketLost, TicketAnswered, TicketAbandoned,
     TicketFinishes, world
<1>2. CASE \E r \in Runs : TrNext(r)
  BY <1>2 DEF TrNext, TrCallFails, VerifyIdJag, VerifyOpenCodeBadge, RegisterTriage,
     SubbadgeScopeCheck, TriageBadge, MintSubBadge, UseDirectoryB, SpawnSubAgent,
     SpawnLost, SpawnAnswered, SpawnAbandoned, SpawnFinishes, world
<1>3. CASE \E r \in Runs : SaNext(r)
  BY <1>3 DEF SaNext, SaCallFails, VerifySubBadge, RegisterSubAgent, SubAgentBadge,
     VerifyTriageBadge, WriteAnswered, WriteFails, PushFile, OpenPr, DeniedPrAttempt,
     Conclude, world
<1>4. CASE Crash \/ Rest \/ \E call \in sent : GiteaWrites(call)
  BY <1>4 DEF Crash, OpenCodeCrash, TriageCrash, SubAgentCrash, Rest, GiteaWrites, world,
     vars
<1> QED BY <1>1, <1>2, <1>3, <1>4 DEF Next

\* The token of a redemption.
LEMMA Redeemed ==
  ASSUME NEW r \in Runs, NEW assertion, NEW scope, Redeem(r, assertion, scope)
  PROVE  tokens' = tokens \cup
           {[grant |-> [run |-> r, claims |-> assertion],
             access |-> [azp |-> assertion.azp, user |-> assertion.sub, scope |-> scope]]}
BY DEF Redeem

\* Each of the three redemptions adds one of the three tokens; the one that writes finds
\* its parent, because the Sub-Agent works only after a ticket was sent.
LEMMA TokensStep == ASSUME AuthInv, Next PROVE TokensNarrow'
<1>1. CASE UNCHANGED tokens
  BY <1>1 DEF AuthInv, TokensNarrow, ReadToken, TicketToken, WriteToken
<1>2. ASSUME NEW new, tokens' = tokens \cup {new}, (ReadToken(new) \/ TicketToken(new))
      PROVE  TokensNarrow'
  BY <1>2 DEF AuthInv, TokensNarrow, ReadToken, TicketToken, WriteToken
<1>3. ASSUME NEW r \in Runs, RedeemRead(r) PROVE TokensNarrow'
  <2>1. Redeem(r, ReadAssertion(r), {"openid", "gitea:read"})
    BY <1>3 DEF RedeemRead
  <2>2. ReadAssertion(r).azp = OpenCode
    BY DEF ReadAssertion
  <2> QED BY <1>2, <2>1, <2>2, Redeemed DEF ReadToken
<1>4. ASSUME NEW r \in Runs, RedeemAtB(r) PROVE TokensNarrow'
  <2>1. Redeem(r, TriageAssertion(r), {"openid", "triage:create"})
    BY <1>4 DEF RedeemAtB
  <2>2. TriageAssertion(r).azp = Triage /\ TriageAssertion(r).chain = <<OpenCode>>
    BY DEF TriageAssertion
  <2> QED BY <1>2, <2>1, <2>2, Redeemed DEF TicketToken
<1>5. ASSUME NEW r \in Runs, RedeemSubBadge(r) PROVE TokensNarrow'
  <2>1. Redeem(r, SubBadge(r), {"openid", "gitea:write", "gitea:pr"})
    BY <1>5 DEF RedeemSubBadge
  <2>2. PICK new : /\ tokens' = tokens \cup {new}
                   /\ new = [grant |-> [run |-> r, claims |-> SubBadge(r)],
                             access |-> [azp |-> SubBadge(r).azp, user |-> SubBadge(r).sub,
                                         scope |-> {"openid", "gitea:write", "gitea:pr"}]]
    BY <2>1, Redeemed
  <2>3. SubBadge(r).azp = SubAgent /\ SubBadge(r).chain = <<OpenCode, Triage>>
    <3>1. SubBadge(r).azp = SubAgent /\ SubBadge(r).chain = SubChain(r)
      BY DEF SubBadge
    <3>2. SubChain(r) = Append(<<OpenCode>>, Triage)
      BY DEF SubChain, Ticket
    <3>3. OpenCode \in Agents /\ Triage \in Agents
      BY DEF Agents
    <3> QED BY <3>1, <3>2, <3>3, LongerChain
  <2>4. spc[r] # "idle"
    BY <1>5 DEF RedeemSubBadge, SaHalt, SaRecord
  <2>5. tpc[r] # "idle"
    BY <2>4 DEF AuthInv, IInv, RunInv, CallOrder
  <2>6. PICK parent \in tokens : parent.grant.run = r /\ TicketToken(parent)
    BY <2>5 DEF AuthInv, TicketsHaveTokens
  <2>7. parent \in tokens' /\ parent.grant.run = new.grant.run
    BY <2>2, <2>6
  <2>8. /\ new.grant.claims.azp = SubAgent
        /\ new.access.azp = SubAgent
        /\ new.access.scope = {"openid", "gitea:write", "gitea:pr"}
        /\ new.grant.claims.chain = <<OpenCode, Triage>>
    BY <2>2, <2>3
  <2>9. \E p \in tokens' : p.grant.run = new.grant.run /\ TicketToken(p)
    BY <2>6, <2>7
  <2>10. ASSUME NEW t \in tokens
         PROVE  ReadToken(t) \/ TicketToken(t) \/ WriteToken(t)'
    <3>1. CASE ReadToken(t) \/ TicketToken(t)
      BY <3>1
    <3>2. CASE WriteToken(t)
      BY <3>2, <2>2 DEF WriteToken
    <3> QED BY <3>1, <3>2 DEF AuthInv, TokensNarrow
  <2>11. WriteToken(new)'
    BY <2>8, <2>9 DEF WriteToken
  <2> QED BY <2>2, <2>10, <2>11 DEF TokensNarrow
<1> QED BY <1>1, <1>3, <1>4, <1>5, TokenSteps

\* A token is never taken away.
LEMMA TokensStay == ASSUME Next PROVE tokens \subseteq tokens'
<1>1. ASSUME NEW r \in Runs, RedeemRead(r) \/ RedeemAtB(r) \/ RedeemSubBadge(r)
      PROVE  tokens \subseteq tokens'
  BY <1>1 DEF RedeemRead, RedeemAtB, RedeemSubBadge, Redeem
<1> QED BY <1>1, TokenSteps

\* Triage's handler starts with the token OpenCode holds.
LEMMA TicketsStep == ASSUME AuthInv, Next PROVE TicketsHaveTokens'
<1> SUFFICES ASSUME NEW r \in Runs, tpc'[r] # "idle"
             PROVE  \E t \in tokens' : t.grant.run = r /\ TicketToken(t)
  BY DEF TicketsHaveTokens, TicketToken
<1>1. CASE tpc[r] # "idle"
  BY <1>1, TokensStay DEF AuthInv, TicketsHaveTokens
<1>2. CASE tpc[r] = "idle"
  <2>1. CreateTicket(r)
    <3>1. ~Untouched(r)
      BY <1>2 DEF Untouched
    <3>2. ~Crash /\ ~Rest /\ ~ \E call \in sent : GiteaWrites(call)
      BY <1>2 DEF Crash, OpenCodeCrash, TriageCrash, SubAgentCrash, Rest, GiteaWrites,
         vars, trVars, TrBusy
    <3>3. OcNext(r) \/ TrNext(r) \/ SaNext(r)
      BY <3>1, <3>2, OthersUntouched DEF Next, AuthInv, IInv
    <3>4. ~TrNext(r)
      BY <1>2 DEF TrNext, TrCallFails, VerifyIdJag, VerifyOpenCodeBadge, RegisterTriage,
         SubbadgeScopeCheck, TriageBadge, MintSubBadge, UseDirectoryB, SpawnSubAgent,
         SpawnLost, SpawnAnswered, SpawnAbandoned, SpawnFinishes, TrAnswered, TrOk,
         TrRefused, TrHalt, TrRecord, TrFatal
    <3>5. ~SaNext(r)
      BY <1>2 DEF SaNext, SaCallFails, VerifySubBadge, RegisterSubAgent, SubAgentBadge,
         VerifyTriageBadge, RedeemSubBadge, WriteAnswered, WriteFails, PushFile, OpenPr,
         DeniedPrAttempt, Conclude, trVars
    <3> QED BY <1>2, <3>3, <3>4, <3>5
      DEF OcNext, StartRun, OcCallFails, SignIn, BadgeScopeCheck, ResolveBadge, MintRead,
          ReadEgressCheck, RedeemRead, FetchSource, Scan, Plan, UseDirectory, ExchangeAtA,
          MintIdJag, EgressCheck, RedeemAtB, TicketLost, TicketAnswered, TicketAbandoned,
          TicketFinishes, trVars
  <2>2. PICK t \in tokens : t.grant = [run |-> r, claims |-> TriageAssertion(r)]
    BY <2>1 DEF CreateTicket, HasToken
  <2>3. t.grant.run = r /\ t.grant.claims.azp = Triage
    BY <2>2 DEF TriageAssertion
  <2>4. TicketToken(t)
    BY <2>3 DEF AuthInv, TokensNarrow, ReadToken, WriteToken, OpenCode, Triage, SubAgent
  <2> QED BY <2>3, <2>4, TokensStay
<1> QED BY <1>1, <1>2

\* What the tokens say and what the tickets rest on holds in every reachable state.
THEOREM AuthorityInvariant == Spec => []AuthInv
<1>1. AuthInv /\ [Next]_vars => AuthInv'
  <2>1. CASE AuthInv /\ Next
    BY <2>1, StepIInv, TokensStep, TicketsStep DEF AuthInv
  <2>2. CASE AuthInv /\ UNCHANGED vars
    <3>1. IInv'
      BY <2>2, StepIInv DEF AuthInv
    <3>2. tokens' = tokens /\ tpc' = tpc
      BY <2>2 DEF vars, trVars, world
    <3> QED BY <2>2, <3>1, <3>2 DEF AuthInv, TokensNarrow, TicketsHaveTokens, ReadToken,
              TicketToken, WriteToken
  <2> QED BY <2>1, <2>2
<1> QED BY <1>1, InitAuth, PTL DEF Spec

\* Authority narrows hop by hop, for any number of runs and whatever fails: every
\* token of Keycloak B that writes belongs to the Sub-Agent and descends from a
\* redeemed grant to Triage in the same run.
THEOREM AuthorityIsNarrow == Spec => []AuthorityNarrows
<1>1. ASSUME AuthInv PROVE AuthorityNarrows
  <2> SUFFICES ASSUME NEW t \in tokens,
                      t.access.scope \cap {"gitea:write", "gitea:pr"} # {}
               PROVE  /\ t.access.azp = SubAgent
                      /\ t.access.scope \cap {"triage:create", "gitea:read"} = {}
                      /\ \E parent \in tokens :
                           /\ parent.grant.run = t.grant.run
                           /\ parent.access.azp = Triage
                           /\ parent.grant.claims.chain = ButLast(t.grant.claims.chain)
    BY DEF AuthorityNarrows
  <2>1. WriteToken(t)
    BY <1>1 DEF AuthInv, TokensNarrow, ReadToken, TicketToken
  <2>2. PICK parent \in tokens : parent.grant.run = t.grant.run /\ TicketToken(parent)
    BY <2>1 DEF WriteToken
  <2>3. ButLast(t.grant.claims.chain) = parent.grant.claims.chain
    <3>1. OpenCode \in Agents /\ Triage \in Agents
      BY DEF Agents
    <3> QED BY <2>1, <2>2, <3>1, ShorterChain DEF WriteToken, TicketToken
  <2>4. t.access.scope \cap {"triage:create", "gitea:read"} = {}
    BY <2>1 DEF WriteToken
  <2> QED BY <2>1, <2>2, <2>3, <2>4 DEF WriteToken, TicketToken
<1> QED BY <1>1, AuthorityInvariant, PTL

-----------------------------------------------------------------------------
(***************************************************************************)
(* Clean runs.  That a run nothing fails for is never refused takes the    *)
(* agreement of every copy of the scope and chain rules on every call the  *)
(* agents make, and of what one run meets with what the others published:  *)
(* a handler is shown any of the badges of its sender, not its own run's.  *)
(* The safety half of CleanRunSucceeds.                                    *)
(***************************************************************************)

\* All badges of a sender say the same, whichever run published them.
BadgesAgree ==
  \A b \in badges :
    /\ b.subject = OpenCode =>
         b.delegatable = {"openid", "triage:create"} /\ b.chain = <<OpenCode>>
    /\ b.subject = Triage =>
         b.delegatable = SubbadgeScope /\ b.chain = <<OpenCode, Triage>>

SarahsTokens == \A t \in tokens : t.access.user = "sarah"

BadgeOf(agent) == \E b \in badges : b.subject = agent

\* What lies ahead of a handler's position finds the badge and the token it needs.
Held(r) ==
  /\ \/ opc[r] \in OcUpToScope \cup {"resolve-badge"} \cup OcEnded /\ tpc[r] = "idle"
     \/ BadgeOf(OpenCode)
  /\ \/ tpc[r] \in TrUpToScope \cup {"resolve-badge"} \cup TrEnded /\ spc[r] = "idle"
     \/ BadgeOf(Triage)
  /\ opc[r] = "fetch-source" => HasToken(r, ReadAssertion(r))
  /\ tpc[r] # "idle" => HasToken(r, TriageAssertion(r))
  /\ spc[r] \in {"push-file", "pushing", "open-pr", "opening", "denied-pr-attempt"} =>
       HasToken(r, SubBadge(r))

\* A run that has not begun has no report.
Blank(r) ==
  opc[r] = "idle" =>
    /\ verdict[r] = "none"
    /\ \A s \in OcSteps : osteps[r][s] = "none"
    /\ \A s \in TrSteps : tsteps[r][s] = "none"
    /\ \A s \in SaSteps : ssteps[r][s] = "none"

\* While nothing has failed no step of a run on an allowed repository is an error,
\* but for the scan and the ticket of a finding that is none.
CleanReports(r) ==
  faults = 0 /\ task[r].repo \in BadgeRepos =>
    /\ opc[r] # "crashed" /\ tpc[r] # "crashed" /\ spc[r] # "crashed"
    /\ \A s \in OcSteps \ {"scan", "create-ticket"} :
         osteps[r][s] \in {"none", "ok", "skipped"}
    /\ opc[r] # "done" => osteps[r]["create-ticket"] = "none"
    /\ \A s \in TrSteps : tsteps[r][s] \in {"none", "ok"}
    /\ \A s \in SaSteps : ssteps[r][s] \in {"none", "ok", "denied"}
    /\ spc[r] \in {"open-pr", "opening", "denied-pr-attempt", "dir-push"} =>
         ssteps[r]["push-file"] = "ok"
    /\ spc[r] \in {"denied-pr-attempt", "dir-push"} => ssteps[r]["open-pr"] = "ok"
    /\ verdict[r] = "failed" =>
         osteps[r]["scan"] = "error" \/ task[r].cve \notin WellFormed

CleanInv ==
  /\ AuthInv /\ BadgesAgree /\ SarahsTokens
  /\ \A r \in Runs : Held(r) /\ Blank(r) /\ CleanReports(r)

\* Nothing has been published, issued or reported at the start.
LEMMA InitClean == Init => CleanInv
<1> SUFFICES ASSUME Init PROVE CleanInv
  OBVIOUS
<1>1. BadgesAgree /\ SarahsTokens
  BY DEF Init, BadgesAgree, SarahsTokens
<1>2. ASSUME NEW r \in Runs PROVE Held(r) /\ Blank(r) /\ CleanReports(r)
  <2>1. /\ opc[r] = "idle" /\ tpc[r] = "idle" /\ spc[r] = "idle" /\ verdict[r] = "none"
        /\ \A s \in OcSteps : osteps[r][s] = "none"
        /\ \A s \in TrSteps : tsteps[r][s] = "none"
        /\ \A s \in SaSteps : ssteps[r][s] = "none"
    BY DEF Init, OcInit, TrInit, SaInit
  <2>2. Held(r)
    BY <2>1 DEF Held, OcUpToScope, TrUpToScope, TrUpToSender, TrUpToIdJag
  <2>3. Blank(r) /\ CleanReports(r)
    BY <2>1 DEF Blank, CleanReports, OcSteps
  <2> QED BY <2>2, <2>3
<1> QED BY <1>1, <1>2, InitAuth DEF CleanInv

-----------------------------------------------------------------------------
(* What the policies decide on the claims of a clean run                   *)

\* The act_chain at each hop, and the last and the earlier members of it.
LEMMA ChainFacts ==
  ASSUME NEW r
  PROVE  /\ Ticket(r).chain = <<OpenCode>> /\ LastOf(<<OpenCode>>) = OpenCode
         /\ SubChain(r) = <<OpenCode, Triage>>
         /\ Spawn(r).chain = <<OpenCode, Triage, SubAgent>>
         /\ LastOf(Spawn(r).chain) = SubAgent
         /\ ButLast(Spawn(r).chain) = <<OpenCode, Triage>>
         /\ <<OpenCode, Triage, SubAgent>> = Append(<<OpenCode, Triage>>, SubAgent)
<1>1. OpenCode \in Agents /\ Triage \in Agents /\ SubAgent \in Agents
  BY DEF Agents
<1>2. Ticket(r).chain = <<OpenCode>>
  BY DEF Ticket
<1>3. SubChain(r) = <<OpenCode, Triage>>
  BY <1>1, <1>2, LongerChain DEF SubChain
<1>4. <<OpenCode, Triage, SubAgent>> = Append(<<OpenCode, Triage>>, SubAgent)
  BY DEF OpenCode, Triage, SubAgent
<1>5. Spawn(r).chain = <<OpenCode, Triage, SubAgent>>
  BY <1>3, <1>4 DEF Spawn
<1>6. LastOf(<<OpenCode>>) = OpenCode
  BY DEF LastOf
<1>7. LastOf(<<OpenCode, Triage, SubAgent>>) = SubAgent
  BY DEF LastOf
<1>8. ButLast(<<OpenCode, Triage, SubAgent>>) = <<OpenCode, Triage>>
  <2> DEFINE whole == <<OpenCode, Triage, SubAgent>>
             short == SubSeq(whole, 1, 2)
             pair == <<OpenCode, Triage>>
  <2>1. /\ whole \in Seq(Agents) /\ Len(whole) = 3
        /\ whole[1] = OpenCode /\ whole[2] = Triage
    BY <1>1
  <2>2. short \in Seq(Agents) /\ Len(short) = 2 /\ short[1] = OpenCode /\ short[2] = Triage
    BY <2>1, SubSeqProperties
  <2>3. pair \in Seq(Agents) /\ Len(pair) = 2 /\ pair[1] = OpenCode /\ pair[2] = Triage
    BY <1>1
  <2>4. \A i \in 1..2 : short[i] = pair[i]
    BY <2>2, <2>3
  <2>5. short = pair
    <3> HIDE DEF short, pair
    <3> QED BY <2>2, <2>3, <2>4, SeqEqual
  <2> QED BY <2>1, <2>5 DEF ButLast
<1> QED BY <1>2, <1>3, <1>4, <1>5, <1>6, <1>7, <1>8

\* Keycloak mints all three assertions.
LEMMA MintsArePermitted ==
  ASSUME NEW r
  PROVE  /\ DelegationPermitted("org-a", OpenCode, ReadAssertion(r).scope)
         /\ DelegationPermitted("org-a", OpenCode, TriageAssertion(r).scope)
         /\ DelegationPermitted("org-b", Triage, SubBadge(r).scope)
<1>1. AllowedScopes("org-a", OpenCode) = {"openid", "triage:create", "gitea:read"}
  BY DEF AllowedScopes
<1>2. AllowedScopes("org-b", Triage) = {"openid", "gitea:write", "gitea:pr"}
  BY DEF AllowedScopes
<1>3. /\ ReadAssertion(r).scope = {"openid", "gitea:read"}
      /\ TriageAssertion(r).scope = {"openid", "triage:create"}
      /\ SubBadge(r).scope = {"openid", "gitea:write", "gitea:pr"}
  BY DEF ReadAssertion, TriageAssertion, SubBadge, SubbadgeScope
<1> QED BY <1>1, <1>2, <1>3 DEF DelegationPermitted

\* Org A lets both assertions out.
LEMMA EgressIsAllowed ==
  ASSUME NEW r, task[r].repo \in BadgeRepos
  PROVE  EgressAllows(ReadAssertion(r)) /\ EgressAllows(TriageAssertion(r))
<1>1. ReadEgressAllows(ReadAssertion(r))
  BY DEF ReadEgressAllows, ReadAssertion
<1>2. /\ Len(<<OpenCode>>) = 1 /\ <<OpenCode>>[1] = OpenCode
      /\ TriageAssertion(r).chain = <<OpenCode>>
  BY DEF TriageAssertion
<1>3. RemediationEgressAllows(TriageAssertion(r))
  BY <1>2, ChainFacts DEF RemediationEgressAllows, TriageAssertion
<1> QED BY <1>1, <1>3 DEF EgressAllows

\* A token that is held is one of those on record.
LEMMA HeldToken ==
  ASSUME NEW r, NEW assertion, HasToken(r, assertion), TokensNarrow, SarahsTokens
  PROVE  LET access == TokenOf(r, assertion) IN
         /\ access.user = "sarah"
         /\ assertion.azp = OpenCode =>
              access.azp = OpenCode /\ access.scope = {"openid", "gitea:read"}
         /\ assertion.azp = Triage =>
              access.azp = Triage /\ access.scope = {"openid", "triage:create"}
         /\ assertion.azp = SubAgent =>
              access.azp = SubAgent /\ access.scope = {"openid", "gitea:write", "gitea:pr"}
<1>1. PICK t \in tokens : /\ t.grant = [run |-> r, claims |-> assertion]
                          /\ TokenOf(r, assertion) = t.access
  BY DEF HasToken, TokenOf
<1>2. t.grant.claims = assertion
  BY <1>1
<1>3. t.access.user = "sarah" /\ (ReadToken(t) \/ TicketToken(t) \/ WriteToken(t))
  BY DEF SarahsTokens, TokensNarrow
<1> QED BY <1>1, <1>2, <1>3
  DEF ReadToken, TicketToken, WriteToken, OpenCode, Triage, SubAgent

\* Org B lets the source be read, and takes the ticket of a finding that is one.
LEMMA ReadIsAllowed ==
  ASSUME CleanInv, NEW r \in Runs, task[r].repo \in BadgeRepos,
         HasToken(r, ReadAssertion(r))
  PROVE  ReadAllows(TokenOf(r, ReadAssertion(r)), ReadAssertion(r), task[r].repo)
<1>1. ReadAssertion(r).azp = OpenCode
  BY DEF ReadAssertion
<1> QED BY <1>1, HeldToken, RepoAssumption DEF CleanInv, AuthInv, ReadAllows, ReadAssertion

\* Envoy B, the sub-badge scope policy and Triage agree on what an allowed ticket is.
LEMMA TicketIsAllowed ==
  ASSUME CleanInv, NEW r \in Runs, task[r].repo \in BadgeRepos,
         HasToken(r, TriageAssertion(r))
  PROVE  /\ TicketAllows(TokenOf(r, TriageAssertion(r)), TriageAssertion(r), Ticket(r))
              <=> task[r].cve \in WellFormed
         /\ SubbadgeScopeAllows(TokenOf(r, TriageAssertion(r)), SubbadgeScope,
                                Ticket(r).repo, Ticket(r).intent)
         /\ IdJagAccepted(TriageAssertion(r), Ticket(r))
<1>1. TriageAssertion(r).azp = Triage /\ Len(<<OpenCode>>) = 1 /\ <<OpenCode>> # <<>>
  BY DEF TriageAssertion
<1>2. /\ TokenOf(r, TriageAssertion(r)).user = "sarah"
      /\ TokenOf(r, TriageAssertion(r)).azp = Triage
      /\ TokenOf(r, TriageAssertion(r)).scope = {"openid", "triage:create"}
  BY <1>1, HeldToken DEF CleanInv, AuthInv
<1>3. TicketAllows(TokenOf(r, TriageAssertion(r)), TriageAssertion(r), Ticket(r))
        <=> task[r].cve \in WellFormed
  <2>1. /\ TriageAssertion(r).scope = {"openid", "triage:create"}
        /\ TriageAssertion(r).sub = "sarah" /\ TriageAssertion(r).chain = <<OpenCode>>
        /\ TriageAssertion(r).intent = {"create-pr-fix"}
    BY DEF TriageAssertion
  <2>2. /\ Ticket(r).agent = OpenCode /\ Ticket(r).chain = <<OpenCode>>
        /\ Ticket(r).intent = "create-pr-fix" /\ Ticket(r).repo = task[r].repo
        /\ Ticket(r).cve = task[r].cve
    BY DEF Ticket
  <2>3. Ticket(r).repo \in OwnRepos /\ LastOf(<<OpenCode>>) = OpenCode
    BY <2>2, ChainFacts, RepoAssumption
  <2> QED BY <1>1, <1>2, <2>1, <2>2, <2>3 DEF TicketAllows
<1>4. SubbadgeScopeAllows(TokenOf(r, TriageAssertion(r)), SubbadgeScope,
                          Ticket(r).repo, Ticket(r).intent)
  BY <1>2, RepoAssumption DEF SubbadgeScopeAllows, SubbadgeScope, Ticket
<1> QED BY <1>3, <1>4 DEF IdJagAccepted, TriageAssertion, Ticket

\* The Sub-Agent accepts its sub-badge, and whichever badges they are shown, it
\* and Triage accept their senders'.
LEMMA SendersAgree ==
  ASSUME CleanInv, NEW r \in Runs
  PROVE  /\ SubBadgeAccepted(SubBadge(r), Spawn(r))
         /\ \A b \in badges : b.subject = OpenCode =>
              SenderBadgeAgrees(b, TriageAssertion(r), Ticket(r).chain)
         /\ \A b \in badges : b.subject = Triage =>
              SenderBadgeAgrees(b, SubBadge(r), ButLast(Spawn(r).chain))
<1>1. /\ SubBadge(r).chain = <<OpenCode, Triage>> /\ SubBadge(r).scope = SubbadgeScope
      /\ Spawn(r).chain # <<>>
  BY ChainFacts DEF SubBadge
<1>2. SubBadgeAccepted(SubBadge(r), Spawn(r))
  BY <1>1, ChainFacts DEF SubBadgeAccepted, SubBadge, SubbadgeScope, Spawn
<1> QED BY <1>1, <1>2, ChainFacts
  DEF CleanInv, BadgesAgree, SenderBadgeAgrees, TriageAssertion

\* The push is admitted, the pull request once it has been answered, the attempt
\* never.
LEMMA WritesAreAdmitted ==
  ASSUME CleanInv, NEW r \in Runs, task[r].repo \in BadgeRepos,
         HasToken(r, SubBadge(r))
  PROVE  /\ Admitted(r, WriteRequest(r, "push-file", Spawn(r).repo, "none"))
         /\ ssteps[r]["push-file"] = "ok" =>
              Admitted(r, WriteRequest(r, "open-pr", Spawn(r).repo, "remediate"))
<1> DEFINE push == WriteRequest(r, "push-file", Spawn(r).repo, "none")
           open == WriteRequest(r, "open-pr", Spawn(r).repo, "remediate")
<1>1. /\ SubBadge(r).azp = SubAgent /\ SubBadge(r).iss = "org-b"
      /\ SubBadge(r).sub = "sarah" /\ SubBadge(r).chain = <<OpenCode, Triage>>
      /\ SubBadge(r).scope = {"openid", "gitea:write", "gitea:pr"}
      /\ SubBadge(r).intent = {"create-pr-fix"} /\ SubBadge(r).resource = {task[r].repo}
  BY ChainFacts DEF SubBadge, SubbadgeScope, Ticket
<1>2. /\ TokenOf(r, SubBadge(r)).user = "sarah" /\ TokenOf(r, SubBadge(r)).azp = SubAgent
      /\ TokenOf(r, SubBadge(r)).scope = {"openid", "gitea:write", "gitea:pr"}
  BY <1>1, HeldToken DEF CleanInv, AuthInv
<1>3. /\ push.action = "push-file" /\ push.repo = task[r].repo /\ push.ticket
      /\ push.chain = <<OpenCode, Triage, SubAgent>> /\ push.intent = "create-pr-fix"
  BY ChainFacts DEF WriteRequest, Spawn, Ticket
<1>4. /\ open.action = "open-pr" /\ open.repo = task[r].repo /\ open.ticket
      /\ open.chain = <<OpenCode, Triage, SubAgent>> /\ open.intent = "create-pr-fix"
      /\ open.title = "remediate"
      /\ ssteps[r]["push-file"] = "ok" => open.head = "agent/feature"
  BY ChainFacts DEF WriteRequest, Spawn, Ticket
<1>5. task[r].repo \in OwnRepos \ ProtectedRepos
  BY RepoAssumption
<1> HIDE DEF push, open
<1>6. Admitted(r, push)
  BY <1>1, <1>2, <1>3, <1>5, ChainFacts
     DEF Admitted, EnvoyAdmits, WriteAllows, GatewayAdmits, RequiredScope, ValidActionBody
<1>7. ssteps[r]["push-file"] = "ok" => Admitted(r, open)
  BY <1>1, <1>2, <1>4, <1>5, ChainFacts
     DEF Admitted, EnvoyAdmits, WriteAllows, GatewayAdmits, RequiredScope, ValidActionBody
<1> QED BY <1>6, <1>7 DEF push, open

\* The title of the deny-listed attempt is none a pull request may have.
LEMMA AttemptIsRefused ==
  ASSUME NEW r, NEW repo
  PROVE  ~Admitted(r, WriteRequest(r, "open-pr", repo, "attempted"))
BY DEF Admitted, EnvoyAdmits, WriteAllows, ValidActionBody, WriteRequest
-----------------------------------------------------------------------------
(* Clean runs: what a step leaves to everybody                             *)

\* Badges and tokens stay, and so does a failure.
Grows ==
  /\ badges \subseteq badges' /\ tokens \subseteq tokens'
  /\ faults' = 0 => faults = 0

\* Failures are only ever counted up.
LEMMA FaultsStay ==
  ASSUME faults \in 0..MaxFaults, Next
  PROVE  faults' = 0 => faults = 0
<1>0. Fault => faults' # 0
  BY FaultAssumption DEF Fault
<1>1. CASE \E r \in Runs : OcNext(r)
  BY <1>0, <1>1 DEF OcNext, StartRun, OcCallFails, SignIn, BadgeScopeCheck, ResolveBadge,
     MintRead, ReadEgressCheck, RedeemRead, FetchSource, Scan, Plan, UseDirectory,
     ExchangeAtA, MintIdJag, EgressCheck, RedeemAtB, CreateTicket, TicketLost,
     TicketAnswered, TicketAbandoned, OcAnswered, OcTolerated, OcOk, OcRefused
<1>2. CASE \E r \in Runs : TrNext(r)
  BY <1>0, <1>2 DEF TrNext, TrCallFails, VerifyIdJag, VerifyOpenCodeBadge, RegisterTriage,
     SubbadgeScopeCheck, TriageBadge, MintSubBadge, UseDirectoryB, SpawnSubAgent,
     SpawnLost, SpawnAnswered, SpawnAbandoned, TrAnswered, TrOk, TrRefused
<1>3. CASE \E r \in Runs : SaNext(r)
  BY <1>0, <1>3 DEF SaNext, SaCallFails, VerifySubBadge, RegisterSubAgent, SubAgentBadge,
     VerifyTriageBadge, RedeemSubBadge, WriteAnswered, WriteFails, PushFile, OpenPr,
     DeniedPrAttempt, Conclude, WriteDenied, SaOk, SaRefused
<1>4. CASE Crash \/ Rest \/ \E call \in sent : GiteaWrites(call)
  BY <1>0, <1>4 DEF Crash, OpenCodeCrash, TriageCrash, SubAgentCrash, Rest, GiteaWrites,
     vars
<1> QED BY <1>1, <1>2, <1>3, <1>4 DEF Next

\* Three steps publish a badge, each always the same but for the Sub-Agent's.
LEMMA BadgeSteps ==
  ASSUME Next
  PROVE  \/ UNCHANGED badges
         \/ \E r \in Runs : ResolveBadge(r) \/ TriageBadge(r) \/ SubAgentBadge(r)
<1>1. CASE \E r \in Runs : OcNext(r)
  BY <1>1 DEF OcNext, StartRun, OcCallFails, SignIn, BadgeScopeCheck, MintRead,
     ReadEgressCheck, RedeemRead, FetchSource, Scan, Plan, UseDirectory, ExchangeAtA,
     MintIdJag, EgressCheck, RedeemAtB, CreateTicket, TicketLost, TicketAnswered,
     TicketAbandoned, TicketFinishes, world
<1>2. CASE \E r \in Runs : TrNext(r)
  BY <1>2 DEF TrNext, TrCallFails, VerifyIdJag, VerifyOpenCodeBadge, RegisterTriage,
     SubbadgeScopeCheck, MintSubBadge, UseDirectoryB, SpawnSubAgent,
     SpawnLost, SpawnAnswered, SpawnAbandoned, SpawnFinishes, world
<1>3. CASE \E r \in Runs : SaNext(r)
  BY <1>3 DEF SaNext, SaCallFails, VerifySubBadge, RegisterSubAgent,
     VerifyTriageBadge, RedeemSubBadge, WriteAnswered, WriteFails, PushFile, OpenPr,
     DeniedPrAttempt, Conclude, world
<1>4. CASE Crash \/ Rest \/ \E call \in sent : GiteaWrites(call)
  BY <1>4 DEF Crash, OpenCodeCrash, TriageCrash, SubAgentCrash, Rest, GiteaWrites, world,
     vars
<1> QED BY <1>1, <1>2, <1>3, <1>4 DEF Next

\* The badge of a publication.
LEMMA Issued ==
  ASSUME NEW subject, NEW caps, NEW delegatable, NEW chain,
         IssueBadge(subject, caps, delegatable, chain)
  PROVE  \E new : /\ badges' = badges \cup {new} /\ new.subject = subject
                  /\ new.delegatable = delegatable /\ new.chain = chain
<1> DEFINE new == [subject |-> subject, caps |-> caps, delegatable |-> delegatable,
                   chain |-> chain]
<1>1. badges' = badges \cup {new}
  BY DEF IssueBadge
<1>2. new.subject = subject /\ new.delegatable = delegatable /\ new.chain = chain
  OBVIOUS
<1> HIDE DEF new
<1> QED BY <1>1, <1>2

\* Badges go on agreeing, and none is withdrawn.
LEMMA BadgesStep ==
  ASSUME BadgesAgree, Next
  PROVE  BadgesAgree' /\ badges \subseteq badges'
<1>1. CASE UNCHANGED badges
  BY <1>1 DEF BadgesAgree
<1>2. ASSUME NEW r \in Runs, ResolveBadge(r)
      PROVE  BadgesAgree' /\ badges \subseteq badges'
  <2>1. PICK new : /\ badges' = badges \cup {new} /\ new.subject = OpenCode
                   /\ new.delegatable = {"openid", "triage:create"}
                   /\ new.chain = <<OpenCode>>
    BY <1>2, Issued DEF ResolveBadge
  <2> QED BY <2>1 DEF BadgesAgree, OpenCode, Triage
<1>3. ASSUME NEW r \in Runs, TriageBadge(r)
      PROVE  BadgesAgree' /\ badges \subseteq badges'
  <2>1. PICK new : /\ badges' = badges \cup {new} /\ new.subject = Triage
                   /\ new.delegatable = SubbadgeScope /\ new.chain = SubChain(r)
    BY <1>3, Issued DEF TriageBadge
  <2> QED BY <2>1, ChainFacts DEF BadgesAgree, OpenCode, Triage
<1>4. ASSUME NEW r \in Runs, SubAgentBadge(r)
      PROVE  BadgesAgree' /\ badges \subseteq badges'
  <2>1. PICK new : badges' = badges \cup {new} /\ new.subject = SubAgent
    BY <1>4, Issued DEF SubAgentBadge
  <2> QED BY <2>1 DEF BadgesAgree, OpenCode, Triage, SubAgent
<1> QED BY <1>1, <1>2, <1>3, <1>4, BadgeSteps

\* Every assertion names Sarah.
LEMMA SarahsStep == ASSUME SarahsTokens, Next PROVE SarahsTokens'
<1>1. ASSUME NEW r \in Runs, NEW assertion, NEW scope, Redeem(r, assertion, scope),
             assertion.sub = "sarah"
      PROVE  SarahsTokens'
  BY <1>1, Redeemed DEF SarahsTokens
<1>2. ASSUME NEW r \in Runs, RedeemRead(r) \/ RedeemAtB(r) \/ RedeemSubBadge(r)
      PROVE  SarahsTokens'
  <2>1. /\ ReadAssertion(r).sub = "sarah" /\ TriageAssertion(r).sub = "sarah"
        /\ SubBadge(r).sub = "sarah"
    BY DEF ReadAssertion, TriageAssertion, SubBadge
  <2> QED BY <1>1, <1>2, <2>1 DEF RedeemRead, RedeemAtB, RedeemSubBadge
<1> QED BY <1>2, TokenSteps DEF SarahsTokens

\* What every step leaves to every run.
LEMMA WorldGrows ==
  ASSUME CleanInv, Next
  PROVE  Grows /\ BadgesAgree' /\ SarahsTokens'
<1>1. faults \in 0..MaxFaults
  BY DEF CleanInv, AuthInv, IInv, TypeOK, WorldTypeOK
<1> QED BY <1>1, FaultsStay, BadgesStep, SarahsStep, TokensStay DEF CleanInv, Grows

RunClean(r) == Held(r) /\ Blank(r) /\ CleanReports(r)

\* What is held stays held as long as the run's repository does not change.
LEMMA HeldStays ==
  ASSUME Grows, NEW r \in Runs, task'[r].repo = task[r].repo
  PROVE  /\ \A agent : BadgeOf(agent) => BadgeOf(agent)'
         /\ HasToken(r, ReadAssertion(r)) => HasToken(r, ReadAssertion(r))'
         /\ HasToken(r, TriageAssertion(r)) => HasToken(r, TriageAssertion(r))'
         /\ HasToken(r, SubBadge(r)) => HasToken(r, SubBadge(r))'
<1>1. /\ ReadAssertion(r)' = ReadAssertion(r) /\ TriageAssertion(r)' = TriageAssertion(r)
      /\ SubBadge(r)' = SubBadge(r)
  BY DEF ReadAssertion, TriageAssertion, SubBadge, SubChain, Ticket
<1>2. \A agent : BadgeOf(agent) => BadgeOf(agent)'
  BY DEF Grows, BadgeOf
<1> QED BY <1>1, <1>2 DEF Grows, HasToken

\* A run keeps its part of the invariant through a step that is not its own.
LEMMA OthersClean ==
  ASSUME Grows, NEW r \in Runs, RunClean(r), Untouched(r), task'[r] = task[r]
  PROVE  RunClean(r)'
<1>1. Held(r)'
  BY HeldStays DEF RunClean, Held, Untouched
<1>2. Blank(r)' /\ CleanReports(r)'
  BY DEF RunClean, Blank, CleanReports, Untouched, Grows
<1> QED BY <1>1, <1>2 DEF RunClean

\* No step of one run changes what another was asked to do.
LEMMA OthersTask ==
  ASSUME TypeOK, NEW r \in Runs, NEW other \in Runs, other # r,
         OcNext(r) \/ TrNext(r) \/ SaNext(r)
  PROVE  task'[other] = task[other]
<1>0. task \in [Runs -> [repo : Repos, cve : Findings]]
  BY DEF TypeOK, WorldTypeOK
<1>1. CASE OcNext(r)
  BY <1>0, <1>1 DEF OcNext, StartRun, OcCallFails, SignIn, BadgeScopeCheck, ResolveBadge,
     MintRead, ReadEgressCheck, RedeemRead, FetchSource, Scan, Plan, UseDirectory,
     ExchangeAtA, MintIdJag, EgressCheck, RedeemAtB, CreateTicket, TicketLost,
     TicketAnswered, TicketAbandoned, TicketFinishes, world
<1>2. CASE TrNext(r) \/ SaNext(r)
  <2>1. UNCHANGED task
    BY <1>2 DEF TrNext, TrCallFails, VerifyIdJag, VerifyOpenCodeBadge, RegisterTriage,
       SubbadgeScopeCheck, TriageBadge, MintSubBadge, UseDirectoryB, SpawnSubAgent,
       SpawnLost, SpawnAnswered, SpawnAbandoned, SpawnFinishes, SaNext, SaCallFails,
       VerifySubBadge, RegisterSubAgent, SubAgentBadge, VerifyTriageBadge, RedeemSubBadge,
       WriteAnswered, WriteFails, PushFile, OpenPr, DeniedPrAttempt, Conclude, world
  <2> QED BY <2>1
<1> QED BY <1>1, <1>2
-----------------------------------------------------------------------------
(* Clean runs: OpenCode's steps                                            *)

OcNoBadge == OcUpToScope \cup {"resolve-badge"}

\* One recorded step: with the badge and the token the next position needs, and
\* either no error, or a failure, or a run that is not for an allowed repository.
LEMMA OcRecordClean ==
  ASSUME CleanInv, Grows, NEW r \in Runs, NEW step \in OcSteps, NEW status,
         NEW next \in OcSteps \cup {"done"}, OcRecord(r, step, status, next),
         UNCHANGED <<trVars, saVars>>, task'[r].repo = task[r].repo,
         next \in OcNoBadge \cup {"done"} \/ step \notin OcNoBadge \/ BadgeOf(OpenCode)',
         next = "fetch-source" => HasToken(r, ReadAssertion(r))',
         \/ faults' # 0 \/ task[r].repo \notin BadgeRepos
         \/ /\ step # "create-ticket" /\ next # "done" /\ UNCHANGED verdict
            /\ status \in {"ok", "skipped"} \/ step = "scan"
         \/ step = "create-ticket" /\ next = "done" /\ task'[r].cve \notin WellFormed
  PROVE  RunClean(r)'
<1>0. /\ OcTypeOK /\ RunClean(r) /\ CallOrder(r)
      /\ opc[r] = step /\ step \notin {"idle", "done", "crashed"}
  BY DEF CleanInv, AuthInv, IInv, TypeOK, RunInv, RunClean, OcRecord, OcSteps
<1>1. /\ opc'[r] = next /\ next \notin {"idle", "crashed"}
      /\ \A s \in OcSteps : s # step => osteps'[r][s] = osteps[r][s]
      /\ osteps'[r][step] = status
      /\ tpc'[r] = tpc[r] /\ tsteps'[r] = tsteps[r]
      /\ spc'[r] = spc[r] /\ ssteps'[r] = ssteps[r]
  BY <1>0 DEF OcRecord, OcTypeOK, OcSteps, trVars, saVars
<1>2. tpc[r] = "idle" /\ spc[r] = "idle"
  BY <1>0 DEF CallOrder, OcSteps
<1>3. Held(r)'
  <2>1. \/ next \in OcUpToScope \cup {"resolve-badge"} \cup OcEnded
        \/ BadgeOf(OpenCode)'
    <3>1. CASE next \in OcNoBadge \cup {"done"}
      BY <3>1 DEF OcNoBadge, OcEnded
    <3>2. CASE step \notin OcNoBadge
      <4>1. BadgeOf(OpenCode)
        BY <1>0, <1>2, <3>2 DEF RunClean, Held, OcNoBadge, OcEnded
      <4> QED BY <4>1, HeldStays
    <3> QED BY <3>1, <3>2
  <2> QED BY <1>1, <1>2, <2>1 DEF Held, TrUpToScope, TrUpToSender, TrUpToIdJag
<1>4. Blank(r)'
  BY <1>1 DEF Blank
<1>5. ASSUME faults' = 0, task'[r].repo \in BadgeRepos
      PROVE  /\ opc'[r] # "crashed" /\ tpc'[r] # "crashed" /\ spc'[r] # "crashed"
             /\ \A s \in OcSteps \ {"scan", "create-ticket"} :
                  osteps'[r][s] \in {"none", "ok", "skipped"}
             /\ opc'[r] # "done" => osteps'[r]["create-ticket"] = "none"
             /\ \A s \in TrSteps : tsteps'[r][s] \in {"none", "ok"}
             /\ \A s \in SaSteps : ssteps'[r][s] \in {"none", "ok", "denied"}
             /\ spc'[r] = "idle"
             /\ verdict'[r] = "failed" =>
                  osteps'[r]["scan"] = "error" \/ task'[r].cve \notin WellFormed
  <2>1. faults = 0 /\ task[r].repo \in BadgeRepos
    BY <1>5 DEF Grows
  <2>2. /\ \A s \in OcSteps \ {"scan", "create-ticket"} :
             osteps[r][s] \in {"none", "ok", "skipped"}
        /\ osteps[r]["create-ticket"] = "none"
        /\ \A s \in TrSteps : tsteps[r][s] \in {"none", "ok"}
        /\ \A s \in SaSteps : ssteps[r][s] \in {"none", "ok", "denied"}
        /\ verdict[r] # "failed"
    BY <1>0, <2>1 DEF RunClean, CleanReports, CallOrder
  <2>3. CASE /\ step # "create-ticket" /\ next # "done" /\ UNCHANGED verdict
             /\ status \in {"ok", "skipped"} \/ step = "scan"
    <3>1. \A s \in OcSteps \ {"scan", "create-ticket"} :
            osteps'[r][s] \in {"none", "ok", "skipped"}
      BY <1>1, <2>2, <2>3
    <3>2. osteps'[r]["create-ticket"] = "none"
      BY <1>1, <2>2, <2>3 DEF OcSteps
    <3> QED BY <1>1, <1>2, <2>2, <2>3, <3>1, <3>2
  <2>4. CASE /\ step = "create-ticket" /\ next = "done"
             /\ task'[r].cve \notin WellFormed
    <3>1. \A s \in OcSteps \ {"scan", "create-ticket"} :
            osteps'[r][s] \in {"none", "ok", "skipped"}
      BY <1>1, <2>2, <2>4
    <3> QED BY <1>1, <1>2, <2>2, <2>4, <3>1
  <2> QED BY <1>5, <2>1, <2>3, <2>4
<1>6. CleanReports(r)'
  BY <1>5 DEF CleanReports
<1> QED BY <1>3, <1>4, <1>6 DEF RunClean

\* The idioms of a step that goes well and of one that ends the handler.
LEMMA OcOkClean ==
  ASSUME CleanInv, Grows, NEW r \in Runs, NEW step \in OcSteps \ {"create-ticket"},
         NEW next \in OcSteps, OcOk(r, step, next), UNCHANGED <<trVars, saVars, task>>,
         next \in OcNoBadge \/ step \notin OcNoBadge \/ BadgeOf(OpenCode)',
         next = "fetch-source" => HasToken(r, ReadAssertion(r))'
  PROVE  RunClean(r)'
<1>1. OcRecord(r, step, "ok", next) /\ UNCHANGED verdict /\ next # "done"
  BY DEF OcOk, OcSteps
<1> QED BY <1>1, OcRecordClean

\* A step that ends the handler with an error does so for a reason.
LEMMA OcHaltClean ==
  ASSUME CleanInv, Grows, NEW r \in Runs, NEW step \in OcSteps,
         OcHalt(r, step), UNCHANGED <<trVars, saVars, task>>,
         \/ faults' # 0 \/ task[r].repo \notin BadgeRepos
         \/ step = "create-ticket" /\ task[r].cve \notin WellFormed
  PROVE  RunClean(r)'
<1>1. OcRecord(r, step, "error", "done")
  BY DEF OcHalt
<1>2. task'[r].repo = task[r].repo /\ task'[r].cve = task[r].cve
  OBVIOUS
<1> QED BY <1>1, <1>2, OcRecordClean

\* After a failure the counter is not zero.
LEMMA FaultShows == ASSUME CleanInv, Fault PROVE faults' # 0
BY FaultAssumption DEF Fault, CleanInv, AuthInv, IInv, TypeOK, WorldTypeOK

\* The steps of OpenCode that publish, mint and redeem nothing and call no other agent.
LEMMA OcLocalClean ==
  ASSUME CleanInv, Grows, NEW r \in Runs,
         \/ OcCallFails(r) \/ SignIn(r) \/ BadgeScopeCheck(r) \/ ReadEgressCheck(r)
         \/ FetchSource(r) \/ Scan(r) \/ Plan(r) \/ UseDirectory(r) \/ ExchangeAtA(r)
         \/ EgressCheck(r) \/ TicketLost(r)
  PROVE  RunClean(r)'
<1>0. /\ WorldTypeOK /\ RunClean(r)
      /\ OcNoBadge = {"idle", "sarah-login", "cimd-generate-id", "cimd-resolve-id",
                      "badge-scope-check", "resolve-badge"}
  BY DEF CleanInv, AuthInv, IInv, TypeOK, RunClean, OcNoBadge, OcUpToScope
<1>1. CASE OcCallFails(r)
  BY <1>1, FaultShows, OcHaltClean DEF OcCallFails, OcFatal, world
<1>2. CASE SignIn(r)
  BY <1>0, <1>2, OcOkClean DEF SignIn, OcSteps, world
<1>3. CASE BadgeScopeCheck(r)
  BY <1>0, <1>3, OcOkClean, OcHaltClean
     DEF BadgeScopeCheck, BadgeScopeAllows, OcRefused, OcSteps, world
<1>4. CASE ReadEgressCheck(r)
  BY <1>0, <1>4, OcOkClean, OcHaltClean, EgressIsAllowed
     DEF ReadEgressCheck, OcRefused, OcSteps, world
<1>5. CASE FetchSource(r)
  <2>1. opc[r] = "fetch-source" /\ UNCHANGED <<trVars, saVars, task>>
    BY <1>5 DEF FetchSource, OcOk, OcRefused, OcHalt, OcRecord, world
  <2>2. HasToken(r, ReadAssertion(r))
    BY <1>0, <2>1 DEF RunClean, Held
  <2>3. \/ OcOk(r, "fetch-source", "scan")
        \/ OcHalt(r, "fetch-source") /\ task[r].repo \notin BadgeRepos
    BY <1>5, <2>2, ReadIsAllowed DEF FetchSource, OcRefused
  <2> QED BY <1>0, <2>1, <2>3, OcOkClean, OcHaltClean DEF OcSteps
<1>6. CASE Scan(r)
  <2>1. task'[r].repo = task[r].repo
    BY <1>0, <1>6 DEF Scan, WorldTypeOK
  <2>2. PICK status : OcRecord(r, "scan", status, "opencode-plan")
    BY <1>6 DEF Scan
  <2>3. UNCHANGED <<verdict, trVars, saVars>>
    BY <1>6 DEF Scan
  <2> QED BY <1>0, <2>1, <2>2, <2>3, OcRecordClean DEF OcSteps
<1>7. CASE Plan(r)
  <2>1. PICK status \in {"ok", "skipped"} : OcRecord(r, "opencode-plan", status, "dir-push")
    BY <1>7 DEF Plan
  <2>2. UNCHANGED <<verdict, task, trVars, saVars>>
    BY <1>7 DEF Plan, world
  <2> QED BY <1>0, <2>1, <2>2, OcRecordClean DEF OcSteps
<1>8. CASE UseDirectory(r)
  <2>1. UNCHANGED <<task, trVars, saVars>>
    BY <1>8 DEF UseDirectory, world
  <2>2. \/ OcOk(r, "dir-push", "dir-search") \/ OcOk(r, "dir-search", "kc-a-exchange")
        \/ OcRecord(r, "dir-push", "error", "dir-search") /\ Fault
        \/ OcRecord(r, "dir-search", "error", "kc-a-exchange") /\ Fault
    BY <1>8 DEF UseDirectory, OcTolerated
  <2> QED BY <1>0, <2>1, <2>2, FaultShows, OcOkClean, OcRecordClean DEF OcSteps
<1>9. CASE ExchangeAtA(r)
  BY <1>0, <1>9, OcOkClean DEF ExchangeAtA, OcSteps, world
<1>10. CASE EgressCheck(r)
  BY <1>0, <1>10, OcOkClean, OcHaltClean, EgressIsAllowed
     DEF EgressCheck, OcRefused, OcSteps, world
<1>11. CASE TicketLost(r)
  BY <1>11, FaultShows, OcHaltClean DEF TicketLost, OcSteps, world
<1> QED BY <1>1, <1>2, <1>3, <1>4, <1>5, <1>6, <1>7, <1>8, <1>9, <1>10, <1>11

\* Who redeems an assertion holds a token for it.
LEMMA RedeemedHeld ==
  ASSUME NEW r \in Runs, NEW assertion, NEW scope, Redeem(r, assertion, scope)
  PROVE  \E t \in tokens' : t.grant = [run |-> r, claims |-> assertion]
<1> DEFINE new == [grant |-> [run |-> r, claims |-> assertion],
                   access |-> [azp |-> assertion.azp, user |-> assertion.sub,
                               scope |-> scope]]
<1>1. new \in tokens'
  BY Redeemed
<1>2. new.grant = [run |-> r, claims |-> assertion]
  OBVIOUS
<1> HIDE DEF new
<1> QED BY <1>1, <1>2

\* The steps of OpenCode that publish a badge, mint an assertion or redeem one.
LEMMA OcWorldClean ==
  ASSUME CleanInv, Grows, NEW r \in Runs,
         \/ ResolveBadge(r) \/ MintRead(r) \/ RedeemRead(r) \/ MintIdJag(r) \/ RedeemAtB(r)
  PROVE  RunClean(r)'
<1>0. /\ RunClean(r)
      /\ OcNoBadge = {"idle", "sarah-login", "cimd-generate-id", "cimd-resolve-id",
                      "badge-scope-check", "resolve-badge"}
  BY DEF CleanInv, RunClean, OcNoBadge, OcUpToScope
<1>1. ASSUME NEW step \in OcSteps \ {"create-ticket"}, NEW next \in OcSteps,
             OcAnswered(r, step, next), UNCHANGED <<trVars, saVars, task>>,
             next \in OcNoBadge \/ step \notin OcNoBadge \/ BadgeOf(OpenCode)',
             next = "fetch-source" => HasToken(r, ReadAssertion(r))'
      PROVE  RunClean(r)'
  BY <1>1, FaultShows, OcOkClean, OcHaltClean DEF OcAnswered
<1>2. CASE ResolveBadge(r)
  <2>1. BadgeOf(OpenCode)'
    BY <1>2, Issued DEF ResolveBadge, BadgeOf
  <2> QED BY <1>1, <1>2, <2>1 DEF ResolveBadge, OcSteps
<1>3. CASE MintRead(r)
  BY <1>0, <1>1, <1>3, MintsArePermitted DEF MintRead, OcSteps
<1>4. CASE RedeemRead(r)
  <2>1. ReadAssertion(r)' = ReadAssertion(r)
    BY <1>4 DEF RedeemRead, ReadAssertion
  <2>2. \E t \in tokens' : t.grant = [run |-> r, claims |-> ReadAssertion(r)]
    BY <1>4, RedeemedHeld DEF RedeemRead
  <2>3. HasToken(r, ReadAssertion(r))'
    BY <2>1, <2>2 DEF HasToken
  <2> QED BY <1>0, <1>1, <1>4, <2>3 DEF RedeemRead, OcSteps
<1>5. CASE MintIdJag(r)
  BY <1>0, <1>1, <1>5, MintsArePermitted DEF MintIdJag, OcSteps
<1>6. CASE RedeemAtB(r)
  BY <1>0, <1>1, <1>6 DEF RedeemAtB, OcSteps
<1> QED BY <1>2, <1>3, <1>4, <1>5, <1>6

\* A run begins with empty reports.
LEMMA OcStartClean ==
  ASSUME CleanInv, Grows, NEW r \in Runs, NEW repo \in Repos, NEW cve \in Findings,
         StartRun(r, repo, cve)
  PROVE  RunClean(r)'
<1>1. OcTypeOK /\ RunClean(r) /\ CallOrder(r) /\ opc[r] = "idle"
  BY DEF CleanInv, AuthInv, IInv, TypeOK, RunInv, RunClean, StartRun
<1>2. tpc[r] = "idle" /\ spc[r] = "idle"
  BY <1>1 DEF CallOrder
<1>3. /\ verdict[r] = "none"
      /\ \A s \in OcSteps : osteps[r][s] = "none"
      /\ \A s \in TrSteps : tsteps[r][s] = "none"
      /\ \A s \in SaSteps : ssteps[r][s] = "none"
  BY <1>1 DEF RunClean, Blank
<1>4. /\ opc'[r] = "sarah-login" /\ tpc'[r] = "idle" /\ spc'[r] = "idle"
      /\ UNCHANGED <<verdict, osteps, tsteps, ssteps>>
  BY <1>1, <1>2 DEF StartRun, OcTypeOK, trVars, saVars
<1>5. Held(r)'
  BY <1>4 DEF Held, OcUpToScope, TrUpToScope, TrUpToSender, TrUpToIdJag
<1>6. Blank(r)' /\ CleanReports(r)'
  BY <1>3, <1>4 DEF Blank, CleanReports, OcSteps
<1> QED BY <1>5, <1>6 DEF RunClean

\* The ticket is taken, unless its finding is none; the answer to it carries
\* reports without an error.
LEMMA OcTicketClean ==
  ASSUME CleanInv, Grows, NEW r \in Runs,
         CreateTicket(r) \/ TicketAnswered(r) \/ TicketAbandoned(r)
  PROVE  RunClean(r)'
<1>0. /\ OcTypeOK /\ TrTypeOK /\ SaTypeOK /\ RunClean(r) /\ CallOrder(r)
  BY DEF CleanInv, AuthInv, IInv, TypeOK, RunInv, RunClean
<1>1. CASE /\ CreateTicket(r)
           /\ ~TicketAllows(TokenOf(r, TriageAssertion(r)), TriageAssertion(r), Ticket(r))
  BY <1>1, TicketIsAllowed, OcHaltClean DEF CreateTicket, OcRefused, OcSteps, world
<1>2. CASE /\ CreateTicket(r)
           /\ TicketAllows(TokenOf(r, TriageAssertion(r)), TriageAssertion(r), Ticket(r))
  <2>1. /\ opc[r] = "create-ticket" /\ HasToken(r, TriageAssertion(r))
        /\ opc' = [opc EXCEPT ![r] = "await-ticket"]
        /\ tpc' = [tpc EXCEPT ![r] = "verify-idjag"]
        /\ tsteps' = [tsteps EXCEPT ![r]["opa-ingress"] = "ok"]
        /\ UNCHANGED <<osteps, verdict, faults, saVars, task>>
    BY <1>2 DEF CreateTicket, world
  <2>2. tpc[r] = "idle" /\ spc[r] = "idle" /\ verdict[r] # "failed"
    BY <1>0, <2>1 DEF CallOrder
  <2>3. /\ opc'[r] = "await-ticket" /\ tpc'[r] = "verify-idjag" /\ spc'[r] = "idle"
        /\ \A s \in TrSteps : tsteps'[r][s] = IF s = "opa-ingress" THEN "ok"
                                              ELSE tsteps[r][s]
        /\ osteps' = osteps /\ ssteps' = ssteps /\ verdict' = verdict
    BY <1>0, <2>1, <2>2 DEF OcTypeOK, TrTypeOK, saVars
  <2>4. BadgeOf(OpenCode)
    BY <1>0, <2>1 DEF RunClean, Held, OcUpToScope, OcEnded
  <2>5. BadgeOf(OpenCode)' /\ HasToken(r, TriageAssertion(r))'
    BY <2>1, <2>4, HeldStays
  <2>6. Held(r)'
    BY <2>3, <2>5 DEF Held, TrUpToScope, TrUpToSender, TrUpToIdJag
  <2>7. Blank(r)' /\ CleanReports(r)'
    BY <1>0, <2>1, <2>2, <2>3 DEF Blank, RunClean, CleanReports
  <2> QED BY <2>6, <2>7 DEF RunClean
<1>3. ASSUME NEW status, NEW nested, TicketFinishes(r, status, nested),
             \/ faults' # 0
             \/ /\ status = IF TriageOk(r) THEN "ok" ELSE "error"
                /\ nested = NestedOk(r)
      PROVE  RunClean(r)'
  <2>1. /\ opc[r] = "await-ticket" /\ opc'[r] = "done"
        /\ UNCHANGED <<trVars, saVars, task>>
        /\ osteps' = [osteps EXCEPT ![r]["create-ticket"] = status]
        /\ verdict'[r] = IF status = "ok" /\ OwnOk(r) /\ nested THEN "ok" ELSE "failed"
    BY <1>0, <1>3 DEF TicketFinishes, OcTypeOK, world
  <2>2. \A s \in OcSteps : s # "create-ticket" => osteps'[r][s] = osteps[r][s]
    BY <1>0, <2>1 DEF OcTypeOK
  <2>3. BadgeOf(OpenCode)
    BY <1>0, <2>1 DEF RunClean, Held, OcUpToScope, OcEnded
  <2>4. Held(r)'
    BY <1>0, <2>1, <2>3, HeldStays DEF RunClean, Held, trVars, saVars
  <2>5. Blank(r)'
    BY <2>1 DEF Blank
  <2>6. ASSUME faults' = 0, task'[r].repo \in BadgeRepos
        PROVE  /\ \A s \in OcSteps \ {"scan", "create-ticket"} :
                    osteps'[r][s] \in {"none", "ok", "skipped"}
               /\ verdict'[r] = "failed" => osteps'[r]["scan"] = "error"
               /\ CleanReports(r)
               /\ faults = 0 /\ task[r].repo \in BadgeRepos
    <3>1. faults = 0 /\ task[r].repo \in BadgeRepos /\ CleanReports(r)
      BY <1>0, <2>1, <2>6 DEF Grows, RunClean
    <3>2. /\ \A s \in OcSteps \ {"scan", "create-ticket"} :
               osteps[r][s] \in {"none", "ok", "skipped"}
          /\ osteps[r]["create-ticket"] = "none"
          /\ \A s \in TrSteps : tsteps[r][s] \in {"none", "ok"}
          /\ \A s \in SaSteps : ssteps[r][s] \in {"none", "ok", "denied"}
      BY <2>1, <3>1 DEF CleanReports
    <3>3. status = "ok" /\ nested
      <4>1. TriageOk(r)
        BY <1>0, <3>2 DEF TriageOk, TrTypeOK
      <4>2. NestedOk(r)
        BY <1>0, <3>2 DEF NestedOk, OkStatus, SaTypeOK
      <4> QED BY <1>3, <2>6, <4>1, <4>2
    <3>4. osteps[r]["scan"] # "error" => OwnOk(r)
      <4>1. osteps[r]["scan"] \in Statuses
        BY <1>0 DEF OcTypeOK, OcSteps
      <4>2. osteps[r]["scan"] # "error" => osteps[r]["scan"] \in {"none"} \cup OkStatus
        BY <4>1 DEF Statuses, OkStatus
      <4> QED BY <3>2, <4>2 DEF OwnOk, OkStatus
    <3>5. osteps'[r]["scan"] = osteps[r]["scan"]
      BY <2>2 DEF OcSteps
    <3> QED BY <2>1, <2>2, <3>1, <3>2, <3>3, <3>4, <3>5
  <2>7. CleanReports(r)'
    BY <2>1, <2>6 DEF CleanReports, trVars, saVars
  <2> QED BY <2>4, <2>5, <2>7 DEF RunClean
<1>4. CASE TicketAnswered(r)
  BY <1>3, <1>4 DEF TicketAnswered
<1>5. CASE TicketAbandoned(r)
  <2>1. CASE Fault
    BY <1>3, <1>5, <2>1, FaultShows DEF TicketAbandoned
  <2>2. CASE tpc[r] = "crashed" /\ UNCHANGED faults
    <3>1. /\ UNCHANGED <<trVars, saVars, task>> /\ opc[r] = "await-ticket"
          /\ opc'[r] = "done"
      BY <1>0, <1>5 DEF TicketAbandoned, TicketFinishes, OcTypeOK, world
    <3>2. ~(faults = 0 /\ task[r].repo \in BadgeRepos)
      BY <1>0, <2>2 DEF RunClean, CleanReports
    <3>3. CleanReports(r)'
      BY <2>2, <3>1, <3>2 DEF CleanReports
    <3>4. BadgeOf(OpenCode)
      BY <1>0, <3>1 DEF RunClean, Held, OcUpToScope, OcEnded
    <3>5. Held(r)' /\ Blank(r)'
      BY <1>0, <3>1, <3>4, HeldStays DEF RunClean, Held, Blank, trVars, saVars
    <3> QED BY <3>3, <3>5 DEF RunClean
  <2> QED BY <1>5, <2>1, <2>2 DEF TicketAbandoned
<1> QED BY <1>1, <1>2, <1>4, <1>5

\* Every step of OpenCode.
LEMMA OcClean ==
  ASSUME CleanInv, Grows, NEW r \in Runs, OcNext(r)
  PROVE  RunClean(r)'
BY OcLocalClean, OcWorldClean, OcStartClean, OcTicketClean DEF OcNext

-----------------------------------------------------------------------------
(* Clean runs: Triage's and the Sub-Agent's steps                          *)

TrNoBadge == TrUpToScope \cup {"resolve-badge"}

\* Any step of Triage but the spawn: with the badge the next position needs,
\* and every entry it writes "ok" unless something failed.
LEMMA TrStepClean ==
  ASSUME CleanInv, Grows, NEW r \in Runs, TrBusy(r), tpc'[r] \notin {"idle", "crashed"},
         UNCHANGED <<ocVars, saVars, task>>,
         tpc'[r] \in TrNoBadge \cup {"replied"} \/ tpc[r] \notin TrNoBadge
           \/ BadgeOf(Triage)',
         \/ faults' # 0 \/ task[r].repo \notin BadgeRepos
         \/ \A s \in TrSteps : tsteps'[r][s] \in {tsteps[r][s], "ok"}
  PROVE  RunClean(r)'
<1>0. /\ CallOrder(r) /\ Held(r) /\ Blank(r) /\ CleanReports(r)
      /\ task'[r].repo = task[r].repo
  BY DEF CleanInv, AuthInv, IInv, RunInv
<1>1. /\ tpc[r] \notin {"idle", "replied", "crashed"} /\ opc[r] # "idle"
      /\ UNCHANGED <<opc, osteps, verdict, spc, ssteps>>
  BY <1>0 DEF TrBusy, CallOrder, ocVars, saVars
<1>2. BadgeOf(OpenCode)' /\ HasToken(r, TriageAssertion(r))'
  BY <1>0, <1>1, HeldStays DEF Held
<1>3. \/ tpc'[r] \in TrNoBadge \cup TrEnded /\ spc[r] = "idle"
      \/ BadgeOf(Triage)'
  <2>1. CASE tpc[r] \notin TrNoBadge
    BY <1>0, <1>1, <2>1, HeldStays DEF Held, TrNoBadge, TrEnded
  <2>2. CASE tpc[r] \in TrNoBadge
    <3>1. spc[r] = "idle"
      BY <1>0, <1>1, <2>2 DEF CallOrder, TrNoBadge, TrUpToScope, TrUpToSender, TrUpToIdJag
    <3> QED BY <2>2, <3>1 DEF TrEnded
  <2> QED BY <2>1, <2>2
<1>4. Held(r)'
  BY <1>0, <1>1, <1>2, <1>3, HeldStays DEF Held, TrNoBadge
<1>5. Blank(r)'
  BY <1>1 DEF Blank
<1>6. CleanReports(r)'
  BY <1>0, <1>1 DEF CleanReports, Grows
<1> QED BY <1>4, <1>5, <1>6 DEF RunClean

\* The idioms of a step Triage records: the status, one that goes well, one that ends it.
LEMMA TrRecordClean ==
  ASSUME CleanInv, Grows, NEW r \in Runs, NEW step \in TrSteps, NEW status,
         NEW next \in TrSteps \cup {"replied"}, TrRecord(r, step, status, next),
         UNCHANGED <<ocVars, saVars, task>>,
         next \in TrNoBadge \cup {"replied"} \/ step \notin TrNoBadge,
         faults' # 0 \/ task[r].repo \notin BadgeRepos \/ status = "ok"
  PROVE  RunClean(r)'
<1>0. TrTypeOK
  BY DEF CleanInv, AuthInv, IInv, TypeOK
<1>1. /\ tpc[r] = step /\ tpc'[r] = next /\ TrBusy(r) /\ next \notin {"idle", "crashed"}
      /\ \A s \in TrSteps : tsteps'[r][s] = IF s = step THEN status ELSE tsteps[r][s]
  BY <1>0 DEF TrRecord, TrTypeOK, TrBusy, TrSteps
<1> QED BY <1>1, TrStepClean

LEMMA TrOkClean ==
  ASSUME CleanInv, Grows, NEW r \in Runs, NEW step \in TrSteps,
         NEW next \in TrSteps, TrOk(r, step, next), UNCHANGED <<ocVars, saVars, task>>,
         next \in TrNoBadge \/ step \notin TrNoBadge
  PROVE  RunClean(r)'
BY TrRecordClean DEF TrOk

LEMMA TrHaltClean ==
  ASSUME CleanInv, Grows, NEW r \in Runs, NEW step \in TrSteps, TrHalt(r, step),
         UNCHANGED <<ocVars, saVars, task>>,
         faults' # 0 \/ task[r].repo \notin BadgeRepos
  PROVE  RunClean(r)'
BY TrRecordClean DEF TrHalt

\* Every step of Triage: it accepts what it is handed whichever badge of OpenCode it is
\* shown, is allowed the narrowing, and ends without an error unless a call failed.
LEMMA TrClean ==
  ASSUME CleanInv, Grows, NEW r \in Runs, TrNext(r)
  PROVE  RunClean(r)'
<1>0. /\ OcTypeOK /\ TrTypeOK /\ SaTypeOK /\ RunClean(r) /\ CallOrder(r) /\ BadgesAgree
      /\ TrNoBadge = {"idle", "verify-idjag", "verify-sender-badge", "cimd-generate-id",
                      "cimd-resolve-id", "subbadge-scope-check", "resolve-badge"}
  BY DEF CleanInv, AuthInv, IInv, TypeOK, RunInv, RunClean, TrNoBadge, TrUpToScope,
         TrUpToSender, TrUpToIdJag
<1>1. CASE TrCallFails(r)
  BY <1>1, FaultShows, TrHaltClean DEF TrCallFails, TrFatal, TrSteps, world
<1>2. CASE VerifyIdJag(r)
  BY <1>0, <1>2, TrOkClean DEF VerifyIdJag, IdJagAccepted, TriageAssertion, Ticket,
     TrSteps, world
<1>3. CASE VerifyOpenCodeBadge(r)
  <2>1. UNCHANGED <<ocVars, saVars, task>> /\ tpc[r] = "verify-sender-badge"
    BY <1>3 DEF VerifyOpenCodeBadge, TrOk, TrRefused, TrHalt, TrRecord, world
  <2>2. PICK b \in badges : b.subject = OpenCode /\ b.delegatable # {}
    <3>1. PICK b \in badges : b.subject = OpenCode
      BY <1>0, <2>1 DEF RunClean, Held, CallOrder, BadgeOf, OcUpToScope, OcEnded
    <3> QED BY <1>0, <3>1 DEF BadgesAgree
  <2>3. TrOk(r, "verify-sender-badge", "cimd-generate-id")
    BY <1>3, <2>2, SendersAgree DEF VerifyOpenCodeBadge
  <2> QED BY <1>0, <2>1, <2>3, TrOkClean DEF TrSteps
<1>4. CASE RegisterTriage(r)
  BY <1>0, <1>4, TrOkClean DEF RegisterTriage, TrSteps, world
<1>5. CASE SubbadgeScopeCheck(r)
  <2>1. UNCHANGED <<ocVars, saVars, task>> /\ tpc[r] = "subbadge-scope-check"
    BY <1>5 DEF SubbadgeScopeCheck, TrOk, TrRefused, TrHalt, TrRecord, world
  <2>2. HasToken(r, TriageAssertion(r))
    BY <1>0, <2>1 DEF RunClean, Held
  <2>3. CASE task[r].repo \in BadgeRepos
    <3>1. TrOk(r, "subbadge-scope-check", "resolve-badge")
      BY <1>5, <2>2, <2>3, TicketIsAllowed DEF SubbadgeScopeCheck
    <3> QED BY <1>0, <2>1, <3>1, TrOkClean DEF TrSteps
  <2>4. CASE task[r].repo \notin BadgeRepos
    BY <1>0, <1>5, <2>1, <2>4, TrOkClean, TrHaltClean
       DEF SubbadgeScopeCheck, TrRefused, TrSteps
  <2> QED BY <2>3, <2>4
<1>6. CASE TriageBadge(r)
  <2>1. UNCHANGED <<ocVars, saVars, task>> /\ BadgeOf(Triage)'
    BY <1>6, Issued DEF TriageBadge, BadgeOf
  <2>2. CASE TrHalt(r, "resolve-badge") /\ Fault
    BY <2>1, <2>2, FaultShows, TrHaltClean DEF TrSteps
  <2>3. CASE /\ tpc[r] = "resolve-badge" /\ tpc' = [tpc EXCEPT ![r] = "mint-sub-badge"]
             /\ tsteps' = [tsteps EXCEPT ![r]["resolve-badge"] = "ok", ![r]["plan"] = "ok"]
    <3>1. /\ TrBusy(r) /\ tpc'[r] = "mint-sub-badge"
          /\ \A s \in TrSteps : tsteps'[r][s] \in {tsteps[r][s], "ok"}
      BY <1>0, <2>3 DEF TrBusy, TrTypeOK
    <3> QED BY <2>1, <3>1, TrStepClean
  <2> QED BY <1>6, <2>2, <2>3 DEF TriageBadge
<1>7. CASE MintSubBadge(r)
  <2>1. TrAnswered(r, "mint-sub-badge", "dir-push") /\ UNCHANGED <<ocVars, saVars, task>>
    BY <1>7, MintsArePermitted DEF MintSubBadge
  <2> QED BY <1>0, <2>1, FaultShows, TrOkClean, TrHaltClean DEF TrAnswered, TrSteps
<1>8. CASE UseDirectoryB(r)
  BY <1>0, <1>8, FaultShows, TrOkClean, TrRecordClean DEF UseDirectoryB, TrSteps, world
<1>9. CASE SpawnSubAgent(r)
  <2>1. /\ tpc[r] = "spawn-sub-agent" /\ tpc'[r] = "await-sub-agent"
        /\ spc'[r] = "verify-subbadge" /\ opc[r] # "idle"
        /\ UNCHANGED <<opc, osteps, verdict, tsteps, ssteps, task, faults>>
    BY <1>0, <1>9 DEF SpawnSubAgent, TrTypeOK, SaTypeOK, CallOrder, ocVars, world
  <2>2. BadgeOf(OpenCode)' /\ BadgeOf(Triage)' /\ HasToken(r, TriageAssertion(r))'
    BY <1>0, <2>1, HeldStays DEF RunClean, Held, TrNoBadge, TrEnded
  <2>3. Held(r)'
    BY <1>0, <2>1, <2>2, HeldStays DEF RunClean, Held
  <2>4. Blank(r)' /\ CleanReports(r)'
    BY <1>0, <2>1 DEF RunClean, Blank, CleanReports
  <2> QED BY <2>3, <2>4 DEF RunClean
<1>10. CASE SpawnLost(r)
  BY <1>10, FaultShows, TrRecordClean DEF SpawnLost, TrSteps, world
<1>11. ASSUME NEW status, SpawnFinishes(r, status),
              faults' # 0 \/ task[r].repo \notin BadgeRepos \/ status = "ok"
       PROVE  RunClean(r)'
  <2>1. /\ TrBusy(r) /\ tpc'[r] = "replied" /\ UNCHANGED <<ocVars, saVars, task>>
        /\ \A s \in TrSteps :
             tsteps'[r][s] = IF s = "spawn-sub-agent" THEN status ELSE tsteps[r][s]
    BY <1>0, <1>11 DEF SpawnFinishes, TrBusy, TrTypeOK, world
  <2> QED BY <1>11, <2>1, TrStepClean
<1>12. CASE SpawnAnswered(r)
  BY <1>11, <1>12 DEF SpawnAnswered
<1>13. CASE SpawnAbandoned(r)
  <2>1. faults' # 0 \/ task[r].repo \notin BadgeRepos
    BY <1>0, <1>13, FaultShows DEF SpawnAbandoned, RunClean, CleanReports
  <2> QED BY <1>11, <1>13, <2>1 DEF SpawnAbandoned
<1> QED BY <1>1, <1>2, <1>3, <1>4, <1>5, <1>6, <1>7, <1>8, <1>9, <1>10, <1>12, <1>13
        DEF TrNext

\* Any step of the Sub-Agent: each write comes after the one before it, and every
\* entry is "ok" unless something failed, but for the attempt.
LEMMA SaStepClean ==
  ASSUME CleanInv, Grows, NEW r \in Runs, SaBusy(r), spc'[r] \notin {"idle", "crashed"},
         UNCHANGED <<ocVars, trVars, task>>,
         spc'[r] = "push-file" => HasToken(r, SubBadge(r))',
         spc'[r] = "pushing" => spc[r] = "push-file",
         spc'[r] = "open-pr" => spc[r] \in {"push-file", "pushing"},
         spc'[r] = "opening" => spc[r] = "open-pr",
         spc'[r] = "denied-pr-attempt" => spc[r] \in {"open-pr", "opening"},
         spc'[r] = "dir-push" => spc[r] = "denied-pr-attempt",
         \/ faults' # 0 \/ task[r].repo \notin BadgeRepos
         \/ /\ \A s \in SaSteps :
                 \/ ssteps'[r][s] \in {ssteps[r][s], "ok"}
                 \/ s = "denied-pr-attempt" /\ ssteps'[r][s] = "denied"
            /\ spc'[r] = "open-pr" => ssteps'[r]["push-file"] = "ok"
            /\ spc'[r] = "denied-pr-attempt" => ssteps'[r]["open-pr"] = "ok"
  PROVE  RunClean(r)'
<1>0. /\ CallOrder(r) /\ Held(r) /\ Blank(r) /\ CleanReports(r)
      /\ task'[r].repo = task[r].repo
  BY DEF CleanInv, AuthInv, IInv, RunInv
<1>1. /\ spc[r] \notin {"idle", "replied", "crashed"}
      /\ tpc[r] \in {"await-sub-agent", "replied", "crashed"} /\ opc[r] # "idle"
      /\ UNCHANGED <<opc, osteps, verdict, tpc, tsteps>>
  BY <1>0 DEF SaBusy, CallOrder, ocVars, trVars
<1>2. BadgeOf(OpenCode)' /\ BadgeOf(Triage)' /\ HasToken(r, TriageAssertion(r))'
  BY <1>0, <1>1, HeldStays DEF Held
<1>3. Held(r)'
  BY <1>0, <1>1, <1>2, HeldStays DEF Held
<1>4. Blank(r)'
  BY <1>1 DEF Blank
<1>5. ASSUME faults' = 0, task'[r].repo \in BadgeRepos
      PROVE  /\ \A s \in SaSteps : ssteps'[r][s] \in {"none", "ok", "denied"}
             /\ spc'[r] \in {"open-pr", "opening", "denied-pr-attempt", "dir-push"} =>
                  ssteps'[r]["push-file"] = "ok"
             /\ spc'[r] \in {"denied-pr-attempt", "dir-push"} =>
                  ssteps'[r]["open-pr"] = "ok"
             /\ CleanReports(r) /\ faults = 0 /\ task[r].repo \in BadgeRepos
  <2>1. faults = 0 /\ task[r].repo \in BadgeRepos
    BY <1>0, <1>5 DEF Grows
  <2>2. /\ \A s \in SaSteps : ssteps[r][s] \in {"none", "ok", "denied"}
        /\ spc[r] \in {"open-pr", "opening", "denied-pr-attempt", "dir-push"} =>
             ssteps[r]["push-file"] = "ok"
        /\ spc[r] \in {"denied-pr-attempt", "dir-push"} => ssteps[r]["open-pr"] = "ok"
    BY <1>0, <2>1 DEF CleanReports
  <2>3. /\ \A s \in SaSteps : \/ ssteps'[r][s] \in {ssteps[r][s], "ok"}
                              \/ s = "denied-pr-attempt" /\ ssteps'[r][s] = "denied"
        /\ spc'[r] = "open-pr" => ssteps'[r]["push-file"] = "ok"
        /\ spc'[r] = "denied-pr-attempt" => ssteps'[r]["open-pr"] = "ok"
    BY <1>0, <1>5, <2>1
  <2>4. "push-file" \in SaSteps /\ "open-pr" \in SaSteps
    BY DEF SaSteps
  <2>5. \A s \in SaSteps : ssteps'[r][s] \in {"none", "ok", "denied"}
    BY <2>2, <2>3
  <2> QED BY <1>0, <2>1, <2>2, <2>3, <2>4, <2>5
<1>6. CleanReports(r)'
  BY <1>1, <1>5 DEF CleanReports
<1> QED BY <1>3, <1>4, <1>6 DEF RunClean

\* A step the Sub-Agent reports, from the position it waits at.
LEMMA SaReportClean ==
  ASSUME CleanInv, Grows, NEW r \in Runs, SaBusy(r), NEW step \in SaSteps, NEW status,
         NEW next \in SaSteps \cup {"replied"}, SaReport(r, step, status, next),
         UNCHANGED <<ocVars, trVars, task>>,
         next # "push-file",
         next = "open-pr" => step = "push-file" /\ spc[r] \in {"push-file", "pushing"},
         next = "denied-pr-attempt" => step = "open-pr" /\ spc[r] \in {"open-pr", "opening"},
         next = "dir-push" => step = "denied-pr-attempt" /\ spc[r] = step,
         \/ faults' # 0 \/ task[r].repo \notin BadgeRepos \/ status = "ok"
         \/ step = "denied-pr-attempt" /\ status = "denied"
  PROVE  RunClean(r)'
<1>0. SaTypeOK
  BY DEF CleanInv, AuthInv, IInv, TypeOK
<1>1. /\ spc'[r] = next /\ next \notin {"idle", "crashed", "pushing", "opening"}
      /\ \A s \in SaSteps : ssteps'[r][s] = IF s = step THEN status ELSE ssteps[r][s]
  BY <1>0 DEF SaReport, SaTypeOK, SaSteps
<1> QED BY <1>1, SaStepClean DEF SaSteps

\* The idioms of a step the Sub-Agent records: the status, and one that ends it.
LEMMA SaRecordClean ==
  ASSUME CleanInv, Grows, NEW r \in Runs, NEW step \in SaSteps, NEW status,
         NEW next \in SaSteps \cup {"replied"}, SaRecord(r, step, status, next),
         UNCHANGED <<ocVars, trVars, task>>,
         next # "push-file", next = "open-pr" => step = "push-file",
         next = "denied-pr-attempt" => step = "open-pr",
         next = "dir-push" => step = "denied-pr-attempt",
         \/ faults' # 0 \/ task[r].repo \notin BadgeRepos \/ status = "ok"
         \/ step = "denied-pr-attempt" /\ status = "denied"
  PROVE  RunClean(r)'
<1>1. spc[r] = step /\ SaReport(r, step, status, next) /\ SaBusy(r)
  BY DEF SaRecord, SaBusy, SaSteps
<1> QED BY <1>1, SaReportClean

LEMMA SaHaltClean ==
  ASSUME CleanInv, Grows, NEW r \in Runs, NEW step \in SaFatal, SaHalt(r, step), Fault,
         UNCHANGED <<ocVars, trVars, task>>
  PROVE  RunClean(r)'
BY FaultShows, SaRecordClean DEF SaHalt, SaFatal, SaSteps

\* Up to the redemption.
LEMMA SaChecksClean ==
  ASSUME CleanInv, Grows, NEW r \in Runs,
         \/ SaCallFails(r) \/ VerifySubBadge(r) \/ RegisterSubAgent(r)
         \/ SubAgentBadge(r) \/ VerifyTriageBadge(r) \/ RedeemSubBadge(r)
  PROVE  RunClean(r)'
<1>0. SaTypeOK /\ RunClean(r) /\ CallOrder(r)
  BY DEF CleanInv, AuthInv, IInv, TypeOK, RunInv, RunClean
<1>1. ASSUME NEW step \in SaFatal \ {"kc-b-exchange"},
             NEW next \in (SaFatal \cup {"kc-b-exchange"}), SaOk(r, step, next),
             UNCHANGED <<ocVars, trVars, task>>
      PROVE  RunClean(r)'
  BY <1>1, SaRecordClean DEF SaOk, SaFatal, SaSteps
<1>2. CASE SaCallFails(r)
  BY <1>2, SaHaltClean DEF SaCallFails, world
<1>3. CASE VerifySubBadge(r)
  BY <1>1, <1>3, SendersAgree DEF VerifySubBadge, SaFatal, world
<1>4. CASE RegisterSubAgent(r)
  BY <1>1, <1>4 DEF RegisterSubAgent, SaFatal, world
<1>5. CASE SubAgentBadge(r)
  BY <1>1, <1>5, SaHaltClean DEF SubAgentBadge, SaFatal
<1>6. CASE VerifyTriageBadge(r)
  <2>1. UNCHANGED <<ocVars, trVars, task>> /\ spc[r] = "verify-sender-badge"
    BY <1>6 DEF VerifyTriageBadge, SaOk, SaRefused, SaHalt, SaRecord, world
  <2>2. \E b \in badges : b.subject = Triage
    BY <1>0, <2>1 DEF RunClean, Held, BadgeOf
  <2>3. SaOk(r, "verify-sender-badge", "kc-b-exchange")
    BY <1>6, <2>2, SendersAgree DEF VerifyTriageBadge
  <2> QED BY <1>1, <2>1, <2>3 DEF SaFatal
<1>7. CASE RedeemSubBadge(r)
  <2>1. UNCHANGED <<ocVars, trVars, task>>
    BY <1>7 DEF RedeemSubBadge
  <2>2. CASE SaHalt(r, "kc-b-exchange") /\ Fault
    BY <2>1, <2>2, SaHaltClean DEF SaFatal
  <2>3. CASE /\ spc[r] = "kc-b-exchange" /\ spc' = [spc EXCEPT ![r] = "push-file"]
             /\ ssteps' = [ssteps EXCEPT ![r]["kc-b-exchange"] = "ok",
                                         ![r]["idjag-gitea"] = "ok"]
    <3>1. SubBadge(r)' = SubBadge(r)
      BY <2>1 DEF SubBadge, SubChain, Ticket
    <3>2. \E t \in tokens' : t.grant = [run |-> r, claims |-> SubBadge(r)]
      BY <1>7, RedeemedHeld DEF RedeemSubBadge
    <3>3. HasToken(r, SubBadge(r))'
      BY <3>1, <3>2 DEF HasToken
    <3>4. /\ SaBusy(r) /\ spc'[r] = "push-file"
          /\ \A s \in SaSteps : ssteps'[r][s] \in {ssteps[r][s], "ok"}
      BY <1>0, <2>3 DEF SaBusy, SaTypeOK
    <3> QED BY <2>1, <2>3, <3>3, <3>4, SaStepClean
  <2> QED BY <1>7, <2>2, <2>3 DEF RedeemSubBadge
<1> QED BY <1>2, <1>3, <1>4, <1>5, <1>6, <1>7

\* The writes and the conclusion.
LEMMA SaWritesClean ==
  ASSUME CleanInv, Grows, NEW r \in Runs,
         \/ WriteAnswered(r) \/ WriteFails(r) \/ PushFile(r) \/ OpenPr(r)
         \/ (\E repo \in ProtectedRepos : DeniedPrAttempt(r, repo)) \/ Conclude(r)
  PROVE  RunClean(r)'
<1>0. SaTypeOK /\ RunClean(r) /\ CallOrder(r)
  BY DEF CleanInv, AuthInv, IInv, TypeOK, RunInv, RunClean
<1>1. CASE WriteFails(r)
  <2>1. UNCHANGED <<ocVars, trVars, task>> /\ faults' # 0 /\ SaBusy(r)
    BY <1>1, FaultShows DEF WriteFails, SaRecord, SaBusy, world
  <2> QED BY <1>1, <2>1, SaReportClean DEF WriteFails, SaRecord, SaSteps
<1>2. CASE PushFile(r)
  <2> DEFINE request == WriteRequest(r, "push-file", Spawn(r).repo, "none")
  <2>1. UNCHANGED <<ocVars, trVars, task>> /\ spc[r] = "push-file" /\ SaBusy(r)
    BY <1>2 DEF PushFile, SaBusy
  <2>2. Admitted(r, request) \/ task[r].repo \notin BadgeRepos
    BY <1>0, <2>1, WritesAreAdmitted DEF RunClean, Held
  <2>3. CASE Admitted(r, request)
    <3>1. spc'[r] = "pushing" /\ ssteps' = ssteps
      BY <1>0, <1>2, <2>3 DEF PushFile, SaTypeOK
    <3> QED BY <2>1, <3>1, SaStepClean
  <2>4. CASE ~Admitted(r, request)
    <3>1. SaRecord(r, "push-file", "denied", "open-pr") /\ task[r].repo \notin BadgeRepos
      BY <1>2, <2>2, <2>4 DEF PushFile, WriteDenied
    <3> QED BY <2>1, <3>1, SaRecordClean DEF SaSteps
  <2> QED BY <2>3, <2>4
<1>3. CASE OpenPr(r)
  <2> DEFINE request == WriteRequest(r, "open-pr", Spawn(r).repo, "remediate")
  <2>1. UNCHANGED <<ocVars, trVars, task>> /\ spc[r] = "open-pr" /\ SaBusy(r)
    BY <1>3 DEF OpenPr, SaBusy
  <2>2. Admitted(r, request) \/ faults # 0 \/ task[r].repo \notin BadgeRepos
    BY <1>0, <2>1, WritesAreAdmitted DEF RunClean, Held, CleanReports
  <2>3. CASE Admitted(r, request)
    <3>1. spc'[r] = "opening" /\ ssteps' = ssteps
      BY <1>0, <1>3, <2>3 DEF OpenPr, SaTypeOK
    <3> QED BY <2>1, <3>1, SaStepClean
  <2>4. CASE ~Admitted(r, request)
    <3>1. /\ SaRecord(r, "open-pr", "denied", "denied-pr-attempt")
          /\ faults' # 0 \/ task[r].repo \notin BadgeRepos
      BY <1>3, <2>2, <2>4 DEF OpenPr, WriteDenied, Grows
    <3> QED BY <2>1, <3>1, SaRecordClean DEF SaSteps
  <2> QED BY <2>3, <2>4
<1>6. CASE WriteAnswered(r)
  <2>1. UNCHANGED <<ocVars, trVars, task>> /\ SaBusy(r)
    BY <1>6 DEF WriteAnswered, SaBusy, world
  <2> QED BY <1>6, <2>1, SaReportClean DEF WriteAnswered, SaSteps
<1>4. ASSUME NEW repo \in ProtectedRepos, DeniedPrAttempt(r, repo) PROVE RunClean(r)'
  <2>1. /\ UNCHANGED <<ocVars, trVars, task>>
        /\ SaRecord(r, "denied-pr-attempt", "denied", "dir-push")
    BY <1>4, AttemptIsRefused DEF DeniedPrAttempt, WriteDenied
  <2> QED BY <2>1, SaRecordClean DEF SaSteps
<1>5. CASE Conclude(r)
  <2>1. PICK recorded \in {"ok", "error"} :
          /\ IF recorded = "error" THEN Fault ELSE UNCHANGED faults
          /\ ssteps' = [ssteps EXCEPT
               ![r]["opa-egress"] =
                  IF "ok" \in {ssteps[r]["push-file"], ssteps[r]["open-pr"]}
                    THEN "ok" ELSE "error",
               ![r]["dir-push"] = recorded,
               ![r]["pr-created"] = IF ssteps[r]["open-pr"] = "ok" THEN "ok" ELSE "error"]
    BY <1>5 DEF Conclude
  <2>2. /\ SaBusy(r) /\ spc[r] = "dir-push" /\ spc'[r] = "replied"
        /\ UNCHANGED <<ocVars, trVars, task>>
    BY <1>0, <1>5 DEF Conclude, SaBusy, SaTypeOK, world
  <2>3. CASE recorded = "error"
    BY <2>1, <2>2, <2>3, FaultShows, SaStepClean
  <2>4. CASE recorded = "ok" /\ faults' = 0 /\ task[r].repo \in BadgeRepos
    <3>1. ssteps[r]["push-file"] = "ok" /\ ssteps[r]["open-pr"] = "ok"
      BY <1>0, <2>2, <2>4 DEF RunClean, CleanReports, Grows
    <3>2. \A s \in SaSteps : ssteps'[r][s] \in {ssteps[r][s], "ok"}
      BY <1>0, <2>1, <2>4, <3>1 DEF SaTypeOK
    <3> QED BY <2>2, <3>2, SaStepClean
  <2> QED BY <2>2, <2>3, <2>4, SaStepClean
<1> QED BY <1>1, <1>2, <1>3, <1>4, <1>5, <1>6

\* Every step of the Sub-Agent.
LEMMA SaClean ==
  ASSUME CleanInv, Grows, NEW r \in Runs, SaNext(r)
  PROVE  RunClean(r)'
BY SaChecksClean, SaWritesClean DEF SaNext

-----------------------------------------------------------------------------
(* Clean runs: the theorem                                                 *)

\* A crash is a failure, and takes nothing a handler needs.
LEMMA CrashClean ==
  ASSUME CleanInv, Grows, NEW r \in Runs, Crash
  PROVE  RunClean(r)'
<1>0. /\ CallOrder(r) /\ Held(r) /\ Blank(r) /\ faults' # 0
  BY FaultShows DEF CleanInv, AuthInv, IInv, RunInv, Crash, OpenCodeCrash, TriageCrash,
     SubAgentCrash
<1>1. UNCHANGED <<verdict, osteps, tsteps, ssteps, task>>
  BY DEF Crash, OpenCodeCrash, TriageCrash, SubAgentCrash, ocVars, trVars, saVars, world
<1>2. /\ opc'[r] = opc[r] \/ (opc[r] # "idle" /\ opc'[r] = "crashed")
      /\ tpc'[r] = tpc[r] \/ (tpc[r] # "idle" /\ tpc'[r] = "crashed")
      /\ spc'[r] = spc[r] \/ (spc[r] # "idle" /\ spc'[r] = "crashed")
  BY DEF Crash, OpenCodeCrash, TriageCrash, SubAgentCrash, ocVars, trVars, saVars,
     OcBusy, TrBusy, SaBusy, OcSteps
<1>3. Held(r)'
  BY <1>0, <1>1, <1>2, HeldStays DEF Held, OcEnded, TrEnded
<1>4. Blank(r)' /\ CleanReports(r)'
  BY <1>0, <1>1, <1>2 DEF Blank, CleanReports
<1> QED BY <1>3, <1>4 DEF RunClean

\* The invariant is inductive: the run that moves by its agent's lemma, the others
\* because badges and tokens only grow.
LEMMA StepClean == CleanInv /\ [Next]_vars => CleanInv'
<1>1. CASE CleanInv /\ Next
  <2>1. Grows /\ BadgesAgree' /\ SarahsTokens'
    BY <1>1, WorldGrows
  <2>2. AuthInv'
    BY <1>1, StepIInv, TokensStep, TicketsStep DEF CleanInv, AuthInv
  <2>3. ASSUME NEW r \in Runs PROVE RunClean(r)'
    <3>0. TypeOK /\ RunClean(r)
      BY <1>1 DEF CleanInv, AuthInv, IInv, RunClean
    <3>1. ASSUME NEW actor \in Runs, OcNext(actor) \/ TrNext(actor) \/ SaNext(actor)
          PROVE  RunClean(r)'
      <4>1. CASE actor = r
        BY <1>1, <2>1, <3>1, <4>1, OcClean, TrClean, SaClean
      <4>2. CASE actor # r
        BY <2>1, <3>0, <3>1, <4>2, OthersUntouched, OthersTask, OthersClean
      <4> QED BY <4>1, <4>2
    <3>2. CASE Crash
      BY <1>1, <2>1, <3>2, CrashClean
    <3>3. CASE Rest
      <4>1. Untouched(r) /\ task' = task
        BY <3>3 DEF Rest, vars, ocVars, trVars, saVars, world, Untouched, Effect
      <4> QED BY <2>1, <3>0, <4>1, OthersClean
    <3>4. CASE \E call \in sent : GiteaWrites(call)
      <4>1. Untouched(r) /\ task' = task
        BY <3>4 DEF GiteaWrites, ocVars, trVars, saVars, Untouched, Effect
      <4> QED BY <2>1, <3>0, <4>1, OthersClean
    <3> QED BY <1>1, <3>1, <3>2, <3>3, <3>4 DEF Next
  <2> QED BY <2>1, <2>2, <2>3 DEF CleanInv, RunClean
<1>2. CASE CleanInv /\ UNCHANGED vars
  <2>1. UNCHANGED <<opc, osteps, verdict, tpc, tsteps, spc, ssteps, task, badges, tokens,
                    faults>>
    BY <1>2 DEF vars, ocVars, trVars, saVars, world
  <2>2. IInv'
    BY <1>2, StepIInv DEF CleanInv, AuthInv
  <2>3. TokensNarrow' /\ TicketsHaveTokens' /\ BadgesAgree' /\ SarahsTokens'
    BY <1>2, <2>1 DEF CleanInv, AuthInv, TokensNarrow, TicketsHaveTokens, ReadToken,
       TicketToken, WriteToken, BadgesAgree, SarahsTokens
  <2>4. Grows
    BY <2>1 DEF Grows
  <2>5. ASSUME NEW r \in Runs PROVE RunClean(r)'
    <3>1. RunClean(r) /\ Untouched(r) /\ task'[r] = task[r]
      BY <1>2 DEF CleanInv, RunClean, vars, ocVars, trVars, saVars, world, Untouched,
         Effect
    <3> QED BY <2>4, <3>1, OthersClean
  <2> QED BY <2>2, <2>3, <2>5 DEF CleanInv, AuthInv, RunClean
<1> QED BY <1>1, <1>2

\* What clean runs rest on holds in every reachable state.
THEOREM CleanInvariant == Spec => []CleanInv
BY InitClean, StepClean, PTL DEF Spec

\* While nothing has failed, a run for a repository Org A allows is answered
\* "failed" only if its source was empty or its finding names no CVE or CWE: no
\* policy, no Keycloak and no agent's check ever refuses what an honest handler
\* asks for, whatever the other runs do at the same time.
CleanRunsNeverFail ==
  \A r \in Runs :
    faults = 0 /\ task[r].repo \in BadgeRepos /\ verdict[r] = "failed" =>
      osteps[r]["scan"] = "error" \/ task[r].cve \notin WellFormed

\* For any number of runs, in any order, and whichever badge of its sender each
\* handler is shown.
THEOREM CleanRunsDoNotFail == Spec => []CleanRunsNeverFail
<1>1. CleanInv => CleanRunsNeverFail
  BY DEF CleanInv, CleanReports, CleanRunsNeverFail
<1> QED BY <1>1, CleanInvariant, PTL

-----------------------------------------------------------------------------
(***************************************************************************)
(* Refusals.  RefusedRunsLeaveNothing takes two facts: what CleanReports   *)
(* says of the reasons a clean run can fail for, and that each of these    *)
(* reasons but the scan is found before Triage has its ticket, so that the *)
(* Sub-Agent never works for such a run.                                   *)
(***************************************************************************)

\* From the badge scope decision on the run is for a repository Org A allows, and from
\* the ticket on its finding names a CVE or CWE.
Sanctioned(r) ==
  /\ opc[r] \notin OcUpToScope \cup OcEnded => task[r].repo \in BadgeRepos
  /\ tpc[r] # "idle" => task[r].repo \in BadgeRepos /\ task[r].cve \in WellFormed

RefusalInv == CleanInv /\ \A r \in Runs : Sanctioned(r)

\* The steps of OpenCode that change neither the task nor Triage, and pass the badge
\* scope decision only if they are past it.
LEMMA OcStaysSanctioned ==
  ASSUME IInv, NEW r \in Runs, Sanctioned(r), UNCHANGED <<tpc, task>>,
         \/ opc'[r] \in OcUpToScope \cup OcEnded
         \/ opc[r] \notin OcUpToScope \cup OcEnded
         \/ task[r].repo \in BadgeRepos
  PROVE  Sanctioned(r)'
BY DEF Sanctioned

\* OpenCode's steps: the task is set before anything is decided about it, and the
\* finding before the ticket is sent.
LEMMA OcSanctioned ==
  ASSUME IInv, NEW r \in Runs, Sanctioned(r), OcNext(r)
  PROVE  Sanctioned(r)'
<1>0. OcTypeOK /\ WorldTypeOK /\ CallOrder(r)
  BY DEF IInv, TypeOK, RunInv
<1>1. ASSUME NEW repo \in Repos, NEW cve \in Findings, StartRun(r, repo, cve)
      PROVE  Sanctioned(r)'
  <2>1. tpc[r] = "idle" /\ tpc' = tpc
    BY <1>0, <1>1 DEF StartRun, CallOrder, trVars
  <2>2. opc'[r] = "sarah-login"
    BY <1>0, <1>1 DEF StartRun, OcTypeOK
  <2> QED BY <2>1, <2>2 DEF Sanctioned, OcUpToScope
<1>2. CASE Scan(r)
  <2>1. opc[r] = "scan" /\ tpc[r] = "idle" /\ tpc' = tpc
    BY <1>0, <1>2 DEF Scan, OcRecord, CallOrder, trVars
  <2>2. task'[r].repo = task[r].repo
    BY <1>0, <1>2 DEF Scan, WorldTypeOK
  <2> QED BY <2>1, <2>2 DEF Sanctioned, OcUpToScope, OcEnded
<1>3. CASE BadgeScopeCheck(r)
  <2>1. UNCHANGED <<tpc, task>>
    BY <1>3 DEF BadgeScopeCheck, trVars, world
  <2>2. opc'[r] = "done" \/ task[r].repo \in BadgeRepos
    BY <1>0, <1>3 DEF BadgeScopeCheck, BadgeScopeAllows, OcRefused, OcHalt, OcRecord,
       OcTypeOK
  <2> QED BY <2>1, <2>2, OcStaysSanctioned DEF OcEnded
<1>4. CASE CreateTicket(r)
  <2>1. UNCHANGED task /\ opc[r] = "create-ticket"
    BY <1>4 DEF CreateTicket, OcRefused, OcHalt, OcRecord, world
  <2>2. task[r].repo \in BadgeRepos
    BY <2>1 DEF Sanctioned, OcUpToScope, OcEnded
  <2>3. \/ task[r].cve \in WellFormed
        \/ UNCHANGED tpc
    BY <1>4 DEF CreateTicket, TicketAllows, Ticket, trVars
  <2> QED BY <2>1, <2>2, <2>3 DEF Sanctioned
<1>5. CASE OcCallFails(r) \/ TicketLost(r)
  <2>1. UNCHANGED <<tpc, task>> /\ opc'[r] = "done"
    BY <1>0, <1>5 DEF OcCallFails, TicketLost, OcHalt, OcRecord, OcTypeOK, trVars, world
  <2> QED BY <2>1, OcStaysSanctioned DEF OcEnded
<1>6. CASE TicketAnswered(r) \/ TicketAbandoned(r)
  <2>1. UNCHANGED <<tpc, task>> /\ opc'[r] = "done"
    BY <1>0, <1>6 DEF TicketAnswered, TicketAbandoned, TicketFinishes, OcTypeOK, trVars,
       world
  <2> QED BY <2>1, OcStaysSanctioned DEF OcEnded
<1>7. CASE SignIn(r)
  <2>1. UNCHANGED <<tpc, task>> /\ opc'[r] \in OcUpToScope
    BY <1>0, <1>7 DEF SignIn, OcOk, OcRecord, OcUpToScope, OcTypeOK, trVars, world
  <2> QED BY <2>1, OcStaysSanctioned
<1>8. CASE \/ ResolveBadge(r) \/ MintRead(r) \/ ReadEgressCheck(r) \/ RedeemRead(r)
           \/ FetchSource(r) \/ Plan(r) \/ UseDirectory(r) \/ ExchangeAtA(r)
           \/ MintIdJag(r) \/ EgressCheck(r) \/ RedeemAtB(r)
  <2>1. UNCHANGED <<tpc, task>>
    BY <1>8 DEF ResolveBadge, MintRead, ReadEgressCheck, RedeemRead, FetchSource, Plan,
       UseDirectory, ExchangeAtA, MintIdJag, EgressCheck, RedeemAtB, trVars, world
  <2>2. opc[r] \in OcSteps \ OcUpToScope
    BY <1>8 DEF ResolveBadge, MintRead, ReadEgressCheck, RedeemRead, FetchSource, Plan,
       UseDirectory, ExchangeAtA, MintIdJag, EgressCheck, RedeemAtB, OcAnswered, OcOk,
       OcTolerated, OcRefused, OcHalt, OcRecord, OcSteps, OcUpToScope
  <2> QED BY <2>1, <2>2, OcStaysSanctioned DEF OcSteps, OcEnded
<1> QED BY <1>1, <1>2, <1>3, <1>4, <1>5, <1>6, <1>7, <1>8 DEF OcNext

\* A handler of Org B that moves has been called, and asks for nothing else.
LEMMA OrgBSanctioned ==
  ASSUME IInv, NEW r \in Runs, Sanctioned(r), TrNext(r) \/ SaNext(r)
  PROVE  Sanctioned(r)'
<1>1. UNCHANGED <<opc, task>>
  BY DEF TrNext, TrCallFails, VerifyIdJag, VerifyOpenCodeBadge, RegisterTriage,
     SubbadgeScopeCheck, TriageBadge, MintSubBadge, UseDirectoryB, SpawnSubAgent,
     SpawnLost, SpawnAnswered, SpawnAbandoned, SpawnFinishes, SaNext, SaCallFails,
     VerifySubBadge, RegisterSubAgent, SubAgentBadge, VerifyTriageBadge, RedeemSubBadge,
     WriteAnswered, WriteFails, PushFile, OpenPr, DeniedPrAttempt, Conclude, world, ocVars
<1>2. tpc[r] # "idle" \/ UNCHANGED tpc
  BY DEF TrNext, TrCallFails, VerifyIdJag, VerifyOpenCodeBadge, RegisterTriage,
     SubbadgeScopeCheck, TriageBadge, MintSubBadge, UseDirectoryB, SpawnSubAgent,
     SpawnLost, SpawnAnswered, SpawnAbandoned, SpawnFinishes, TrAnswered, TrOk,
     TrRefused, TrHalt, TrRecord, TrFatal, SaNext, SaCallFails, VerifySubBadge,
     RegisterSubAgent, SubAgentBadge, VerifyTriageBadge, RedeemSubBadge, WriteAnswered,
     WriteFails, PushFile, OpenPr, DeniedPrAttempt, Conclude, trVars
<1> QED BY <1>1, <1>2 DEF Sanctioned

\* What refusals rest on holds in every reachable state.
THEOREM RefusalInvariant == Spec => []RefusalInv
<1>1. Init => RefusalInv
  <2> SUFFICES ASSUME Init, NEW r \in Runs PROVE Sanctioned(r)
    BY InitClean DEF RefusalInv
  <2> QED BY DEF Init, OcInit, TrInit, Sanctioned, OcUpToScope
<1>2. RefusalInv /\ [Next]_vars => RefusalInv'
  <2> SUFFICES ASSUME RefusalInv, [Next]_vars, NEW r \in Runs PROVE Sanctioned(r)'
    BY StepClean DEF RefusalInv
  <2>0. IInv /\ TypeOK /\ Sanctioned(r)
    BY DEF RefusalInv, CleanInv, AuthInv, IInv
  <2>1. ASSUME NEW actor \in Runs, OcNext(actor) \/ TrNext(actor) \/ SaNext(actor)
        PROVE  Sanctioned(r)'
    <3>1. CASE actor = r
      BY <2>0, <2>1, <3>1, OcSanctioned, OrgBSanctioned
    <3>2. CASE actor # r
      <4>1. Untouched(r) /\ task'[r] = task[r]
        BY <2>0, <2>1, <3>2, OthersUntouched, OthersTask
      <4> QED BY <2>0, <4>1 DEF Untouched, Sanctioned
    <3> QED BY <3>1, <3>2
  <2>2. CASE Crash
    <3>1. /\ task' = task
          /\ opc'[r] \in {opc[r], "crashed"}
          /\ tpc'[r] # "idle" => tpc[r] # "idle"
      BY <2>2 DEF Crash, OpenCodeCrash, TriageCrash, SubAgentCrash, TrBusy, ocVars, trVars,
         world
    <3> QED BY <2>0, <3>1 DEF Sanctioned, OcEnded
  <2>3. CASE Rest \/ UNCHANGED vars \/ \E call \in sent : GiteaWrites(call)
    <3>1. UNCHANGED <<opc, tpc, task>>
      BY <2>3 DEF Rest, GiteaWrites, vars, ocVars, trVars, world
    <3> QED BY <2>0, <3>1 DEF Sanctioned
  <2> QED BY <2>1, <2>2, <2>3 DEF Next
<1> QED BY <1>1, <1>2, PTL DEF Spec

\* A run that fails though nothing failed has asked Gitea for nothing and left nothing
\* there, unless its source was empty: whichever policy or check refuses it, it does so
\* before the first write, for any number of runs.
THEOREM RefusalsLeaveNothing == Spec => []RefusedRunsLeaveNothing
<1>1. ASSUME RefusalInv PROVE RefusedRunsLeaveNothing
  <2> SUFFICES ASSUME NEW r \in Runs, faults = 0, verdict[r] = "failed",
                      osteps[r]["scan"] # "error"
               PROVE  ~Effect(r) /\ BranchesOf(r) \cup PullsOf(r) = {}
    BY DEF RefusedRunsLeaveNothing, Effect
  <2>1. IInv /\ CleanReports(r) /\ CallOrder(r) /\ Sanctioned(r)
    BY <1>1 DEF RefusalInv, CleanInv, AuthInv, IInv, RunInv
  <2>2. Effect(r) => tpc[r] # "idle"
    BY <2>1 DEF CallOrder, SaUpToSender, SaUpToSubBadge
  <2>3. ~Effect(r)
    BY <2>1, <2>2 DEF Sanctioned, CleanReports
  <2> QED BY <2>1, <2>3, WritesHaveEffect DEF IInv
<1> QED BY <1>1, RefusalInvariant, PTL
=============================================================================
