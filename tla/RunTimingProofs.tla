--------------------------- MODULE RunTimingProofs ---------------------------
(***************************************************************************)
(* Whatever the timeouts and lifetimes are: no write is admitted later     *)
(* than the credentials it goes back to allow, and if no credential lives  *)
(* shorter than the user is kept waiting, none expires while the user      *)
(* waits.                                                                  *)
(***************************************************************************)
EXTENDS RunTiming, TLAPS

-----------------------------------------------------------------------------
(* The steps of Next by their shape                                        *)

Moves ==
  {<<OpenCode, "register", "badge-scope">>, <<OpenCode, "badge-scope", "badge">>,
   <<OpenCode, "badge", "mint-read">>, <<OpenCode, "read-egress", "redeem-read">>,
   <<OpenCode, "fetch", "scan">>, <<OpenCode, "scan", "plan">>,
   <<OpenCode, "plan", "directory">>, <<OpenCode, "directory", "exchange">>,
   <<OpenCode, "egress", "redeem">>,
   <<Triage, "verify", "prepare">>, <<Triage, "prepare", "narrow">>,
   <<Triage, "narrow", "badge">>, <<Triage, "badge", "mint-sub">>,
   <<Triage, "directory", "spawn">>,
   <<SubAgent, "verify", "prepare">>, <<SubAgent, "prepare", "redeem">>,
   <<SubAgent, "push", "open">>, <<SubAgent, "open", "attempt">>,
   <<SubAgent, "attempt", "directory">>}

Trades ==
  {<<OpenCode, "sign-in", "register", "user">>,
   <<OpenCode, "mint-read", "read-egress", "read">>,
   <<OpenCode, "redeem-read", "fetch", "read-access">>,
   <<OpenCode, "exchange", "mint", "exchanged">>,
   <<OpenCode, "mint", "egress", "id-jag">>,
   <<OpenCode, "redeem", "ticket", "access">>,
   <<Triage, "mint-sub", "directory", "sub-badge">>,
   <<SubAgent, "redeem", "push", "write-access">>}

\* h's next step ends no earlier than it begins.
Later(h) ==
  /\ due' \in [Handlers -> Nat]
  /\ due' = [due EXCEPT ![h] = due'[h]]
  /\ due[h] <= due'[h]
  /\ slow' \in 0..MaxSlow

Shape ==
  \/ \E m \in Moves : Goto(m[1], m[2], m[3]) /\ UNCHANGED exp /\ Later(m[1])
  \/ \E t \in Trades : Trade(t[1], t[2], t[3], t[4]) /\ Later(t[1])
  \/ Write("push", "open") \/ Write("open", "attempt")
  \/ Ticket \/ Spawn
  \/ \E h \in Handlers : Answer(h) \/ DirectoryHangs(h)
  \/ WebGivesUp \/ UNCHANGED vars

\* Several calls of the same length take a time.
LEMMA ProductLater ==
  ASSUME NEW n \in Nat, NEW t \in Nat
  PROVE  n * t \in Nat
  BY SMT

\* Calls take no handler back in time.
LEMMA CallsLater ==
  ASSUME TypeOK, NEW h \in Handlers, NEW n \in Nat, TakesCalls(h, n)
  PROVE  Later(h)
<1>1. PICK c \in CallTimes : due' = [due EXCEPT ![h] = due[h] + n * c]
  BY DEF TakesCalls
<1>2. n * c \in Nat
  BY ProductLater, TimesAssumption
<1>3. slow' \in 0..MaxSlow
  BY TimesAssumption DEF TypeOK, TakesCalls
<1>4. due'[h] = due[h] + n * c /\ due[h] \in Nat
  BY <1>1 DEF TypeOK
<1> QED BY <1>1, <1>2, <1>3, <1>4 DEF TypeOK, Later

\* Neither does a single call, whichever of its lengths it takes.
LEMMA TimesLater ==
  ASSUME TypeOK, NEW h \in Handlers, NEW times \in SUBSET Nat, Takes(h, times)
  PROVE  Later(h)
<1>1. PICK t \in times : due' = [due EXCEPT ![h] = due[h] + t]
  BY DEF Takes
<1>2. due'[h] = due[h] + t /\ due[h] \in Nat /\ t \in Nat
  BY <1>1 DEF TypeOK
<1> QED BY <1>1, <1>2 DEF TypeOK, Takes, Later

\* Every step of Next has one of the shapes.
LEMMA Shapes ==
  ASSUME TypeOK, Next
  PROVE  Shape
<1> USE DEF OpenCode, Triage, SubAgent, Handlers
<1> DEFINE Moved(h, from, to) ==
      Goto(h, from, to) /\ UNCHANGED exp /\ Later(h)
           Traded(h, from, to, c) ==
      Trade(h, from, to, c) /\ Later(h)
<1>m. \A h, from, to :
        <<h, from, to>> \in Moves /\ Moved(h, from, to) => Shape
  <2> SUFFICES ASSUME NEW h, NEW from, NEW to,
                      <<h, from, to>> \in Moves, Moved(h, from, to)
               PROVE  Shape
    OBVIOUS
  <2> DEFINE m == <<h, from, to>>
  <2>1. m \in Moves /\ Goto(m[1], m[2], m[3]) /\ UNCHANGED exp /\ Later(m[1])
    OBVIOUS
  <2> QED BY <2>1 DEF Shape
<1>t. \A h, from, to, c :
        <<h, from, to, c>> \in Trades /\ Traded(h, from, to, c) => Shape
  <2> SUFFICES ASSUME NEW h, NEW from, NEW to, NEW c,
                      <<h, from, to, c>> \in Trades, Traded(h, from, to, c)
               PROVE  Shape
    OBVIOUS
  <2> DEFINE t == <<h, from, to, c>>
  <2>1. t \in Trades /\ Trade(t[1], t[2], t[3], t[4]) /\ Later(t[1])
    OBVIOUS
  <2> QED BY <2>1 DEF Shape
<1>c. \A h \in Handlers, n \in Nat : TakesCalls(h, n) => Later(h)
  BY CallsLater
<1>d. \A h \in Handlers, times \in SUBSET Nat : Takes(h, times) => Later(h)
  BY TimesLater
<1>n. ModelTimes \in SUBSET Nat /\ DirectoryTimes \in SUBSET Nat
  BY TimesAssumption
<1>1. CASE SignIn
  BY <1>1, <1>t, <1>c DEF SignIn, Trades
<1>2. CASE Register
  BY <1>2, <1>m, <1>c DEF Register, Step, Moves
<1>3. CASE BadgeScope
  BY <1>3, <1>m, <1>c DEF BadgeScope, Step, Moves
<1>4. CASE Badge
  BY <1>4, <1>m, <1>c DEF Badge, Step, Moves
<1>5. CASE MintRead
  BY <1>5, <1>t, <1>c DEF MintRead, Trades
<1>6. CASE ReadEgress
  BY <1>6, <1>m, <1>c DEF ReadEgress, Step, Moves
<1>7. CASE RedeemRead
  BY <1>7, <1>t, <1>c DEF RedeemRead, Trades
<1>8. CASE Fetch
  BY <1>8, <1>m, <1>d, <1>n DEF Fetch, Step, Moves
<1>9. CASE Scan
  BY <1>9, <1>m, <1>d, <1>n DEF Scan, Step, Moves
<1>10. CASE Plan
  BY <1>10, <1>m, <1>d, <1>n DEF Plan, Step, Moves
<1>11. CASE Directory(OpenCode, "exchange")
  BY <1>11, <1>m, <1>c DEF Directory, Step, Moves
<1>12. CASE Exchange
  BY <1>12, <1>t, <1>c DEF Exchange, Trades
<1>13. CASE Mint
  BY <1>13, <1>t, <1>c DEF Mint, Trades
<1>14. CASE Egress
  BY <1>14, <1>m, <1>c DEF Egress, Step, Moves
<1>15. CASE Redeem
  BY <1>15, <1>t, <1>c DEF Redeem, Trades
<1>16. CASE Ticket \/ Spawn
  BY <1>16 DEF Shape
<1>17. CASE VerifyIdJag
  BY <1>17, <1>m, <1>c DEF VerifyIdJag, Step, Moves
<1>18. CASE Prepare
  BY <1>18, <1>m, <1>c DEF Prepare, Step, Moves
<1>19. CASE Narrow
  BY <1>19, <1>m, <1>c DEF Narrow, Step, Moves
<1>20. CASE TriageBadge
  BY <1>20, <1>m, <1>c DEF TriageBadge, Step, Moves
<1>21. CASE MintSub
  BY <1>21, <1>t, <1>d, <1>n DEF MintSub, Trades
<1>22. CASE Directory(Triage, "spawn")
  BY <1>22, <1>m, <1>c DEF Directory, Step, Moves
<1>23. CASE VerifySubBadge
  BY <1>23, <1>m, <1>c DEF VerifySubBadge, Step, Moves
<1>24. CASE SubAgentReady
  BY <1>24, <1>m, <1>c DEF SubAgentReady, Step, Moves
<1>25. CASE RedeemSubBadge
  BY <1>25, <1>t, <1>c DEF RedeemSubBadge, Trades
<1>26. CASE Push
  <2>1. CASE Unwritten("push", "open")
    BY <2>1, <1>m, <1>c DEF Unwritten, Moves
  <2> QED BY <1>26, <2>1 DEF Push, Shape
<1>27. CASE Open
  <2>1. CASE Unwritten("open", "attempt")
    BY <2>1, <1>m, <1>c DEF Unwritten, Moves
  <2> QED BY <1>27, <2>1 DEF Open, Shape
<1>28. CASE Attempt
  BY <1>28, <1>m, <1>d, <1>n DEF Attempt, Step, Moves
<1>29. CASE Concludes
  BY <1>29 DEF Concludes, Shape
<1>30. CASE \E h \in Handlers : StepFails(h) \/ GivesUp(h) \/ DirectoryHangs(h)
  BY <1>30 DEF StepFails, GivesUp, Shape
<1>31. CASE WebGivesUp \/ Rest
  BY <1>31 DEF Rest, Shape
<1> QED
  BY <1>1, <1>2, <1>3, <1>4, <1>5, <1>6, <1>7, <1>8, <1>9, <1>10, <1>11, <1>12,
     <1>13, <1>14, <1>15, <1>16, <1>17, <1>18, <1>19, <1>20, <1>21, <1>22, <1>23,
     <1>24, <1>25, <1>26, <1>27, <1>28, <1>29, <1>30, <1>31 DEF Next

-----------------------------------------------------------------------------
(* Types                                                                   *)

Positions(h) ==
  CASE h = OpenCode -> OcPositions [] h = Triage -> TrPositions
    [] h = SubAgent -> SaPositions

\* The moves and trades of the tables stay within each handler's positions.
LEMMA TablePositions ==
  /\ \A m \in Moves : m[1] \in Handlers /\ m[3] \in Positions(m[1])
  /\ \A t \in Trades : t[1] \in Handlers /\ t[3] \in Positions(t[1])
                       /\ t[4] \in Credentials
  BY SMTT(30) DEF Moves, Trades, Positions, Handlers, OpenCode, Triage, SubAgent,
       OcPositions, TrPositions, SaPositions, Credentials

\* Every credential has a lifetime.
LEMMA LifeType ==
  ASSUME NEW c \in Credentials
  PROVE  Life(c) \in Nat
  BY TimesAssumption DEF Credentials, Life

\* The type invariant, position by position.
LEMMA TypeByPosition ==
  TypeOK <=>
    /\ web \in {"waiting", "answered", "gave-up"}
    /\ pc \in [Handlers -> OcPositions \cup TrPositions \cup SaPositions]
    /\ \A h \in Handlers : pc[h] \in Positions(h)
    /\ began \in [Handlers -> Nat] /\ due \in [Handlers -> Nat]
    /\ exp \in [Credentials -> Nat] /\ hung \subseteq Handlers
    /\ slow \in 0..MaxSlow /\ wrote \in Nat
  BY DEF TypeOK, Positions, Handlers, OpenCode, Triage, SubAgent

\* Advancing one handler within its positions keeps all positions typed.
LEMMA AdvanceType ==
  ASSUME TypeOK, NEW h \in Handlers, NEW to \in Positions(h),
         pc' = [pc EXCEPT ![h] = to]
  PROVE  /\ pc' \in [Handlers -> OcPositions \cup TrPositions \cup SaPositions]
         /\ \A g \in Handlers : pc'[g] \in Positions(g)
<1>1. to \in OcPositions \cup TrPositions \cup SaPositions
  BY DEF Positions, Handlers
<1>2. \A g \in Handlers : pc[g] \in Positions(g)
  BY TypeByPosition
<1>3. pc \in [Handlers -> OcPositions \cup TrPositions \cup SaPositions]
  BY DEF TypeOK
<1> QED BY <1>1, <1>2, <1>3, Zenon

\* The type invariant after a step, from the positions of the handlers.
LEMMA TypePrimed ==
  ASSUME web' \in {"waiting", "answered", "gave-up"},
         pc' \in [Handlers -> OcPositions \cup TrPositions \cup SaPositions],
         \A h \in Handlers : pc'[h] \in Positions(h),
         began' \in [Handlers -> Nat], due' \in [Handlers -> Nat],
         exp' \in [Credentials -> Nat], hung' \subseteq Handlers,
         slow' \in 0..MaxSlow, wrote' \in Nat
  PROVE  TypeOK'
  BY DEF TypeOK, Positions, Handlers, OpenCode, Triage, SubAgent

\* A credential that is issued expires at some time.
LEMMA IssueType ==
  ASSUME TypeOK, NEW h \in Handlers, NEW c \in Credentials, Issue(h, c)
  PROVE  exp' \in [Credentials -> Nat]
<1>1. PICK at \in {began[h], due[h]} : exp' = [exp EXCEPT ![c] = at + Life(c)]
  BY DEF Issue
<1>2. at + Life(c) \in Nat
  BY LifeType DEF TypeOK
<1> QED BY <1>1, <1>2 DEF TypeOK

\* A handover puts the caller into its wait and the callee at its first step.
LEMMA HandOverType ==
  ASSUME TypeOK, NEW h \in {OpenCode, Triage}, NEW from,
         NEW callee \in {Triage, SubAgent}, NEW timeout \in Nat, h # callee,
         HandOver(h, from, callee, timeout), UNCHANGED hung
  PROVE  TypeOK'
<1>1. pc' = [pc EXCEPT ![h] = "await", ![callee] = "verify"]
  BY DEF HandOver
<1>2. "await" \in Positions(h) /\ "verify" \in Positions(callee)
  BY DEF Positions, OpenCode, Triage, SubAgent, OcPositions, TrPositions, SaPositions
<1>3. h \in Handlers /\ callee \in Handlers
  BY DEF Handlers
<1>4. /\ pc' \in [Handlers -> OcPositions \cup TrPositions \cup SaPositions]
      /\ \A g \in Handlers : pc'[g] \in Positions(g)
  <2>1. \A g \in Handlers : pc[g] \in Positions(g)
    BY TypeByPosition
  <2>2. {"await", "verify"} \subseteq OcPositions \cup TrPositions \cup SaPositions
    BY DEF OcPositions, TrPositions
  <2> QED BY <1>1, <1>2, <1>3, <2>1, <2>2 DEF TypeOK
<1>5. began' \in [Handlers -> Nat] /\ due' \in [Handlers -> Nat]
  <2>1. PICK c \in CallTimes :
          due' = [due EXCEPT ![h] = began[h] + timeout, ![callee] = due[h] + c]
    BY DEF HandOver
  <2>2. c \in Nat
    BY TimesAssumption
  <2> QED BY <2>1, <2>2, <1>3 DEF HandOver, TypeOK
<1> QED BY <1>4, <1>5, TypePrimed DEF HandOver, TypeOK

\* An answer ends its handler and the callers it unblocks.
LEMMA AnswerType ==
  ASSUME TypeOK, NEW h \in Handlers, Answer(h)
  PROVE  TypeOK'
<1>1. pc' = [g \in Handlers |-> IF g \in Unblocked(h) THEN "over" ELSE pc[g]]
  BY DEF Answer
<1>2. \A g \in Handlers : "over" \in Positions(g) /\ pc[g] \in Positions(g)
  BY TypeByPosition
     DEF Positions, Handlers, OpenCode, Triage, SubAgent, OcPositions, TrPositions,
         SaPositions
<1>3. \A g \in Handlers : pc'[g] \in Positions(g)
  BY <1>1, <1>2
<1>4. "over" \in OcPositions
  BY DEF OcPositions
<1>5. pc' \in [Handlers -> OcPositions \cup TrPositions \cup SaPositions]
  BY <1>1, <1>4 DEF TypeOK
<1> QED BY <1>3, <1>5, TypePrimed DEF Answer, TypeOK

\* The run starts in its types.
LEMMA TypeInit ==
  ASSUME Init
  PROVE  TypeOK
<1>1. PICK c \in CallTimes : due = [h \in Handlers |-> IF h = OpenCode THEN c ELSE 0]
  BY DEF Init
<1>2. c \in Nat
  BY TimesAssumption
<1> QED BY <1>1, <1>2, TimesAssumption
        DEF Init, TypeOK, Handlers, OpenCode, Triage, SubAgent, OcPositions,
            TrPositions, SaPositions

\* Every step, by its shape, stays in the types.
LEMMA TypeStep ==
  ASSUME TypeOK, Shape
  PROVE  TypeOK'
<1>0. TicketTimeout \in Nat /\ SpawnTimeout \in Nat
  BY TimesAssumption
<1>1. CASE \E m \in Moves : Goto(m[1], m[2], m[3]) /\ UNCHANGED exp /\ Later(m[1])
  <2>1. PICK m \in Moves : Goto(m[1], m[2], m[3]) /\ UNCHANGED exp /\ Later(m[1])
    BY <1>1
  <2>2. m[1] \in Handlers /\ m[3] \in Positions(m[1])
    BY TablePositions
  <2>3. pc' = [pc EXCEPT ![m[1]] = m[3]] /\ began' = [began EXCEPT ![m[1]] = due[m[1]]]
        /\ UNCHANGED <<web, hung, wrote>>
    BY <2>1 DEF Goto
  <2>4. /\ pc' \in [Handlers -> OcPositions \cup TrPositions \cup SaPositions]
        /\ \A g \in Handlers : pc'[g] \in Positions(g)
    BY <2>2, <2>3, AdvanceType
  <2> QED BY <2>1, <2>2, <2>3, <2>4, TypePrimed DEF Later, TypeOK
<1>2. CASE \E t \in Trades : Trade(t[1], t[2], t[3], t[4]) /\ Later(t[1])
  <2>1. PICK t \in Trades : Trade(t[1], t[2], t[3], t[4]) /\ Later(t[1])
    BY <1>2
  <2>2. t[1] \in Handlers /\ t[3] \in Positions(t[1]) /\ t[4] \in Credentials
    BY TablePositions
  <2>3. pc' = [pc EXCEPT ![t[1]] = t[3]] /\ began' = [began EXCEPT ![t[1]] = due[t[1]]]
        /\ UNCHANGED <<web, hung, wrote>>
    BY <2>1 DEF Trade, Goto
  <2>4. /\ pc' \in [Handlers -> OcPositions \cup TrPositions \cup SaPositions]
        /\ \A g \in Handlers : pc'[g] \in Positions(g)
    BY <2>2, <2>3, AdvanceType
  <2>5. exp' \in [Credentials -> Nat]
    BY <2>1, <2>2, IssueType DEF Trade
  <2> QED BY <2>1, <2>2, <2>3, <2>4, <2>5, TypePrimed DEF Later, TypeOK
<1>3. ASSUME NEW from, NEW to \in SaPositions, Write(from, to)
      PROVE  TypeOK'
  <2>1. SubAgent \in Handlers /\ to \in Positions(SubAgent)
    BY <1>3 DEF Handlers, Positions, OpenCode, Triage, SubAgent
  <2>2. Later(SubAgent)
    BY <1>3, <2>1, CallsLater DEF Write
  <2>3. /\ pc' \in [Handlers -> OcPositions \cup TrPositions \cup SaPositions]
        /\ \A g \in Handlers : pc'[g] \in Positions(g)
    BY <1>3, <2>1, AdvanceType DEF Write
  <2> QED BY <1>3, <2>1, <2>2, <2>3, TypePrimed DEF Write, Later, TypeOK
<1>4. CASE Write("push", "open") \/ Write("open", "attempt")
  BY <1>3, <1>4 DEF SaPositions
<1>5. CASE Ticket
  BY <1>0, <1>5, HandOverType DEF Ticket, OpenCode, Triage, SubAgent
<1>6. CASE Spawn
  BY <1>0, <1>6, HandOverType DEF Spawn, OpenCode, Triage, SubAgent
<1>7. CASE \E h \in Handlers : Answer(h) \/ DirectoryHangs(h)
  <2>1. PICK h \in Handlers : Answer(h) \/ DirectoryHangs(h)
    BY <1>7
  <2>2. CASE Answer(h)
    BY <2>2, AnswerType
  <2>3. CASE DirectoryHangs(h)
    BY <2>3 DEF DirectoryHangs, TypeOK
  <2> QED BY <2>1, <2>2, <2>3
<1>8. CASE WebGivesUp \/ UNCHANGED vars
  BY <1>8 DEF WebGivesUp, vars, TypeOK
<1> QED BY <1>1, <1>2, <1>4, <1>5, <1>6, <1>7, <1>8 DEF Shape

\* Every action has one of the shapes: a move, a trade, a hand-over, an answer, a wait.
LEMMA StepShape ==
  ASSUME TypeOK, [Next]_vars
  PROVE  Shape
<1>1. CASE Next
  BY <1>1, Shapes
<1>2. CASE UNCHANGED vars
  BY <1>2 DEF Shape
<1> QED BY <1>1, <1>2

\* Each handler keeps to its own steps, and times and lifetimes stay natural
\* numbers, for any timeouts and lifetimes.
THEOREM TypeCorrect == Spec => []TypeOK
<1>1. Init => TypeOK
  BY TypeInit
<1>2. TypeOK /\ [Next]_vars => TypeOK'
  BY StepShape, TypeStep
<1> QED BY <1>1, <1>2, PTL DEF Spec

-----------------------------------------------------------------------------
(* What has been issued, and when it expires                               *)

Issuer(c) ==
  CASE c \in {"user", "read", "read-access", "exchanged", "id-jag", "access"} -> OpenCode
    [] c = "sub-badge" -> Triage
    [] c = "write-access" -> SubAgent

\* The positions of its issuer up to the step that issues c.
Until(c) ==
  LET toRead     == {"sign-in", "register", "badge-scope", "badge", "mint-read"}
      toFetch    == toRead \cup {"read-egress", "redeem-read"}
      toExchange == toFetch \cup {"fetch", "scan", "plan", "directory", "exchange"}
  IN  CASE c = "user" -> {"sign-in"}
        [] c = "read" -> toRead
        [] c = "read-access" -> toFetch
        [] c = "exchanged" -> toExchange
        [] c = "id-jag" -> toExchange \cup {"mint"}
        [] c = "access" -> toExchange \cup {"mint", "egress", "redeem"}
        [] c = "sub-badge" -> {"idle", "verify", "prepare", "narrow", "badge", "mint-sub"}
        [] c = "write-access" -> {"idle", "verify", "prepare", "redeem"}

\* A handler is called once, when its caller has come to the call.
Called ==
  /\ pc[OpenCode] \notin {"await", "over"} => pc[Triage] = "idle"
  /\ pc[Triage] \notin {"await", "over"} => pc[SubAgent] = "idle"

Forward == \A h \in Handlers : began[h] <= due[h]

\* Nothing is issued before its step, so nothing is issued twice ...
Unissued == \A c \in Credentials : pc[Issuer(c)] \in Until(c) => exp[c] = 0

\* ... and afterwards it lives for its lifetime at least,
Issued ==
  \A c \in Credentials :
    pc[Issuer(c)] \notin Until(c) \cup {"over"} => Life(c) <= exp[c]

\* also with the handlers it was handed over to.
HandedOver ==
  /\ pc[Triage] \notin {"idle", "over"} =>
       Life("id-jag") <= exp["id-jag"] /\ Life("access") <= exp["access"]
  /\ pc[SubAgent] \notin {"idle", "over"} => Life("sub-badge") <= exp["sub-badge"]

\* Each credential was obtained for a live one.
Chain ==
  /\ exp["exchanged"] <= exp["user"] + UserLife
  /\ exp["id-jag"] <= exp["exchanged"] + AssertionLife
  /\ exp["access"] <= exp["id-jag"] + AccessLife
  /\ exp["sub-badge"] <= exp["access"] + AssertionLife
  /\ wrote <= exp["sub-badge"] + Skew

IInv ==
  TypeOK /\ Called /\ Forward /\ Unissued /\ Issued /\ HandedOver /\ Chain

\* A move leaves the issuing steps of all credentials where they were.
LEMMA TableMoves ==
  ASSUME NEW m \in Moves, NEW c \in Credentials, Issuer(c) = m[1]
  PROVE  /\ m[3] \in Until(c) <=> m[2] \in Until(c)
         /\ {m[2], m[3]} \cap {"idle", "await", "over"} = {}
<1> USE DEF Moves, Issuer, Until, OpenCode, Triage, SubAgent
<1>1. CASE c = "user"
  BY <1>1
<1>2. CASE c = "read"
  BY <1>2
<1>3. CASE c = "read-access"
  BY <1>3
<1>4. CASE c = "exchanged"
  BY <1>4
<1>5. CASE c = "id-jag"
  BY <1>5
<1>6. CASE c = "access"
  BY <1>6
<1>7. CASE c = "sub-badge"
  BY <1>7
<1>8. CASE c = "write-access"
  BY <1>8
<1> QED BY <1>1, <1>2, <1>3, <1>4, <1>5, <1>6, <1>7, <1>8 DEF Credentials

\* A trade passes the issuing step of its own credential, and no other.
LEMMA TableTrades ==
  ASSUME NEW t \in Trades, NEW c \in Credentials, Issuer(c) = t[1]
  PROVE  /\ c # t[4] => (t[3] \in Until(c) <=> t[2] \in Until(c))
         /\ c = t[4] => t[2] \in Until(c) /\ t[3] \notin Until(c)
         /\ {t[2], t[3]} \cap {"idle", "await", "over"} = {}
<1> USE DEF Trades, Issuer, Until, OpenCode, Triage, SubAgent
<1>1. CASE c = "user"
  BY <1>1
<1>2. CASE c = "read"
  BY <1>2
<1>3. CASE c = "read-access"
  BY <1>3
<1>4. CASE c = "exchanged"
  BY <1>4
<1>5. CASE c = "id-jag"
  BY <1>5
<1>6. CASE c = "access"
  BY <1>6
<1>7. CASE c = "sub-badge"
  BY <1>7
<1>8. CASE c = "write-access"
  BY <1>8
<1> QED BY <1>1, <1>2, <1>3, <1>4, <1>5, <1>6, <1>7, <1>8 DEF Credentials

\* In the tables each credential is obtained by the handler it belongs to.
LEMMA TableIssuers ==
  /\ \A t \in Trades : Issuer(t[4]) = t[1]
  /\ \A c \in Credentials : Issuer(c) \in Handlers
  /\ \A m \in Moves : \E c \in Credentials : Issuer(c) = m[1]
  BY DEF Trades, Moves, Issuer, Credentials, Handlers, OpenCode, Triage, SubAgent

-----------------------------------------------------------------------------
(* Every step keeps the chain                                              *)

\* A step of one handler that is neither its first nor its last.
LEMMA CalledKept ==
  ASSUME TypeOK, Called, NEW h \in Handlers, NEW from, NEW to, pc[h] = from,
         {from, to} \cap {"idle", "await", "over"} = {},
         pc' = [pc EXCEPT ![h] = to]
  PROVE  Called'
  BY DEF TypeOK, Called, Handlers, OpenCode, Triage, SubAgent

\* A handler that goes on does so from when its last step was due.
LEMMA ForwardKept ==
  ASSUME TypeOK, Forward, NEW h \in Handlers, Later(h),
         began' = [began EXCEPT ![h] = due[h]]
  PROVE  Forward'
  BY DEF TypeOK, Forward, Later

\* A step that obtains no credential.
LEMMA MoveKeeps ==
  ASSUME IInv, NEW m \in Moves, Goto(m[1], m[2], m[3]), UNCHANGED exp, Later(m[1])
  PROVE  Called' /\ Forward' /\ Unissued' /\ Issued' /\ HandedOver' /\ Chain'
<1>1. /\ pc[m[1]] = m[2] /\ pc' = [pc EXCEPT ![m[1]] = m[3]]
      /\ began' = [began EXCEPT ![m[1]] = due[m[1]]] /\ UNCHANGED wrote
  BY DEF Goto
<1>2. m[1] \in Handlers /\ pc \in [Handlers -> OcPositions \cup TrPositions \cup SaPositions]
  BY TablePositions DEF IInv, TypeOK
<1>3. {m[2], m[3]} \cap {"idle", "await", "over"} = {}
  BY TableIssuers, TableMoves
<1>4. Called' /\ Forward'
  BY <1>1, <1>2, <1>3, CalledKept, ForwardKept DEF IInv
<1>5. ASSUME NEW c \in Credentials
      PROVE  /\ pc'[Issuer(c)] \in Until(c) <=> pc[Issuer(c)] \in Until(c)
             /\ pc'[Issuer(c)] = "over" <=> pc[Issuer(c)] = "over"
  <2>1. CASE Issuer(c) = m[1]
    BY <1>1, <1>2, <2>1, TableMoves
  <2>2. CASE Issuer(c) # m[1]
    BY <1>1, <1>2, <2>2, TableIssuers
  <2> QED BY <2>1, <2>2
<1>6. Unissued' /\ Issued'
  BY <1>5 DEF IInv, Unissued, Issued
<1>7. HandedOver'
  BY <1>1, <1>2, <1>3 DEF IInv, HandedOver, Handlers
<1>8. Chain'
  BY <1>1 DEF IInv, Chain
<1> QED BY <1>4, <1>6, <1>7, <1>8

\* What a trade yields outlives the step, and what it presented had not expired.
LEMMA TradeIssues ==
  ASSUME IInv, NEW t \in Trades, Trade(t[1], t[2], t[3], t[4])
  PROVE  \E at \in Nat :
           /\ exp' = [exp EXCEPT ![t[4]] = at + Life(t[4])]
           /\ at <= due[t[1]] /\ exp[t[4]] = 0
<1>1. t[1] \in Handlers /\ t[4] \in Credentials /\ Issuer(t[4]) = t[1]
  BY TablePositions, TableIssuers
<1>2. PICK at \in {began[t[1]], due[t[1]]} :
        exp' = [exp EXCEPT ![t[4]] = at + Life(t[4])]
  BY DEF Trade, Issue
<1>3. at \in Nat /\ at <= due[t[1]]
  BY <1>1 DEF IInv, TypeOK, Forward
<1>4. exp[t[4]] = 0
  <2>1. pc[t[1]] = t[2]
    BY DEF Trade, Goto
  <2>2. t[2] \in Until(t[4])
    BY <1>1, TableTrades
  <2> QED BY <1>1, <2>1, <2>2 DEF IInv, Unissued
<1> QED BY <1>2, <1>3, <1>4

\* What each credential of the chain is traded for.
LEMMA TradePresents ==
  ASSUME IInv, NEW t \in Trades, Trade(t[1], t[2], t[3], t[4])
  PROVE  /\ t[4] = "exchanged" => due[t[1]] <= exp["user"]
         /\ t[4] = "id-jag" => due[t[1]] <= exp["exchanged"]
         /\ t[4] = "access" => due[t[1]] <= exp["id-jag"]
         /\ t[4] = "sub-badge" => due[t[1]] <= exp["access"]
<1>1. pc[t[1]] = t[2] /\ Live(t[1])
  BY DEF Trade, Goto
<1>2. due[t[1]] \in Nat /\ \A c \in Credentials : exp[c] \in Nat
  BY TablePositions DEF IInv, TypeOK
<1>3. ASSUME NEW c \in Credentials, <<t[1], t[2]>> \in PresentedAt(c),
             <<t[1], t[2]>> \notin AtEnvoy
      PROVE  due[t[1]] <= exp[c]
  BY <1>1, <1>2, <1>3 DEF Live, LiveWithin
<1>4. CASE t[4] = "exchanged"
  <2>1. t[1] = OpenCode /\ t[2] = "exchange"
    BY <1>4 DEF Trades
  <2>2. <<t[1], t[2]>> \in PresentedAt("user") /\ <<t[1], t[2]>> \notin AtEnvoy
    BY <2>1 DEF PresentedAt, AtEnvoy
  <2> QED BY <1>3, <1>4, <2>2 DEF Credentials
<1>5. CASE t[4] = "id-jag"
  <2>1. t[1] = OpenCode /\ t[2] = "mint"
    BY <1>5 DEF Trades
  <2>2. <<t[1], t[2]>> \in PresentedAt("exchanged") /\ <<t[1], t[2]>> \notin AtEnvoy
    BY <2>1 DEF PresentedAt, AtEnvoy
  <2> QED BY <1>3, <1>5, <2>2 DEF Credentials
<1>6. CASE t[4] = "access"
  <2>1. t[1] = OpenCode /\ t[2] = "redeem"
    BY <1>6 DEF Trades
  <2>2. <<t[1], t[2]>> \in PresentedAt("id-jag") /\ <<t[1], t[2]>> \notin AtEnvoy
    BY <2>1 DEF PresentedAt, AtEnvoy
  <2> QED BY <1>3, <1>6, <2>2 DEF Credentials
<1>7. CASE t[4] = "sub-badge"
  <2>1. t[1] = Triage /\ t[2] = "mint-sub"
    BY <1>7 DEF Trades
  <2>2. <<t[1], t[2]>> \in PresentedAt("access") /\ <<t[1], t[2]>> \notin AtEnvoy
    BY <2>1 DEF PresentedAt, AtEnvoy, OpenCode, Triage, SubAgent
  <2> QED BY <1>3, <1>7, <2>2 DEF Credentials
<1> QED BY <1>4, <1>5, <1>6, <1>7

\* A step that obtains one while another is still valid.
LEMMA TradeKeeps ==
  ASSUME IInv, NEW t \in Trades, Trade(t[1], t[2], t[3], t[4]), Later(t[1])
  PROVE  Called' /\ Forward' /\ Unissued' /\ Issued' /\ HandedOver' /\ Chain'
<1>1. /\ pc[t[1]] = t[2] /\ pc' = [pc EXCEPT ![t[1]] = t[3]]
      /\ began' = [began EXCEPT ![t[1]] = due[t[1]]] /\ UNCHANGED wrote
  BY DEF Trade, Goto
<1>2. /\ t[1] \in Handlers /\ t[4] \in Credentials /\ Issuer(t[4]) = t[1]
      /\ pc \in [Handlers -> OcPositions \cup TrPositions \cup SaPositions]
      /\ exp \in [Credentials -> Nat] /\ wrote \in Nat /\ due[t[1]] \in Nat
  BY TablePositions, TableIssuers DEF IInv, TypeOK
<1>3. {t[2], t[3]} \cap {"idle", "await", "over"} = {}
  BY <1>2, TableTrades
<1>4. Called' /\ Forward'
  BY <1>1, <1>2, <1>3, CalledKept, ForwardKept DEF IInv
<1>5. PICK at \in Nat : /\ exp' = [exp EXCEPT ![t[4]] = at + Life(t[4])]
                        /\ at <= due[t[1]] /\ exp[t[4]] = 0
  BY TradeIssues
<1>6. Life(t[4]) \in Nat
  BY <1>2, LifeType
<1>7. exp'[t[4]] = at + Life(t[4]) /\ \A c \in Credentials : c # t[4] => exp'[c] = exp[c]
  BY <1>2, <1>5
<1>8. ASSUME NEW c \in Credentials, c # t[4]
      PROVE  /\ pc'[Issuer(c)] \in Until(c) <=> pc[Issuer(c)] \in Until(c)
             /\ pc'[Issuer(c)] = "over" <=> pc[Issuer(c)] = "over"
  <2>1. CASE Issuer(c) = t[1]
    BY <1>1, <1>2, <1>8, <2>1, TableTrades
  <2>2. CASE Issuer(c) # t[1]
    BY <1>1, <1>2, <2>2, TableIssuers
  <2> QED BY <2>1, <2>2
<1>9. pc'[Issuer(t[4])] \notin Until(t[4])
  BY <1>1, <1>2, TableTrades
<1>10. Unissued'
  BY <1>7, <1>8, <1>9 DEF IInv, Unissued
<1>11. Issued'
  <2> SUFFICES ASSUME NEW c \in Credentials,
                      pc'[Issuer(c)] \notin Until(c) \cup {"over"}
               PROVE  Life(c) <= exp'[c]
    BY DEF Issued
  <2>1. CASE c = t[4]
    BY <1>6, <1>7, <2>1
  <2>2. CASE c # t[4]
    BY <1>7, <1>8, <2>2 DEF IInv, Issued
  <2> QED BY <2>1, <2>2
<1>12. \A c \in Credentials : Life(c) <= exp[c] => Life(c) <= exp'[c]
  BY <1>6, <1>7
<1>13. HandedOver'
  BY <1>1, <1>2, <1>3, <1>12 DEF IInv, HandedOver, Handlers, Credentials
<1>14. Chain'
  <2>1. at <= due[t[1]] /\ exp[t[4]] = 0 /\ at + Life(t[4]) \in Nat
    BY <1>5, <1>6
  <2>2. \A c \in Credentials : exp[c] <= exp'[c] /\ exp[c] \in Nat /\ exp'[c] \in Nat
    BY <1>2, <1>7, <2>1
  <2>3. /\ UserLife \in Nat /\ AssertionLife \in Nat /\ AccessLife \in Nat /\ Skew \in Nat
    BY TimesAssumption
  <2>4. exp'["exchanged"] <= exp'["user"] + UserLife
    <3>1. CASE t[4] = "exchanged"
      BY <1>5, <1>7, <2>2, <2>3, <1>2, <3>1, TradePresents DEF Life, Credentials
    <3>2. CASE t[4] # "exchanged"
      BY <1>7, <2>2, <2>3, <3>2 DEF IInv, Chain, Credentials
    <3> QED BY <3>1, <3>2
  <2>5. exp'["id-jag"] <= exp'["exchanged"] + AssertionLife
    <3>1. CASE t[4] = "id-jag"
      BY <1>5, <1>7, <2>2, <2>3, <1>2, <3>1, TradePresents DEF Life, Credentials
    <3>2. CASE t[4] # "id-jag"
      BY <1>7, <2>2, <2>3, <3>2 DEF IInv, Chain, Credentials
    <3> QED BY <3>1, <3>2
  <2>6. exp'["access"] <= exp'["id-jag"] + AccessLife
    <3>1. CASE t[4] = "access"
      BY <1>5, <1>7, <2>2, <2>3, <1>2, <3>1, TradePresents DEF Life, Credentials
    <3>2. CASE t[4] # "access"
      BY <1>7, <2>2, <2>3, <3>2 DEF IInv, Chain, Credentials
    <3> QED BY <3>1, <3>2
  <2>7. exp'["sub-badge"] <= exp'["access"] + AssertionLife
    <3>1. CASE t[4] = "sub-badge"
      BY <1>5, <1>7, <2>2, <2>3, <1>2, <3>1, TradePresents DEF Life, Credentials
    <3>2. CASE t[4] # "sub-badge"
      BY <1>7, <2>2, <2>3, <3>2 DEF IInv, Chain, Credentials
    <3> QED BY <3>1, <3>2
  <2>8. wrote' <= exp'["sub-badge"] + Skew
    BY <1>1, <1>2, <2>2, <2>3 DEF IInv, Chain, Credentials
  <2> QED BY <2>4, <2>5, <2>6, <2>7, <2>8 DEF Chain
<1> QED BY <1>4, <1>10, <1>11, <1>13, <1>14

\* Envoy B admits a write for credentials that have expired Skew ago at most.
LEMMA WriteKeeps ==
  ASSUME IInv, NEW from \in {"push", "open"}, NEW to \in {"open", "attempt"},
         Write(from, to)
  PROVE  Called' /\ Forward' /\ Unissued' /\ Issued' /\ HandedOver' /\ Chain'
<1>1. /\ pc[SubAgent] = from /\ pc' = [pc EXCEPT ![SubAgent] = to] /\ Live(SubAgent)
      /\ began' = [began EXCEPT ![SubAgent] = due[SubAgent]]
      /\ wrote' = due[SubAgent] /\ UNCHANGED exp
  BY DEF Write
<1>2. /\ SubAgent \in Handlers
      /\ pc \in [Handlers -> OcPositions \cup TrPositions \cup SaPositions]
  BY DEF IInv, TypeOK, Handlers
<1>3. Later(SubAgent)
  BY <1>2, CallsLater DEF IInv, Write
<1>4. Called' /\ Forward'
  <2>1. {from, to} \cap {"idle", "await", "over"} = {}
    OBVIOUS
  <2> QED BY <1>1, <1>2, <1>3, <2>1, CalledKept, ForwardKept DEF IInv
<1>5. ASSUME NEW c \in Credentials
      PROVE  /\ pc'[Issuer(c)] \in Until(c) <=> pc[Issuer(c)] \in Until(c)
             /\ pc'[Issuer(c)] = "over" <=> pc[Issuer(c)] = "over"
  <2>1. CASE Issuer(c) = SubAgent
    <3>1. Until(c) = {"idle", "verify", "prepare", "redeem"}
      BY <2>1 DEF Issuer, Until, Credentials, OpenCode, Triage, SubAgent
    <3> QED BY <1>1, <1>2, <2>1, <3>1
  <2>2. CASE Issuer(c) # SubAgent
    BY <1>1, <1>2, <2>2, TableIssuers
  <2> QED BY <2>1, <2>2
<1>6. Unissued' /\ Issued'
  BY <1>1, <1>5 DEF IInv, Unissued, Issued
<1>7. HandedOver'
  BY <1>1, <1>2 DEF IInv, HandedOver, Handlers, OpenCode, Triage, SubAgent
<1>8. due[SubAgent] <= exp["sub-badge"] + Skew
  <2>1. <<SubAgent, pc[SubAgent]>> \in PresentedAt("sub-badge")
    BY <1>1 DEF PresentedAt
  <2>2. <<SubAgent, pc[SubAgent]>> \in AtEnvoy
    BY <1>1 DEF AtEnvoy
  <2> QED BY <1>1, <2>1, <2>2 DEF Live, LiveWithin, Credentials
<1>9. Chain'
  BY <1>1, <1>8 DEF IInv, Chain
<1> QED BY <1>4, <1>6, <1>7, <1>9

\* The callee begins when the caller calls, the caller ends at its timeout.
LEMMA HandOverForward ==
  ASSUME TypeOK, Forward, NEW h \in Handlers, NEW from, NEW callee \in Handlers,
         h # callee, NEW timeout \in Nat, HandOver(h, from, callee, timeout)
  PROVE  Forward'
<1>1. PICK c \in CallTimes :
        due' = [due EXCEPT ![h] = began[h] + timeout, ![callee] = due[h] + c]
  BY DEF HandOver
<1>2. c \in Nat
  BY TimesAssumption
<1> QED BY <1>1, <1>2 DEF HandOver, TypeOK, Forward

\* The ticket hands the chain over to Triage.
LEMMA TicketKeeps ==
  ASSUME IInv, Ticket
  PROVE  Called' /\ Forward' /\ Unissued' /\ Issued' /\ HandedOver' /\ Chain'
<1>1. /\ pc[OpenCode] = "ticket"
      /\ pc' = [pc EXCEPT ![OpenCode] = "await", ![Triage] = "verify"]
      /\ UNCHANGED <<exp, wrote>>
  BY DEF Ticket, HandOver
<1>2. /\ pc \in [Handlers -> OcPositions \cup TrPositions \cup SaPositions]
      /\ pc[Triage] = "idle" /\ pc[SubAgent] = "idle"
  BY <1>1 DEF IInv, TypeOK, Called
<1>3. /\ pc'[OpenCode] = "await" /\ pc'[Triage] = "verify" /\ pc'[SubAgent] = "idle"
  BY <1>1, <1>2 DEF Handlers, OpenCode, Triage, SubAgent
<1>4. Called'
  BY <1>3 DEF Called
<1>5. Forward'
  BY HandOverForward, TimesAssumption
     DEF IInv, Ticket, Handlers, OpenCode, Triage, SubAgent
<1>6. Unissued'
  <2>1. \A c \in Credentials : Issuer(c) = OpenCode => "await" \notin Until(c)
    BY DEF Credentials, Issuer, Until, OpenCode, Triage, SubAgent
  <2>2. \A c \in Credentials : "verify" \in Until(c) => "idle" \in Until(c)
    BY DEF Credentials, Until
  <2> QED BY <1>1, <1>2, <1>3, <2>1, <2>2, TableIssuers DEF IInv, Unissued, Handlers
<1>7. \A c \in Credentials : Issuer(c) = OpenCode => Life(c) <= exp[c]
  <2>1. \A c \in Credentials : Issuer(c) = OpenCode => "ticket" \notin Until(c)
    BY DEF Credentials, Issuer, Until, OpenCode, Triage, SubAgent
  <2> QED BY <1>1, <2>1 DEF IInv, Issued
<1>8. Issued'
  <2>1. \A c \in Credentials : Issuer(c) = Triage => "verify" \in Until(c)
    BY DEF Credentials, Issuer, Until, OpenCode, Triage, SubAgent
  <2>2. \A c \in Credentials : Issuer(c) = SubAgent => "idle" \in Until(c)
    BY DEF Credentials, Issuer, Until, OpenCode, Triage, SubAgent
  <2> QED BY <1>1, <1>3, <1>7, <2>1, <2>2, TableIssuers DEF Issued, Handlers
<1>9. HandedOver'
  BY <1>1, <1>3, <1>7 DEF HandedOver, Credentials, Issuer
<1>10. Chain'
  BY <1>1 DEF IInv, Chain
<1> QED BY <1>4, <1>5, <1>6, <1>8, <1>9, <1>10

\* The spawn hands it over to the Sub-Agent.
LEMMA SpawnKeeps ==
  ASSUME IInv, Spawn
  PROVE  Called' /\ Forward' /\ Unissued' /\ Issued' /\ HandedOver' /\ Chain'
<1>1. /\ pc[Triage] = "spawn"
      /\ pc' = [pc EXCEPT ![Triage] = "await", ![SubAgent] = "verify"]
      /\ UNCHANGED <<exp, wrote>>
  BY DEF Spawn, HandOver
<1>2. /\ pc \in [Handlers -> OcPositions \cup TrPositions \cup SaPositions]
      /\ pc[OpenCode] \in {"await", "over"} /\ pc[SubAgent] = "idle"
  BY <1>1 DEF IInv, TypeOK, Called
<1>3. /\ pc'[OpenCode] = pc[OpenCode] /\ pc'[Triage] = "await"
      /\ pc'[SubAgent] = "verify"
  BY <1>1, <1>2 DEF Handlers, OpenCode, Triage, SubAgent
<1>4. Called'
  BY <1>2, <1>3 DEF Called
<1>5. Forward'
  BY HandOverForward, TimesAssumption
     DEF IInv, Spawn, Handlers, OpenCode, Triage, SubAgent
<1>6. Unissued'
  <2>1. \A c \in Credentials : Issuer(c) = Triage => "await" \notin Until(c)
    BY DEF Credentials, Issuer, Until, OpenCode, Triage, SubAgent
  <2>2. \A c \in Credentials : "verify" \in Until(c) => "idle" \in Until(c)
    BY DEF Credentials, Until
  <2> QED BY <1>1, <1>2, <1>3, <2>1, <2>2, TableIssuers DEF IInv, Unissued, Handlers
<1>7. Life("sub-badge") <= exp["sub-badge"]
  <2>1. Issuer("sub-badge") = Triage /\ "spawn" \notin Until("sub-badge")
    BY DEF Issuer, Until
  <2> QED BY <1>1, <2>1 DEF IInv, Issued, Credentials
<1>8. Issued'
  <2>1. \A c \in Credentials : Issuer(c) = Triage => c = "sub-badge"
    BY DEF Credentials, Issuer, OpenCode, Triage, SubAgent
  <2>2. \A c \in Credentials : Issuer(c) = SubAgent => "verify" \in Until(c)
    BY DEF Credentials, Issuer, Until, OpenCode, Triage, SubAgent
  <2> QED BY <1>1, <1>3, <1>7, <2>1, <2>2, TableIssuers DEF IInv, Issued, Handlers
<1>9. HandedOver'
  BY <1>1, <1>3, <1>7 DEF IInv, HandedOver
<1>10. Chain'
  BY <1>1 DEF IInv, Chain
<1> QED BY <1>4, <1>5, <1>6, <1>8, <1>9, <1>10

\* An answer, in time or not, issues nothing.
LEMMA AnswerKeeps ==
  ASSUME IInv, NEW h \in Handlers, Answer(h)
  PROVE  Called' /\ Forward' /\ Unissued' /\ Issued' /\ HandedOver' /\ Chain'
<1>1. /\ pc' = [g \in Handlers |-> IF g \in Unblocked(h) THEN "over" ELSE pc[g]]
      /\ UNCHANGED <<began, due, exp, wrote>>
  BY DEF Answer
<1>2. \A g \in Unblocked(h) : pc[g] # "idle"
  BY DEF Answer, Turn, Pending, Unblocked
<1>3. \A g \in Handlers : pc'[g] = pc[g] \/ (pc'[g] = "over" /\ pc[g] # "idle")
  BY <1>1, <1>2
<1>4. Called'
  BY <1>3 DEF IInv, Called, Handlers
<1>5. Forward' /\ Chain'
  BY <1>1 DEF IInv, Forward, Chain
<1>6. Unissued'
  <2>1. \A c \in Credentials : "over" \notin Until(c)
    BY DEF Credentials, Until
  <2> QED BY <1>1, <1>3, <2>1, TableIssuers DEF IInv, Unissued
<1>7. Issued'
  BY <1>1, <1>3, TableIssuers DEF IInv, Issued
<1>8. HandedOver'
  BY <1>1, <1>3 DEF IInv, HandedOver, Handlers
<1> QED BY <1>4, <1>5, <1>6, <1>7, <1>8

\* Nothing has begun and nothing is issued at the start.
LEMMA Initially ==
  ASSUME Init
  PROVE  IInv
<1>1. TypeOK
  BY TypeInit
<1>2. /\ pc = [h \in Handlers |-> IF h = OpenCode THEN "sign-in" ELSE "idle"]
      /\ \A h \in Handlers : began[h] = 0 /\ due[h] \in Nat
      /\ \A c \in Credentials : exp[c] = 0
      /\ wrote = 0
  BY <1>1 DEF Init, TypeOK
<1>3. pc[OpenCode] = "sign-in" /\ pc[Triage] = "idle" /\ pc[SubAgent] = "idle"
  BY <1>2 DEF Handlers, OpenCode, Triage, SubAgent
<1>4. Called /\ HandedOver
  BY <1>3 DEF Called, HandedOver
<1>5. Forward /\ Unissued
  BY <1>2 DEF Forward, Unissued
<1>6. Issued
  <2>1. \A c \in Credentials : pc[Issuer(c)] \in Until(c)
    BY <1>3 DEF Credentials, Issuer, Until, OpenCode, Triage, SubAgent
  <2> QED BY <2>1 DEF Issued
<1>7. Chain
  BY <1>2, TimesAssumption DEF Chain, Credentials
<1> QED BY <1>1, <1>4, <1>5, <1>6, <1>7 DEF IInv

\* The invariant is inductive.
LEMMA ChainStep ==
  ASSUME IInv, [Next]_vars
  PROVE  IInv'
<1>1. Shape
  BY StepShape DEF IInv
<1>2. TypeOK'
  BY <1>1, TypeStep DEF IInv
<1>3. CASE \E m \in Moves : Goto(m[1], m[2], m[3]) /\ UNCHANGED exp /\ Later(m[1])
  BY <1>2, <1>3, MoveKeeps DEF IInv
<1>4. CASE \E t \in Trades : Trade(t[1], t[2], t[3], t[4]) /\ Later(t[1])
  BY <1>2, <1>4, TradeKeeps DEF IInv
<1>5. CASE Write("push", "open") \/ Write("open", "attempt")
  BY <1>2, <1>5, WriteKeeps DEF IInv
<1>6. CASE Ticket \/ Spawn
  BY <1>2, <1>6, TicketKeeps, SpawnKeeps DEF IInv
<1>7. CASE \E h \in Handlers : Answer(h) \/ DirectoryHangs(h)
  <2>1. PICK h \in Handlers : Answer(h) \/ DirectoryHangs(h)
    BY <1>7
  <2>2. CASE Answer(h)
    BY <1>2, <2>2, AnswerKeeps DEF IInv
  <2>3. CASE DirectoryHangs(h)
    BY <1>2, <2>3
       DEF DirectoryHangs, IInv, Called, Forward, Unissued, Issued, HandedOver, Chain
  <2> QED BY <2>1, <2>2, <2>3
<1>8. CASE WebGivesUp \/ UNCHANGED vars
  BY <1>2, <1>8
     DEF WebGivesUp, vars, IInv, Called, Forward, Unissued, Issued, HandedOver, Chain
<1> QED BY <1>1, <1>3, <1>4, <1>5, <1>6, <1>7, <1>8 DEF Shape

\* The inductive invariant: each handler is called once, nothing is issued twice,
\* and every credential lives from its issuing on, within its predecessor's bound.
THEOREM ChainInvariant == Spec => []IInv
<1>1. Init => IInv
  BY Initially
<1>2. IInv /\ [Next]_vars => IInv'
  BY ChainStep
<1> QED BY <1>1, <1>2, PTL DEF Spec

\* The sum along the chain is the bound on the writes.
LEMMA ChainBounds ==
  ASSUME IInv
  PROVE  WritesExpire
<1>1. wrote \in Nat /\ \A c \in Credentials : exp[c] \in Nat
  BY DEF IInv, TypeOK
<1> QED BY <1>1, TimesAssumption DEF IInv, Chain, WritesExpire, Credentials

\* No write is admitted later than the lifetimes of the chain of credentials it
\* goes back to allow, whatever hangs, whoever gave up, and for any timeouts.
THEOREM ChainOfCredentialsEnds == Spec => []WritesExpire
<1> QED BY ChainInvariant, ChainBounds, PTL

\* What a handler presents has been issued to it or handed over to it.
LEMMA PresentedIsIssued ==
  ASSUME IInv, NEW h \in Handlers, NEW c \in Credentials,
         <<h, pc[h]>> \in PresentedAt(c)
  PROVE  Life(c) <= exp[c]
<1> USE DEF PresentedAt, Issuer, Until, OpenCode, Triage, SubAgent
<1>1. CASE c = "user"
  BY <1>1 DEF IInv, Issued
<1>2. CASE c = "read"
  BY <1>2 DEF IInv, Issued
<1>3. CASE c = "read-access"
  BY <1>3 DEF IInv, Issued
<1>4. CASE c = "exchanged"
  BY <1>4 DEF IInv, Issued
<1>5. CASE c = "id-jag"
  BY <1>5 DEF IInv, Issued, HandedOver
<1>6. CASE c = "access"
  BY <1>6 DEF IInv, Issued, HandedOver
<1>7. CASE c = "sub-badge"
  BY <1>7 DEF IInv, HandedOver
<1>8. CASE c = "write-access"
  BY <1>8 DEF IInv, Issued
<1> QED BY <1>1, <1>2, <1>3, <1>4, <1>5, <1>6, <1>7, <1>8 DEF Credentials

\* As lifetimes go, nothing expires while the user waits.
LEMMA LongLived ==
  ASSUME IInv
  PROVE  NothingExpiresWhileWaited
<1> SUFFICES ASSUME web = "waiting", NEW h \in Handlers, Turn(h),
                    NEW c \in Credentials, <<h, pc[h]>> \in PresentedAt(c)
             PROVE  due[h] <= exp[c] + 0
  BY DEF NothingExpiresWhileWaited, LiveWithin
<1>1. due[h] <= RunTimeout /\ due[h] \in Nat /\ exp[c] \in Nat /\ RunTimeout \in Nat
  BY TimesAssumption DEF Turn, IInv, TypeOK
<1>2. RunTimeout <= Life(c) /\ Life(c) \in Nat
  BY LifeAssumption, LifeType DEF Life, Credentials
<1>3. Life(c) <= exp[c]
  BY PresentedIsIssued
<1> QED BY <1>1, <1>2, <1>3

\* As long as no credential lives shorter than the user is kept waiting, no step
\* of a run the user waits for finds one expired, for any timeouts and any delays.
THEOREM NoExpiryWhileWaited == Spec => []NothingExpiresWhileWaited
<1> QED BY ChainInvariant, LongLived, PTL
=============================================================================
