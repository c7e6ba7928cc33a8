-------------------------- MODULE TrustAnchorProofs --------------------------
(***************************************************************************)
(* Proofs about TrustAnchor, for every set of issuers, passes and agents   *)
(* and every number of attempts, restarts and failures.                    *)
(***************************************************************************)
EXTENDS TrustAnchor, TLAPS

-----------------------------------------------------------------------------
(* Types                                                                   *)

\* The failures that may still happen are never exceeded.
LEMMA FaultType ==
  ASSUME faults \in 0..MaxFaults, Fault \/ UNCHANGED faults
  PROVE  faults' \in 0..MaxFaults
BY TrustAssumption DEF Fault

\* A step to a position keeps the types of positions and of the fault counter.
LEMMA GotoType ==
  ASSUME TypeOK, NEW p \in Passes, NEW from, NEW to \in Positions,
         from # "exited", Goto(p, from, to)
  PROVE  /\ pc' \in [Passes -> Positions] /\ faults' \in 0..MaxFaults
         /\ \A q \in Passes : tries[q] < MaxTries \/ pc'[q] = "exited"
<1>1. "exited" \in Positions
  BY DEF Positions, Over
<1>2. faults' \in 0..MaxFaults
  BY FaultType DEF TypeOK, Goto
<1>3. pc' \in [Passes -> Positions]
  BY <1>1 DEF TypeOK, PassTypeOK, Goto
<1>4. \A q \in Passes : tries[q] < MaxTries \/ pc'[q] = "exited"
  BY DEF TypeOK, PassTypeOK, Goto
<1> QED BY <1>2, <1>3, <1>4

\* The system starts in its types.
LEMMA TypeInit == Init => TypeOK
<1> SUFFICES ASSUME Init PROVE TypeOK
  OBVIOUS
<1>1. (CHOOSE i \in Issuers : TRUE) \in Issuers
  BY TrustAssumption
<1>2. vaultUp \in BOOLEAN /\ mounted \in BOOLEAN /\ nodeUp \in BOOLEAN /\ vaultUp
  BY Zenon DEF Init
<1>3. ServiceTypeOK
  <2>1. starts = 1 /\ key = [i \in Issuers |-> 0] /\ registered = [i \in Issuers |-> 0]
    BY DEF Init
  <2>2. starts \in 1..MaxStarts /\ 0 \in Keys
    BY <2>1, TrustAssumption DEF Keys
  <2> QED BY <1>2, <2>1, <2>2 DEF ServiceTypeOK
<1>4. PassTypeOK
  <2>1. 0 \in Keys /\ 0 \in 0..MaxTries /\ 0 < MaxTries /\ "idle" \in Positions
    BY TrustAssumption DEF Keys, Positions
  <2> QED BY <1>1, <2>1 DEF Init, PassTypeOK
<1>5. AgentTypeOK
  BY TrustAssumption DEF Init, AgentTypeOK, Keys
<1>6. HistoryTypeOK /\ faults \in 0..MaxFaults
  BY TrustAssumption DEF Init, HistoryTypeOK
<1> QED BY <1>3, <1>4, <1>5, <1>6 DEF TypeOK

\* Vault, the node and their losses.
LEMMA ServicesType ==
  ASSUME TypeOK, Services
  PROVE  TypeOK'
<1> USE DEF TypeOK
<1>1. AgentTypeOK'
  BY DEF Services, VaultStops, VaultStarts, NodeStops, DropRegistrations, NodeStarts,
         AgentTypeOK, agent
<1>9. PassTypeOK'
  <2>1. CASE DropRegistrations
    <3>1. "idle" \in Positions
      BY DEF Positions
    <3>2. /\ pc' \in [Passes -> Positions] /\ todo' \in [Passes -> SUBSET Issuers]
          /\ \A q \in Passes : pc'[q] = "exited" \/ pc[q] # "exited"
      BY <2>1, <3>1 DEF DropRegistrations, PassTypeOK
    <3>3. UNCHANGED <<tries, cur, jwk, ownSigner>>
      BY <2>1 DEF DropRegistrations
    <3> QED BY <3>2, <3>3 DEF PassTypeOK
  <2>2. CASE VaultStops \/ VaultStarts \/ NodeStops \/ NodeStarts
    BY <2>2 DEF VaultStops, VaultStarts, NodeStops, NodeStarts, PassTypeOK, pass
  <2> QED BY <2>1, <2>2 DEF Services
<1>2. HistoryTypeOK'
  BY DEF Services, VaultStops, VaultStarts, NodeStops, DropRegistrations, NodeStarts,
         HistoryTypeOK, history
<1>3. faults' \in 0..MaxFaults
  BY FaultType DEF Services, VaultStops, VaultStarts, NodeStops, DropRegistrations,
                   NodeStarts
<1>4. 0 \in Keys
  BY TrustAssumption DEF Keys
<1>5. key' \in [Issuers -> Keys] /\ registered' \in [Issuers -> Keys]
  BY <1>4 DEF Services, VaultStops, VaultStarts, NodeStops, DropRegistrations,
              NodeStarts, ServiceTypeOK, vault, node
<1>6. vaultUp' \in BOOLEAN /\ mounted' \in BOOLEAN /\ nodeUp' \in BOOLEAN
  BY Zenon DEF Services, VaultStops, VaultStarts, NodeStops, DropRegistrations,
               NodeStarts, ServiceTypeOK, vault, node
<1>7. starts' \in 1..MaxStarts /\ (~vaultUp' => starts' < MaxStarts)
  <2>1. CASE VaultStops
    BY <2>1, TrustAssumption DEF VaultStops, ServiceTypeOK
  <2>2. CASE VaultStarts
    BY <2>2, TrustAssumption DEF VaultStarts, ServiceTypeOK
  <2>3. CASE NodeStops \/ DropRegistrations \/ NodeStarts
    <3>1. starts' = starts /\ vaultUp' = vaultUp
      BY <2>3 DEF NodeStops, DropRegistrations, NodeStarts, vault
    <3> QED BY <3>1 DEF ServiceTypeOK
  <2> QED BY <2>1, <2>2, <2>3 DEF Services
<1>8. ServiceTypeOK'
  BY <1>5, <1>6, <1>7 DEF ServiceTypeOK
<1> QED BY <1>1, <1>2, <1>3, <1>8, <1>9

\* A pass begins at its first wait.
LEMMA BeginType ==
  ASSUME TypeOK, NEW p \in Passes, Begin(p)
  PROVE  TypeOK'
<1> USE DEF TypeOK, Begin
<1>1. "wait-vault" \in Positions /\ "wait-vault" # "exited"
  BY DEF Positions
<1>2. PassTypeOK'
  BY <1>1 DEF PassTypeOK
<1>3. ServiceTypeOK' /\ AgentTypeOK' /\ HistoryTypeOK' /\ faults' \in 0..MaxFaults
  BY DEF ServiceTypeOK, AgentTypeOK, HistoryTypeOK, vault, node, agent
<1> QED BY <1>2, <1>3

\* What a wait leaves alone, and what a probe does to position and attempts.
LEMMA ReadyType ==
  ASSUME TypeOK, NEW p \in Passes, NEW up, NEW from, NEW to \in Positions,
         Ready(p, up, from, to)
  PROVE  TypeOK'
<1> USE DEF TypeOK, Ready
<1>1. 0 \in 0..MaxTries /\ 0 < MaxTries
  BY TrustAssumption
<1>2. PassTypeOK'
  BY <1>1 DEF PassTypeOK
<1>3. ServiceTypeOK' /\ AgentTypeOK' /\ HistoryTypeOK' /\ faults' \in 0..MaxFaults
  BY DEF ServiceTypeOK, AgentTypeOK, HistoryTypeOK, vault, node, agent, history
<1> QED BY <1>2, <1>3

\* A pass that waits counts its tries up to their bound.
LEMMA NotReadyType ==
  ASSUME TypeOK, NEW p \in Passes, NEW up,
         NEW from \in {"wait-vault", "wait-node"}, NotReady(p, up, from)
  PROVE  TypeOK'
<1> USE DEF TypeOK, NotReady
<1>1. tries[p] < MaxTries /\ tries[p] + 1 \in 0..MaxTries
  BY TrustAssumption DEF PassTypeOK
<1>2. "exited" \in Positions
  BY DEF Positions, Over
<1>3. pc' \in [Passes -> Positions] /\ tries' \in [Passes -> 0..MaxTries]
  BY <1>1, <1>2 DEF PassTypeOK
<1>4. \A q \in Passes : tries'[q] < MaxTries \/ pc'[q] = "exited"
  BY <1>1, TrustAssumption DEF PassTypeOK
<1>5. PassTypeOK'
  BY <1>3, <1>4 DEF PassTypeOK
<1>6. faults' \in 0..MaxFaults
  BY FaultType
<1>7. ServiceTypeOK' /\ AgentTypeOK' /\ HistoryTypeOK'
  BY DEF ServiceTypeOK, AgentTypeOK, HistoryTypeOK, vault, node, agent, history
<1> QED BY <1>5, <1>6, <1>7

\* A pass after its waits: the step that goes well types its own variables.
LEMMA PassStepType ==
  ASSUME TypeOK, NEW p \in Passes,
         \/ EnableTransit(p) \/ CreateKey(p) \/ ReadKey(p) \/ CheckMatches(p)
         \/ CheckMismatch(p) \/ CheckUnread(p) \/ SignOwnProof(p) \/ RegisterNew(p)
         \/ RegisterAgain(p) \/ PassFails(p) \/ RequestLost(p)
  PROVE  TypeOK'
<1> USE DEF TypeOK
<1>1. /\ {"next", "read-key", "check", "sign", "register", "done", "exited",
          "mismatch"} \subseteq Positions
      /\ AfterIssuer(p) \in Positions
  BY DEF Positions, Over, AfterIssuer
<1> DEFINE Moved == /\ pc' \in [Passes -> Positions] /\ faults' \in 0..MaxFaults
                    /\ \A q \in Passes : tries[q] < MaxTries \/ pc'[q] = "exited"
<1>2. Moved
  <2>1. ASSUME EnableTransit(p) \/ CreateKey(p) \/ ReadKey(p) \/ CheckMatches(p)
        PROVE  Moved
    BY <1>1, <2>1, GotoType DEF EnableTransit, CreateKey, ReadKey, CheckMatches
  <2>2. ASSUME CheckMismatch(p) \/ SignOwnProof(p) \/ RegisterNew(p) \/ RegisterAgain(p)
        PROVE  Moved
    BY <1>1, <2>2, GotoType DEF CheckMismatch, SignOwnProof, RegisterNew, RegisterAgain
  <2>3. ASSUME CheckUnread(p) \/ PassFails(p) \/ RequestLost(p)
        PROVE  Moved
    <3>1. faults' \in 0..MaxFaults
      BY <2>3, FaultType DEF CheckUnread, PassFails, RequestLost
    <3>2. pc' = [pc EXCEPT ![p] = "exited"] \/ (pc[p] = "check" /\ pc' = [pc EXCEPT ![p] = "sign"])
      BY <2>3 DEF CheckUnread, PassFails, RequestLost
    <3> QED BY <1>1, <3>1, <3>2 DEF PassTypeOK
  <2> QED BY <2>1, <2>2, <2>3
<1>3. tries' = tries /\ agent' = agent /\ vaultUp' = vaultUp /\ starts' = starts
      /\ nodeUp' = nodeUp /\ settled' = settled /\ sound' = sound
  BY DEF EnableTransit, CreateKey, ReadKey, CheckMatches, CheckMismatch, CheckUnread,
         SignOwnProof, RegisterNew, RegisterAgain, PassFails, RequestLost,
         vault, node, agent, history
<1>4. mounted' \in BOOLEAN
  BY DEF EnableTransit, CreateKey, ReadKey, CheckMatches, CheckMismatch, CheckUnread,
         SignOwnProof, RegisterNew, RegisterAgain, PassFails, RequestLost, vault,
         ServiceTypeOK
<1>5. starts \in Keys
  BY DEF ServiceTypeOK, Keys
<1>6. key' \in [Issuers -> Keys]
  BY <1>5 DEF EnableTransit, CreateKey, ReadKey, CheckMatches, CheckMismatch,
       CheckUnread, SignOwnProof, RegisterNew, RegisterAgain, PassFails, RequestLost,
       vault, ServiceTypeOK
<1>7. registered' \in [Issuers -> Keys]
  BY DEF EnableTransit, CreateKey, ReadKey, CheckMatches, CheckMismatch, CheckUnread,
         SignOwnProof, RegisterNew, RegisterAgain, PassFails, RequestLost, node,
         ServiceTypeOK, PassTypeOK
<1>8. /\ todo' \in [Passes -> SUBSET Issuers] /\ cur' \in [Passes -> Issuers]
  BY DEF EnableTransit, CreateKey, ReadKey, CheckMatches, CheckMismatch, CheckUnread,
         SignOwnProof, RegisterNew, RegisterAgain, PassFails, RequestLost, PassTypeOK
<1>9. /\ jwk' \in [Passes -> Keys] /\ ownSigner' \in [Passes -> Keys]
  BY DEF EnableTransit, CreateKey, ReadKey, CheckMatches, CheckMismatch, CheckUnread,
         SignOwnProof, RegisterNew, RegisterAgain, PassFails, RequestLost, PassTypeOK,
         ServiceTypeOK
<1>10. unread' \subseteq [pass : Passes, issuer : Issuers]
  BY DEF EnableTransit, CreateKey, ReadKey, CheckMatches, CheckMismatch, CheckUnread,
         SignOwnProof, RegisterNew, RegisterAgain, PassFails, RequestLost, history,
         HistoryTypeOK, PassTypeOK, ServiceTypeOK
<1>11. ServiceTypeOK'
  BY <1>3, <1>4, <1>6, <1>7 DEF ServiceTypeOK
<1>12. PassTypeOK'
  BY <1>2, <1>3, <1>8, <1>9 DEF PassTypeOK
<1>13. AgentTypeOK' /\ HistoryTypeOK'
  BY <1>3, <1>10 DEF AgentTypeOK, HistoryTypeOK, agent
<1> QED BY <1>2, <1>11, <1>12, <1>13

\* An agent caches and presents a key there is.
LEMMA AgentType ==
  ASSUME TypeOK, NEW a \in Clients, AgentNext(a)
  PROVE  TypeOK'
<1> USE DEF TypeOK
<1>1. IssuerOf[a] \in Issuers /\ 0 \in Keys
  BY TrustAssumption DEF Keys
<1>2. vault' = vault /\ node' = node /\ pass' = pass
      /\ unread' = unread /\ settled' = settled
  BY DEF AgentNext, AgentStarts, AgentStops, NameKey, SignProof, Post, history
<1>3. faults' \in 0..MaxFaults
  BY FaultType DEF AgentNext, AgentStarts, AgentStops, NameKey, SignProof, Post
<1>4. AgentTypeOK'
  BY <1>1 DEF AgentNext, AgentStarts, AgentStops, NameKey, SignProof, Post,
              AgentTypeOK, ServiceTypeOK
<1>5. sound' \subseteq Clients
  BY DEF AgentNext, AgentStarts, AgentStops, NameKey, SignProof, Post, history,
         HistoryTypeOK
<1>6. ServiceTypeOK' /\ PassTypeOK'
  BY <1>2 DEF vault, node, pass, ServiceTypeOK, PassTypeOK
<1>7. HistoryTypeOK'
  BY <1>2, <1>5 DEF HistoryTypeOK
<1> QED BY <1>3, <1>4, <1>6, <1>7

\* A stuttering step changes no type.
LEMMA StutterType == TypeOK /\ UNCHANGED vars => TypeOK'
BY DEF TypeOK, ServiceTypeOK, PassTypeOK, AgentTypeOK, HistoryTypeOK, vars, vault, node,
       pass, agent, history

\* Every step stays in the types.
LEMMA TypeStep == TypeOK /\ [Next]_vars => TypeOK'
<1> SUFFICES ASSUME TypeOK, [Next]_vars PROVE TypeOK'
  OBVIOUS
<1>1. CASE Services
  BY <1>1, ServicesType
<1>2. CASE \E p \in Passes : Begin(p) \/ PassNext(p)
  <2>1. PICK p \in Passes : Begin(p) \/ PassNext(p)
    BY <1>2
  <2>2. CASE Begin(p)
    BY <2>2, BeginType
  <2>3. CASE WaitFor(p)
    <3>1. "wait-node" \in Positions /\ "transit" \in Positions
      BY DEF Positions
    <3> QED BY <2>3, <3>1, ReadyType, NotReadyType DEF WaitFor
  <2>4. CASE PassNext(p) /\ ~WaitFor(p)
    BY <2>4, PassStepType DEF PassNext
  <2> QED BY <2>1, <2>2, <2>3, <2>4
<1>3. CASE \E a \in Clients : AgentNext(a)
  BY <1>3, AgentType
<1>4. CASE Rest \/ UNCHANGED vars
  BY <1>4, StutterType DEF Rest
<1> QED BY <1>1, <1>2, <1>3, <1>4 DEF Next

\* The services, the passes, the agents and the histories stay in their types.
THEOREM TypeCorrect == Spec => []TypeOK
<1>1. Init => TypeOK
  BY TypeInit
<1>2. TypeOK /\ [Next]_vars => TypeOK'
  BY TypeStep
<1> QED BY <1>1, <1>2, PTL DEF Spec

-----------------------------------------------------------------------------
(* What a complete pass establishes                                        *)

Before == {"idle", "wait-vault", "wait-node", "transit"}
AtHand == {"read-key", "check", "sign", "register"}

\* The issuers p has dealt with.
Handled(p) == Issuers \ (todo[p] \cup (IF pc[p] \in AtHand THEN {cur[p]} ELSE {}))

\* No pass is under way that began before Vault or the registrations were lost
\* and might still register what it found then.
NoStalePass == settled = {} \/ Running \subseteq settled

LoopInv(p) ==
  /\ pc[p] \in Before => todo[p] = Issuers
  /\ pc[p] = "done" => todo[p] = {}

\* The key p has read is the one Vault holds.
KeyInv(p) ==
  p \in settled /\ pc[p] \in AtHand =>
    key[cur[p]] # 0 /\ (pc[p] # "read-key" => jwk[p] = key[cur[p]])

\* What p has checked still holds when it registers.
CheckedInv(p) ==
  p \in settled /\ pc[p] \in {"sign", "register"} /\ Read(p, cur[p]) =>
    registered[cur[p]] \in {0, key[cur[p]]}

HandledInv(p) ==
  p \in settled /\ pc[p] \in {"next", "done"} \cup AtHand =>
    \A i \in Handled(p) : Read(p, i) => key[i] # 0 /\ registered[i] = key[i]

PassInv(p) == LoopInv(p) /\ KeyInv(p) /\ CheckedInv(p) /\ HandledInv(p)

\* The inductive invariant behind BootstrapEstablishesTrust.
TrustInv == NoStalePass /\ \A p \in Passes : PassInv(p)

\* No pass has settled anything at the start.
LEMMA TrustInit == Init => TrustInv
<1> SUFFICES ASSUME Init PROVE TrustInv
  OBVIOUS
<1>1. settled = {} /\ \A p \in Passes : pc[p] = "idle" /\ todo[p] = Issuers
  BY DEF Init
<1> QED BY <1>1 DEF TrustInv, NoStalePass, PassInv, LoopInv, KeyInv, CheckedInv,
                    HandledInv

\* A pass that does not move keeps its invariant as long as keys only appear and
\* registrations only take the key Vault holds.
LEMMA Unmoved ==
  ASSUME TypeOK, NEW p \in Passes, PassInv(p),
         pc'[p] = pc[p], todo'[p] = todo[p], cur'[p] = cur[p], jwk'[p] = jwk[p],
         p \in settled' => p \in settled,
         unread \subseteq unread',
         p \in settled => \A i \in Issuers :
           /\ key[i] # 0 => key'[i] = key[i]
           /\ \/ registered'[i] = registered[i]
              \/ registered[i] = 0 /\ key[i] # 0 /\ registered'[i] = key[i]
  PROVE  PassInv(p)'
<1>1. cur[p] \in Issuers
  BY DEF TypeOK, PassTypeOK
<1>2. \A i \in Issuers : Read(p, i)' => Read(p, i)
  BY DEF Read
<1>3. LoopInv(p)'
  BY DEF PassInv, LoopInv
<1>4. KeyInv(p)'
  BY <1>1 DEF PassInv, KeyInv
<1>5. CheckedInv(p)'
  BY <1>1, <1>2 DEF PassInv, CheckedInv, KeyInv, AtHand
<1>6. HandledInv(p)'
  <2>1. Handled(p)' = Handled(p) /\ Handled(p) \subseteq Issuers
    BY DEF Handled
  <2> QED BY <1>2, <2>1 DEF PassInv, HandledInv
<1> QED BY <1>3, <1>4, <1>5, <1>6 DEF PassInv

\* A pass that ends without completing.
LEMMA EndsEarly ==
  ASSUME NEW p \in Passes, pc'[p] \in {"exited", "mismatch"}
  PROVE  PassInv(p)'
BY DEF PassInv, LoopInv, KeyInv, CheckedInv, HandledInv, Before, AtHand

\* No pass begins in a step of another.
LEMMA StillNoStalePass ==
  ASSUME NoStalePass, Running' \subseteq Running, settled' = settled
  PROVE  NoStalePass'
BY DEF NoStalePass

\* A pass that moves from one position of its work was under way before.
LEMMA StillRunning ==
  ASSUME NEW p \in Passes, p \in Running, pc \in [Passes -> Positions],
         \A q \in Passes \ {p} : pc'[q] = pc[q]
  PROVE  Running' \subseteq Running
BY DEF Running

\* A loss makes what was settled unsettled; a start of a service loses nothing more.
LEMMA ServicesTrust ==
  ASSUME TypeOK, TrustInv, Services
  PROVE  TrustInv'
<1>1. CASE VaultStops \/ DropRegistrations
  <2>1. settled' = {}
    BY <1>1 DEF VaultStops, DropRegistrations
  <2>2. \A p \in Passes :
          \/ pc'[p] = pc[p] /\ todo'[p] = todo[p]
          \/ pc'[p] = "idle" /\ todo'[p] = Issuers
    BY <1>1 DEF VaultStops, DropRegistrations, TypeOK, PassTypeOK, pass
  <2> QED BY <2>1, <2>2 DEF TrustInv, NoStalePass, PassInv, LoopInv, KeyInv,
                            CheckedInv, HandledInv, Before
<1>2. CASE VaultStarts \/ NodeStops \/ NodeStarts
  <2>1. /\ pass' = pass /\ settled' = settled /\ unread' = unread
        /\ key' = key /\ registered' = registered
    BY <1>2 DEF VaultStarts, NodeStops, NodeStarts, history, vault, node
  <2>2. \A p \in Passes : PassInv(p)'
    BY <2>1, Unmoved DEF TrustInv, pass
  <2>3. NoStalePass'
    BY <2>1 DEF TrustInv, NoStalePass, Running, pass
  <2> QED BY <2>2, <2>3 DEF TrustInv
<1> QED BY <1>1, <1>2 DEF Services

\* A pass that begins has settled nothing.
LEMMA BeginTrust ==
  ASSUME TypeOK, TrustInv, NEW p \in Passes, Begin(p)
  PROVE  TrustInv'
<1>1. /\ pc' = [pc EXCEPT ![p] = "wait-vault"] /\ pc[p] = "idle"
      /\ UNCHANGED <<key, registered, todo, cur, jwk, unread>>
  BY DEF Begin, vault, node
<1>2. ASSUME NEW q \in Passes, q # p PROVE PassInv(q)'
  <2>1. q \in settled' => q \in settled
    BY <1>2 DEF Begin
  <2> QED BY <1>1, <1>2, <2>1, Unmoved DEF TrustInv, TypeOK, PassTypeOK
<1>3. PassInv(p)'
  BY <1>1 DEF TrustInv, PassInv, LoopInv, KeyInv, CheckedInv, HandledInv, Before,
              AtHand, TypeOK, PassTypeOK
<1>4. NoStalePass'
  <2>1. Running' \subseteq Running \cup {p}
    BY <1>1 DEF Running, TypeOK, PassTypeOK
  <2>2. CASE Running \subseteq settled
    BY <2>1, <2>2 DEF Begin, NoStalePass
  <2>3. CASE ~(Running \subseteq settled)
    BY <2>3 DEF Begin, NoStalePass, TrustInv
  <2> QED BY <2>2, <2>3
<1> QED BY <1>2, <1>3, <1>4 DEF TrustInv

\* What a pass does for one issuer, seen from the others: every registration is
\* of the key Vault holds, because no stale pass is left to make one.
LEMMA OtherPasses ==
  ASSUME TypeOK, TrustInv, NEW p \in Passes, PassNext(p), NEW q \in Passes, q # p
  PROVE  PassInv(q)'
<1> DEFINE Step ==
      \/ EnableTransit(p) \/ ReadKey(p) \/ CheckMatches(p) \/ CheckMismatch(p)
      \/ CheckUnread(p) \/ SignOwnProof(p) \/ RegisterAgain(p) \/ PassFails(p)
      \/ RequestLost(p)
<1> USE DEF TypeOK, PassTypeOK
<1>1. CASE WaitFor(p)
  <2>1. /\ pc'[q] = pc[q]
        /\ UNCHANGED <<todo, cur, jwk, settled, unread, key, registered>>
    BY <1>1 DEF WaitFor, Ready, NotReady, vault, node, history
  <2> QED BY <2>1, Unmoved DEF TrustInv
<1>2. CASE Step
  <2>1. pc'[q] = pc[q]
    BY <1>2 DEF EnableTransit, ReadKey, CheckMatches, CheckMismatch, CheckUnread,
                SignOwnProof, RegisterAgain, PassFails, RequestLost, Goto
  <2>2. /\ jwk'[q] = jwk[q] /\ unread \subseteq unread'
        /\ UNCHANGED <<todo, cur, settled, key, registered>>
    BY <1>2 DEF EnableTransit, ReadKey, CheckMatches, CheckMismatch, CheckUnread,
                SignOwnProof, RegisterAgain, PassFails, RequestLost, vault, node,
                history
  <2> QED BY <2>1, <2>2, Unmoved DEF TrustInv
<1>3. CASE CreateKey(p)
  <2>1. /\ pc'[q] = pc[q] /\ todo'[q] = todo[q] /\ cur'[q] = cur[q]
        /\ UNCHANGED <<jwk, settled, unread, registered>>
    BY <1>3 DEF CreateKey, Goto, node, history
  <2>2. \A i \in Issuers : key[i] # 0 => key'[i] = key[i]
    BY <1>3 DEF CreateKey, ServiceTypeOK
  <2> QED BY <2>1, <2>2, Unmoved DEF TrustInv
<1>4. CASE RegisterNew(p)
  <2>1. /\ pc'[q] = pc[q]
        /\ UNCHANGED <<todo, cur, jwk, settled, unread, key>>
    BY <1>4 DEF RegisterNew, Goto, vault, history
  <2>2. ASSUME q \in settled, NEW i \in Issuers
        PROVE  \/ registered'[i] = registered[i]
               \/ registered[i] = 0 /\ key[i] # 0 /\ registered'[i] = key[i]
    <3>1. p \in Running /\ pc[p] = "register"
      BY <1>4 DEF RegisterNew, Goto, Running, Over
    <3>2. p \in settled
      BY <2>2, <3>1 DEF TrustInv, NoStalePass
    <3>3. key[cur[p]] # 0 /\ jwk[p] = key[cur[p]]
      BY <3>1, <3>2 DEF TrustInv, PassInv, KeyInv, AtHand
    <3>4. registered[cur[p]] = 0 /\ registered' = [registered EXCEPT ![cur[p]] = jwk[p]]
      BY <1>4 DEF RegisterNew
    <3> QED BY <3>3, <3>4 DEF ServiceTypeOK
  <2> QED BY <2>1, <2>2, Unmoved DEF TrustInv
<1> QED BY <1>1, <1>2, <1>3, <1>4 DEF PassNext

\* The step of a pass itself.
LEMMA OwnStep ==
  ASSUME TypeOK, TrustInv, NEW p \in Passes, PassNext(p)
  PROVE  PassInv(p)'
<1> USE DEF TypeOK, PassTypeOK
<1>0. PassInv(p) /\ cur[p] \in Issuers
  BY DEF TrustInv
<1>1. CASE pc'[p] \in {"exited", "mismatch"}
  BY <1>1, EndsEarly
<1> SUFFICES ASSUME pc'[p] \notin {"exited", "mismatch"} PROVE PassInv(p)'
  BY <1>1
<1>2. CASE WaitFor(p)
  <2>1. pc[p] \in Before /\ pc'[p] \in Before /\ todo' = todo
    BY <1>2 DEF WaitFor, Ready, NotReady, Before
  <2> QED BY <1>0, <2>1 DEF PassInv, LoopInv, KeyInv, CheckedInv, HandledInv, Before,
                            AtHand
<1>3. CASE EnableTransit(p)
  <2>1. pc[p] = "transit" /\ pc'[p] = "next" /\ todo' = todo
    BY <1>3 DEF EnableTransit, Goto
  <2>2. Handled(p)' = {}
    BY <1>0, <2>1 DEF PassInv, LoopInv, Before, Handled
  <2> QED BY <2>1, <2>2 DEF PassInv, LoopInv, KeyInv, CheckedInv, HandledInv, Before,
                            AtHand
<1>4. CASE CreateKey(p)
  <2>1. /\ pc[p] = "next" /\ pc'[p] = "read-key"
        /\ UNCHANGED <<registered, settled, unread>>
    BY <1>4 DEF CreateKey, Goto, node, history
  <2>2. PICK i \in todo[p] :
          /\ cur' = [cur EXCEPT ![p] = i] /\ todo' = [todo EXCEPT ![p] = @ \ {i}]
          /\ key' = [key EXCEPT ![i] = IF @ = 0 THEN starts ELSE @]
    BY <1>4 DEF CreateKey
  <2>3. /\ i \in Issuers /\ cur'[p] = i /\ todo'[p] = todo[p] \ {i}
        /\ key'[i] # 0 /\ \A j \in Issuers : key[j] # 0 => key'[j] = key[j]
    BY <2>2 DEF ServiceTypeOK
  <2>4. Handled(p)' = Handled(p) /\ Handled(p) \subseteq Issuers
    BY <2>1, <2>2, <2>3 DEF Handled, AtHand
  <2>5. HandledInv(p)'
    BY <1>0, <2>1, <2>3, <2>4 DEF PassInv, HandledInv, Read
  <2> QED BY <2>1, <2>3, <2>5 DEF PassInv, LoopInv, KeyInv, CheckedInv, Before
<1>5. CASE ReadKey(p)
  <2>1. /\ pc[p] = "read-key" /\ pc'[p] = "check" /\ jwk'[p] = key[cur[p]]
        /\ UNCHANGED <<todo, cur, key, registered, settled, unread>>
    BY <1>5 DEF ReadKey, Goto, vault, node, history
  <2>2. Handled(p)' = Handled(p)
    BY <2>1 DEF Handled, AtHand
  <2>3. HandledInv(p)'
    BY <1>0, <2>1, <2>2 DEF PassInv, HandledInv, AtHand, Read
  <2> QED BY <1>0, <2>1, <2>3 DEF PassInv, LoopInv, KeyInv, CheckedInv, Before, AtHand
<1>6. CASE CheckMatches(p) \/ CheckUnread(p)
  <2>1. /\ pc[p] = "check" /\ pc'[p] = "sign"
        /\ UNCHANGED <<todo, cur, jwk, key, registered, settled>>
        /\ unread \subseteq unread'
    BY <1>6 DEF CheckMatches, CheckUnread, Goto, vault, node, history
  <2>2. Read(p, cur[p])' => registered[cur[p]] \in {0, jwk[p]}
    BY <1>6, <2>1 DEF CheckMatches, CheckUnread, Read
  <2>3. Handled(p)' = Handled(p)
    BY <2>1 DEF Handled, AtHand
  <2>4. HandledInv(p)'
    BY <1>0, <2>1, <2>3 DEF PassInv, HandledInv, AtHand, Read
  <2>5. KeyInv(p)' /\ LoopInv(p)'
    BY <1>0, <2>1 DEF PassInv, LoopInv, KeyInv, Before, AtHand
  <2>6. CheckedInv(p)'
    BY <1>0, <2>1, <2>2 DEF PassInv, KeyInv, CheckedInv, AtHand
  <2> QED BY <2>4, <2>5, <2>6 DEF PassInv
<1>7. CASE SignOwnProof(p)
  <2>1. /\ pc[p] = "sign" /\ pc'[p] = "register"
        /\ UNCHANGED <<todo, cur, jwk, key, registered, settled, unread>>
    BY <1>7 DEF SignOwnProof, Goto, vault, node, history
  <2>2. Handled(p)' = Handled(p)
    BY <2>1 DEF Handled, AtHand
  <2>3. HandledInv(p)'
    BY <1>0, <2>1, <2>2 DEF PassInv, HandledInv, AtHand, Read
  <2> QED BY <1>0, <2>1, <2>3 DEF PassInv, LoopInv, KeyInv, CheckedInv, Before, AtHand,
                                  Read
<1>8. CASE RegisterNew(p) \/ RegisterAgain(p)
  <2>1. /\ pc[p] = "register" /\ pc'[p] = AfterIssuer(p)
        /\ UNCHANGED <<todo, cur, jwk, key, settled, unread>>
    BY <1>8 DEF RegisterNew, RegisterAgain, Goto, vault, node, history
  <2>2. /\ pc'[p] \in {"next", "done"} /\ (pc'[p] = "done" => todo[p] = {})
    BY <2>1 DEF AfterIssuer
  <2>3. Handled(p)' \subseteq Handled(p) \cup {cur[p]} /\ Handled(p)' \subseteq Issuers
    BY <2>1 DEF Handled, AtHand
  <2>4. \A i \in Issuers \ {cur[p]} : registered'[i] = registered[i]
    BY <1>8 DEF RegisterNew, RegisterAgain, node, ServiceTypeOK
  <2>5. p \in settled /\ Read(p, cur[p]) =>
          key[cur[p]] # 0 /\ registered'[cur[p]] = key[cur[p]]
    <3>1. p \in settled => key[cur[p]] # 0 /\ jwk[p] = key[cur[p]]
      BY <1>0, <2>1 DEF PassInv, KeyInv, AtHand
    <3>2. CASE RegisterNew(p)
      <4>1. registered'[cur[p]] = jwk[p]
        BY <1>0, <3>2 DEF RegisterNew, ServiceTypeOK
      <4> QED BY <3>1, <4>1
    <3>3. CASE RegisterAgain(p)
      <4>1. registered'[cur[p]] = registered[cur[p]] /\ registered[cur[p]] # 0
        BY <3>3 DEF RegisterAgain, node
      <4> QED BY <1>0, <2>1, <3>1, <4>1 DEF PassInv, CheckedInv
    <3> QED BY <1>8, <3>2, <3>3
  <2>6. HandledInv(p)'
    <3>1. p \in settled => \A i \in Handled(p) : Read(p, i) => key[i] # 0 /\ registered[i] = key[i]
      BY <1>0, <2>1 DEF PassInv, HandledInv, AtHand
    <3>2. \A i : Read(p, i)' <=> Read(p, i)
      BY <2>1 DEF Read
    <3> QED BY <2>1, <2>3, <2>4, <2>5, <3>1, <3>2 DEF HandledInv
  <2> QED BY <2>1, <2>2, <2>6 DEF PassInv, LoopInv, KeyInv, CheckedInv, Before, AtHand
<1>9. CASE CheckMismatch(p) \/ PassFails(p) \/ RequestLost(p)
  BY <1>9 DEF CheckMismatch, PassFails, RequestLost, Goto
<1> QED BY <1>2, <1>3, <1>4, <1>5, <1>6, <1>7, <1>8, <1>9 DEF PassNext

\* Every step of a pass.
LEMMA PassTrust ==
  ASSUME TypeOK, TrustInv, NEW p \in Passes, PassNext(p)
  PROVE  TrustInv'
<1>1. \A q \in Passes : PassInv(q)'
  BY OtherPasses, OwnStep
<1>2. p \in Running
  BY DEF PassNext, WaitFor, Ready, NotReady, EnableTransit, CreateKey, ReadKey,
         CheckMatches, CheckMismatch, CheckUnread, SignOwnProof, RegisterNew,
         RegisterAgain, PassFails, RequestLost, Goto, Running, Over
<1>3. \A q \in Passes \ {p} : pc'[q] = pc[q]
  BY DEF PassNext, WaitFor, Ready, NotReady, EnableTransit, CreateKey, ReadKey,
         CheckMatches, CheckMismatch, CheckUnread, SignOwnProof, RegisterNew,
         RegisterAgain, PassFails, RequestLost, Goto, TypeOK, PassTypeOK
<1>4. settled' = settled
  BY DEF PassNext, WaitFor, Ready, NotReady, EnableTransit, CreateKey, ReadKey,
         CheckMatches, CheckMismatch, CheckUnread, SignOwnProof, RegisterNew,
         RegisterAgain, PassFails, RequestLost, history
<1>5. NoStalePass'
  BY <1>2, <1>3, <1>4, StillRunning, StillNoStalePass DEF TrustInv, TypeOK, PassTypeOK
<1> QED BY <1>1, <1>5 DEF TrustInv

\* A step that touches no pass, key or registration keeps the invariant.
LEMMA QuietTrust ==
  ASSUME TypeOK, TrustInv,
         UNCHANGED <<pc, todo, cur, jwk, settled, unread, key, registered>>
  PROVE  TrustInv'
BY Unmoved DEF TrustInv, NoStalePass, Running

\* The invariant is inductive.
LEMMA TrustStep == TypeOK /\ TrustInv /\ [Next]_vars => TrustInv'
<1> SUFFICES ASSUME TypeOK, TrustInv, [Next]_vars PROVE TrustInv'
  OBVIOUS
<1>1. CASE Services
  BY <1>1, ServicesTrust
<1>2. CASE \E p \in Passes : Begin(p) \/ PassNext(p)
  BY <1>2, BeginTrust, PassTrust
<1>3. CASE \E a \in Clients : AgentNext(a)
  <2>1. UNCHANGED <<pc, todo, cur, jwk, settled, unread, key, registered>>
    BY <1>3 DEF AgentNext, AgentStarts, AgentStops, NameKey, SignProof, Post, pass,
                vault, node, history
  <2> QED BY <2>1, QuietTrust
<1>4. CASE Rest \/ UNCHANGED vars
  BY <1>4, QuietTrust DEF Rest, vars, pass, vault, node, history
<1> QED BY <1>1, <1>2, <1>3, <1>4 DEF Next

\* The inductive invariant: what every pass has read, checked and registered so
\* far is what Vault and the node hold, and no pass is left that knew older keys.
THEOREM TrustInvariant == Spec => []TrustInv
<1>1. Init => TypeOK /\ TrustInv
  BY TypeInit, TrustInit
<1>2. TypeOK /\ TrustInv /\ [Next]_vars => TypeOK' /\ TrustInv'
  BY TypeStep, TrustStep
<1> QED BY <1>1, <1>2, PTL DEF Spec

\* A complete bootstrap leaves the key registered that Vault signs with.
THEOREM CompletedBootstrapIsTrusted == Spec => []BootstrapEstablishesTrust
<1>1. TypeOK /\ TrustInv => BootstrapEstablishesTrust
  <2> SUFFICES ASSUME TypeOK, TrustInv, NEW p \in settled, pc[p] = "done",
                      NEW i \in Issuers, Read(p, i)
               PROVE  key[i] # 0 /\ registered[i] = key[i]
    BY DEF BootstrapEstablishesTrust
  <2>0. p \in Passes
    BY DEF TypeOK, HistoryTypeOK
  <2>1. i \in Handled(p)
    BY <2>0 DEF TrustInv, PassInv, LoopInv, Handled, AtHand
  <2> QED BY <2>0, <2>1 DEF TrustInv, PassInv, HandledInv
<1> QED BY <1>1, TypeCorrect, TrustInvariant, PTL

-----------------------------------------------------------------------------
(* What an agent can rely on from then on                                  *)

\* A process that is down has nothing cached; one that was started after a sound
\* bootstrap has cached, named and signed with the key that is registered.
SoundInv(a) ==
  /\ apc[a] = "down" => cached[a] = 0
  /\ a \in sound =>
       /\ key[IssuerOf[a]] # 0 /\ registered[IssuerOf[a]] = key[IssuerOf[a]]
       /\ cached[a] \in {0, key[IssuerOf[a]]}
       /\ apc[a] \in {"named", "signed"} => cached[a] = key[IssuerOf[a]]
       /\ apc[a] = "signed" => signer[a] = key[IssuerOf[a]]

AgentsInv == \A a \in Clients : SoundInv(a)

\* No agent has cached a key at the start.
LEMMA AgentsInit == Init => AgentsInv
BY DEF Init, AgentsInv, SoundInv

\* An agent that does not move keeps its invariant while its key and the
\* registration of it stay.
LEMMA AgentAtRest ==
  ASSUME NEW a \in Clients, SoundInv(a),
         apc'[a] = apc[a], cached'[a] = cached[a], signer'[a] = signer[a],
         a \in sound' => a \in sound,
         a \in sound' => /\ key'[IssuerOf[a]] = key[IssuerOf[a]]
                         /\ registered'[IssuerOf[a]] = registered[IssuerOf[a]]
  PROVE  SoundInv(a)'
BY DEF SoundInv

\* No step of a pass changes a key that exists or a registration that was made.
LEMMA PassKeepsKeys ==
  ASSUME TypeOK, NEW p \in Passes, PassNext(p), NEW i \in Issuers,
         key[i] # 0, registered[i] = key[i]
  PROVE  key'[i] = key[i] /\ registered'[i] = registered[i]
<1>1. key'[i] = key[i]
  <2>1. CASE CreateKey(p)
    BY <2>1 DEF CreateKey, TypeOK, ServiceTypeOK
  <2>2. CASE key' = key
    BY <2>2
  <2>3. CreateKey(p) \/ key' = key
    BY DEF PassNext, WaitFor, Ready, NotReady, EnableTransit, ReadKey, CheckMatches,
           CheckMismatch, CheckUnread, SignOwnProof, RegisterNew, RegisterAgain,
           PassFails, RequestLost, vault
  <2> QED BY <2>1, <2>2, <2>3
<1>2. registered'[i] = registered[i]
  <2>1. CASE RegisterNew(p)
    BY <2>1 DEF RegisterNew, TypeOK, ServiceTypeOK
  <2>2. RegisterNew(p) \/ registered' = registered
    BY DEF PassNext, WaitFor, Ready, NotReady, EnableTransit, CreateKey, ReadKey,
           CheckMatches, CheckMismatch, CheckUnread, SignOwnProof, RegisterAgain,
           PassFails, RequestLost, node
  <2> QED BY <2>1, <2>2
<1> QED BY <1>1, <1>2

\* The steps of the agent itself.
LEMMA OwnAgentStep ==
  ASSUME TypeOK, BootstrapEstablishesTrust, NEW a \in Clients, SoundInv(a), AgentNext(a)
  PROVE  SoundInv(a)'
<1> USE DEF TypeOK, AgentTypeOK
<1>1. IssuerOf[a] \in Issuers
  BY TrustAssumption
<1>2. key' = key /\ registered' = registered
  BY DEF AgentNext, AgentStarts, AgentStops, NameKey, SignProof, Post, vault, node
<1>3. CASE AgentStarts(a)
  <2>1. /\ apc[a] = "down" /\ apc'[a] = "idle" /\ cached' = cached
        /\ a \in sound' => a \in sound \/ \E p \in settled : Establishes(p)
    BY <1>3 DEF AgentStarts
  <2>2. (\E p \in settled : Establishes(p)) =>
          key[IssuerOf[a]] # 0 /\ registered[IssuerOf[a]] = key[IssuerOf[a]]
    BY <1>1 DEF Establishes, BootstrapEstablishesTrust
  <2> QED BY <1>2, <2>1, <2>2 DEF SoundInv
<1>4. CASE AgentStops(a)
  <2>1. apc'[a] = "down" /\ cached'[a] = 0 /\ a \notin sound'
    BY <1>4 DEF AgentStops
  <2> QED BY <2>1 DEF SoundInv
<1>5. CASE NameKey(a)
  <2>1. /\ apc'[a] = "named" /\ sound' = sound
        /\ cached'[a] = IF cached[a] # 0 THEN cached[a] ELSE key[IssuerOf[a]]
    BY <1>5 DEF NameKey, history
  <2> QED BY <1>2, <2>1 DEF SoundInv
<1>6. CASE SignProof(a)
  <2>1. /\ apc[a] = "named" /\ sound' = sound /\ cached' = cached
        /\ \/ apc'[a] = "signed" /\ signer'[a] = key[IssuerOf[a]]
           \/ apc'[a] = "idle"
    BY <1>6 DEF SignProof, history
  <2> QED BY <1>2, <2>1 DEF SoundInv
<1>7. CASE Post(a)
  <2>1. apc[a] = "signed" /\ apc'[a] = "idle" /\ sound' = sound /\ cached' = cached
    BY <1>7 DEF Post, history
  <2> QED BY <1>2, <2>1 DEF SoundInv
<1> QED BY <1>3, <1>4, <1>5, <1>6, <1>7 DEF AgentNext

\* What an agent has cached and signed with since its proofs were sound stays the key
\* that is registered.
LEMMA AgentsStep ==
  TypeOK /\ BootstrapEstablishesTrust /\ AgentsInv /\ [Next]_vars => AgentsInv'
<1> SUFFICES ASSUME TypeOK, BootstrapEstablishesTrust, AgentsInv, [Next]_vars,
                    NEW a \in Clients
             PROVE  SoundInv(a)'
  BY DEF AgentsInv
<1>1. SoundInv(a) /\ IssuerOf[a] \in Issuers
  BY TrustAssumption DEF AgentsInv
<1>2. CASE Services
  <2>1. agent' = agent /\ (a \in sound' => a \in sound)
    BY <1>2 DEF Services, VaultStops, VaultStarts, NodeStops, DropRegistrations,
                NodeStarts, history
  <2>2. a \in sound' => key' = key /\ registered' = registered
    BY <1>2 DEF Services, VaultStops, VaultStarts, NodeStops, DropRegistrations,
                NodeStarts, vault, node
  <2> QED BY <1>1, <2>1, <2>2, AgentAtRest DEF agent
<1>3. CASE \E p \in Passes : Begin(p) \/ PassNext(p)
  <2>1. PICK p \in Passes : Begin(p) \/ PassNext(p)
    BY <1>3
  <2>2. agent' = agent /\ sound' = sound
    BY <2>1 DEF Begin, PassNext, WaitFor, Ready, NotReady, EnableTransit, CreateKey,
                ReadKey, CheckMatches, CheckMismatch, CheckUnread, SignOwnProof,
                RegisterNew, RegisterAgain, PassFails, RequestLost, history
  <2>3. a \in sound => /\ key'[IssuerOf[a]] = key[IssuerOf[a]]
                       /\ registered'[IssuerOf[a]] = registered[IssuerOf[a]]
    <3>1. CASE Begin(p)
      BY <3>1 DEF Begin, vault, node
    <3>2. CASE PassNext(p)
      BY <1>1, <3>2, PassKeepsKeys DEF SoundInv
    <3> QED BY <2>1, <3>1, <3>2
  <2> QED BY <1>1, <2>2, <2>3, AgentAtRest DEF agent
<1>4. CASE \E b \in Clients : AgentNext(b)
  <2>1. PICK b \in Clients : AgentNext(b)
    BY <1>4
  <2>2. CASE b = a
    BY <1>1, <2>1, <2>2, OwnAgentStep
  <2>3. CASE b # a
    <3>1. /\ apc'[a] = apc[a] /\ cached'[a] = cached[a] /\ signer'[a] = signer[a]
          /\ (a \in sound' => a \in sound) /\ key' = key /\ registered' = registered
      BY <2>1, <2>3 DEF AgentNext, AgentStarts, AgentStops, NameKey, SignProof, Post,
                        history, vault, node, TypeOK, AgentTypeOK
    <3> QED BY <1>1, <3>1, AgentAtRest
  <2> QED BY <2>2, <2>3
<1>5. CASE Rest \/ UNCHANGED vars
  <2>1. UNCHANGED <<apc, cached, signer, sound, key, registered>>
    BY <1>5 DEF Rest, vars, agent, history, vault, node
  <2> QED BY <1>1, <2>1, AgentAtRest
<1> QED BY <1>2, <1>3, <1>4, <1>5 DEF Next

\* Every proof of an agent that was started after a sound bootstrap is accepted
\* and names its signer, until Vault or the registrations are lost.
THEOREM ProofsHold == Spec => []ProofsHoldUntilLoss
<1>1. Init => AgentsInv
  BY AgentsInit
<1>2. TypeOK /\ BootstrapEstablishesTrust /\ AgentsInv /\ [Next]_vars => AgentsInv'
  BY AgentsStep
<1>3. TypeOK /\ AgentsInv => ProofsHoldUntilLoss
  <2> SUFFICES ASSUME TypeOK, AgentsInv, NEW a \in sound, apc[a] = "signed"
               PROVE  Answer(a) = "accepted" /\ cached[a] = signer[a]
    BY DEF ProofsHoldUntilLoss
  <2>1. a \in Clients
    BY DEF TypeOK, HistoryTypeOK
  <2> QED BY <2>1 DEF AgentsInv, SoundInv, Answer
<1> QED BY <1>1, <1>2, <1>3, TypeCorrect, CompletedBootstrapIsTrusted, PTL DEF Spec
=============================================================================
