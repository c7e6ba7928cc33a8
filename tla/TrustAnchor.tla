----------------------------- MODULE TrustAnchor -----------------------------
(***************************************************************************)
(* The trust authorities of the two organisations: Vault keeps each        *)
(* issuer's signing key in memory, the Identity Node keeps the registered  *)
(* public half on a volume, and identity-node-init.py makes the two agree. *)
(* It may be run again at any time; the agents start after it completed    *)
(* and sign a proof JWT for each of their calls (vault.py, cimd.py).       *)
(*                                                                         *)
(* Vault loses its keys whenever it stops, so a key is named by the number *)
(* of the start of Vault it was created after; 0 is no key.  A request     *)
(* that fails, or whose answer is lost, is an uncaught exception of the    *)
(* bootstrap and ends it.                                                  *)
(***************************************************************************)
EXTENDS Naturals

CONSTANTS
  Issuers,    \* ISSUERS: the trust authorities to register
  Passes,     \* runs of the bootstrap container
  Clients,    \* agent processes
  IssuerOf,   \* the trust authority each agent signs for
  MaxTries,   \* MAX_TRIES of wait_for
  MaxStarts,  \* bound: how often Vault starts
  MaxFaults   \* bound: other failures, and agents that are restarted

ASSUME TrustAssumption ==
  /\ Issuers # {} /\ IssuerOf \in [Clients -> Issuers]
  /\ MaxTries \in Nat \ {0} /\ MaxStarts \in Nat \ {0} /\ MaxFaults \in Nat

VARIABLES
  vaultUp, starts, mounted, key,  \* Vault: running, starts so far, transit, keys
  nodeUp, registered,             \* Identity Node: running, registered keys
  pc, tries, todo, cur,           \* bootstrap: position, attempts, issuers left,
  jwk, ownSigner,                 \*   the one at hand, its key, who signed its proof
  apc, cached, signer,            \* agent: position, _jwk_cache, what it signed with
  unread,    \* history: checks that could not read the published key
  settled,   \* history: passes with no stop of Vault and no drop since they began
  sound,     \* history: agents started after such a pass completed, and since then
  faults

vault   == <<vaultUp, starts, mounted, key>>
node    == <<nodeUp, registered>>
pass    == <<pc, tries, todo, cur, jwk, ownSigner>>
agent   == <<apc, cached, signer>>
history == <<unread, settled, sound>>
vars    == <<vault, node, pass, agent, history, faults>>

Fault == faults < MaxFaults /\ faults' = faults + 1

\* A step that goes well, or one whose answer is lost: the pass ends on it.
Goto(p, from, to) ==
  /\ pc[p] = from
  /\ \/ pc' = [pc EXCEPT ![p] = to] /\ UNCHANGED faults
     \/ pc' = [pc EXCEPT ![p] = "exited"] /\ Fault

Over    == {"done", "exited", "mismatch"}
Running == {p \in Passes : pc[p] \notin Over \cup {"idle"}}

Init ==
  /\ vaultUp = TRUE /\ starts = 1 /\ mounted = FALSE
  /\ nodeUp = TRUE
  /\ key = [i \in Issuers |-> 0] /\ registered = [i \in Issuers |-> 0]
  /\ pc = [p \in Passes |-> "idle"] /\ tries = [p \in Passes |-> 0]
  /\ todo = [p \in Passes |-> Issuers]
  /\ cur = [p \in Passes |-> CHOOSE i \in Issuers : TRUE]
  /\ jwk = [p \in Passes |-> 0] /\ ownSigner = [p \in Passes |-> 0]
  /\ apc = [a \in Clients |-> "down"]
  /\ cached = [a \in Clients |-> 0] /\ signer = [a \in Clients |-> 0]
  /\ unread = {} /\ settled = {} /\ sound = {}
  /\ faults = 0

-----------------------------------------------------------------------------
(* The services and their operator                                         *)

\* Dev mode: the transit mount and its keys are in memory.
VaultStops ==
  /\ vaultUp /\ starts < MaxStarts
  /\ vaultUp' = FALSE /\ mounted' = FALSE
  /\ key' = [i \in Issuers |-> 0]
  /\ settled' = {} /\ sound' = {}
  /\ UNCHANGED <<starts, node, pass, agent, unread, faults>>

VaultStarts ==
  /\ ~vaultUp
  /\ vaultUp' = TRUE /\ starts' = starts + 1
  /\ UNCHANGED <<mounted, key, node, pass, agent, history, faults>>

\* The node stops with its database on the volume ...
NodeStops ==
  /\ nodeUp /\ Fault
  /\ nodeUp' = FALSE
  /\ UNCHANGED <<vault, registered, pass, agent, history>>

\* ... and the remedy the mismatch prints removes the volume as well, and runs the
\* bootstrap again.
DropRegistrations ==
  LET again == {p \in Passes : pc[p] = "mismatch"} IN
  /\ again # {}
  /\ nodeUp' = FALSE
  /\ registered' = [i \in Issuers |-> 0]
  /\ pc' = [p \in Passes |-> IF p \in again THEN "idle" ELSE pc[p]]
  /\ todo' = [p \in Passes |-> IF p \in again THEN Issuers ELSE todo[p]]
  /\ unread' = {u \in unread : u.pass \notin again}
  /\ settled' = {} /\ sound' = {}
  /\ UNCHANGED <<vault, tries, cur, jwk, ownSigner, agent, faults>>

NodeStarts ==
  /\ ~nodeUp
  /\ nodeUp' = TRUE
  /\ UNCHANGED <<vault, registered, pass, agent, history, faults>>

-----------------------------------------------------------------------------
(* identity-node-init.py                                                   *)

\* The container is started once both services are healthy.
Begin(p) ==
  /\ vaultUp /\ nodeUp
  /\ pc[p] = "idle"
  /\ pc' = [pc EXCEPT ![p] = "wait-vault"]
  /\ settled' = IF Running \subseteq settled THEN settled \cup {p} ELSE settled
  /\ UNCHANGED <<vault, node, tries, todo, cur, jwk, ownSigner, agent, unread, sound, faults>>

\* wait_for: a probe answered ...
Ready(p, up, from, to) ==
  /\ pc[p] = from /\ up
  /\ pc' = [pc EXCEPT ![p] = to]
  /\ tries' = [tries EXCEPT ![p] = 0]
  /\ UNCHANGED <<vault, node, todo, cur, jwk, ownSigner, agent, history, faults>>

\* Mutant: an attempt that ends in an exception is not counted.
NotReadyUncounted(p, up, from) ==
  /\ pc[p] = from /\ ~up
  /\ UNCHANGED vars

\* Mutant: one attempt too many is made.
NotReadyOnceMore(p, up, from) ==
  /\ pc[p] = from
  /\ IF up THEN Fault ELSE UNCHANGED faults
  /\ tries' = [tries EXCEPT ![p] = @ + 1]
  /\ pc' = IF tries[p] < MaxTries THEN pc ELSE [pc EXCEPT ![p] = "exited"]
  /\ UNCHANGED <<vault, node, todo, cur, jwk, ownSigner, agent, history>>

\* ... or not, and after MAX_TRIES attempts the pass gives up.
NotReady(p, up, from) ==
  /\ pc[p] = from
  /\ IF up THEN Fault ELSE UNCHANGED faults
  /\ tries' = [tries EXCEPT ![p] = @ + 1]
  /\ pc' = IF tries[p] + 1 < MaxTries THEN pc ELSE [pc EXCEPT ![p] = "exited"]
  /\ UNCHANGED <<vault, node, todo, cur, jwk, ownSigner, agent, history>>

WaitFor(p) ==
  \/ Ready(p, vaultUp, "wait-vault", "wait-node")
  \/ NotReady(p, vaultUp, "wait-vault")
  \/ Ready(p, nodeUp, "wait-node", "transit")
  \/ NotReady(p, nodeUp, "wait-node")

\* enable_transit: "already in use" counts as success.
EnableTransit(p) ==
  /\ vaultUp
  /\ Goto(p, "transit", "next")
  /\ mounted' = TRUE
  /\ UNCHANGED <<vaultUp, starts, key, node, tries, todo, cur, jwk, ownSigner, agent, history>>

\* The loop's next issuer, and create_signing_key: a key that exists stays.
CreateKey(p) ==
  /\ vaultUp /\ mounted
  /\ \E i \in todo[p] :
       /\ cur' = [cur EXCEPT ![p] = i] /\ todo' = [todo EXCEPT ![p] = @ \ {i}]
       /\ key' = [key EXCEPT ![i] = IF @ = 0 THEN starts ELSE @]
  /\ Goto(p, "next", "read-key")
  /\ UNCHANGED <<vaultUp, starts, mounted, node, tries, jwk, ownSigner, agent, history>>

\* get_public_jwk.
ReadKey(p) ==
  /\ vaultUp /\ key[cur[p]] # 0
  /\ Goto(p, "read-key", "check")
  /\ jwk' = [jwk EXCEPT ![p] = key[cur[p]]]
  /\ UNCHANGED <<vault, node, tries, todo, cur, ownSigner, agent, history>>

\* Mutant: whatever is registered passes the check.
CheckMatchesAny(p) ==
  /\ nodeUp
  /\ Goto(p, "check", "sign")
  /\ UNCHANGED <<vault, node, tries, todo, cur, jwk, ownSigner, agent, history>>

\* assert_key_matches_registration: nothing is registered, or the same key ...
CheckMatches(p) ==
  /\ nodeUp
  /\ registered[cur[p]] \in {0, jwk[p]}
  /\ Goto(p, "check", "sign")
  /\ UNCHANGED <<vault, node, tries, todo, cur, jwk, ownSigner, agent, history>>

\* ... or another one, and the pass ends with the remedy ...
CheckMismatch(p) ==
  /\ nodeUp
  /\ registered[cur[p]] \notin {0, jwk[p]}
  /\ Goto(p, "check", "mismatch")
  /\ UNCHANGED <<vault, node, tries, todo, cur, jwk, ownSigner, agent, history>>

\* ... or the answer is not a 200 with keys in it, which is taken for neither.
CheckUnread(p) ==
  /\ nodeUp /\ Fault
  /\ pc[p] = "check"
  /\ pc' = [pc EXCEPT ![p] = "sign"]
  /\ unread' = unread \cup {[pass |-> p, issuer |-> cur[p]]}
  /\ UNCHANGED <<vault, node, tries, todo, cur, jwk, ownSigner, agent,
                 settled, sound>>

\* vault_sign_rs256 for the issuer's own proof, with the key Vault holds now.
SignOwnProof(p) ==
  /\ vaultUp /\ key[cur[p]] # 0
  /\ Goto(p, "sign", "register")
  /\ ownSigner' = [ownSigner EXCEPT ![p] = key[cur[p]]]
  /\ UNCHANGED <<vault, node, tries, todo, cur, jwk, agent, history>>

AfterIssuer(p) == IF todo[p] = {} THEN "done" ELSE "next"

\* register_issuer: the node verifies the proof with the key submitted and takes
\* that key ...
RegisterNew(p) ==
  /\ nodeUp
  /\ registered[cur[p]] = 0 /\ ownSigner[p] = jwk[p]
  /\ Goto(p, "register", AfterIssuer(p))
  /\ registered' = [registered EXCEPT ![cur[p]] = jwk[p]]
  /\ UNCHANGED <<vault, nodeUp, tries, todo, cur, jwk, ownSigner, agent, history>>

\* Mutant: an issuer that is registered already is an error.
RegisterAgainFails(p) ==
  /\ nodeUp
  /\ registered[cur[p]] # 0
  /\ Goto(p, "register", "exited")
  /\ UNCHANGED <<vault, node, tries, todo, cur, jwk, ownSigner, agent, history>>

\* ... or says that the issuer exists, which counts as success.
RegisterAgain(p) ==
  /\ nodeUp
  /\ registered[cur[p]] # 0
  /\ Goto(p, "register", AfterIssuer(p))
  /\ UNCHANGED <<vault, node, tries, todo, cur, jwk, ownSigner, agent, history>>

\* Everything else ends the pass: nobody answers, the mount or the key is gone,
\* the proof does not verify, the call fails.
PassFails(p) ==
  /\ \/ pc[p] = "transit" /\ ~vaultUp
     \/ pc[p] = "next" /\ ~(vaultUp /\ mounted)
     \/ pc[p] \in {"read-key", "sign"} /\ ~(vaultUp /\ key[cur[p]] # 0)
     \/ pc[p] \in {"check", "register"} /\ ~nodeUp
     \/ pc[p] = "register" /\ ownSigner[p] # jwk[p]
  /\ pc' = [pc EXCEPT ![p] = "exited"]
  /\ UNCHANGED <<vault, node, tries, todo, cur, jwk, ownSigner, agent, history, faults>>

\* A request that never arrives.
RequestLost(p) ==
  /\ pc[p] \in {"transit", "next", "read-key", "check", "sign", "register"}
  /\ Fault
  /\ pc' = [pc EXCEPT ![p] = "exited"]
  /\ UNCHANGED <<vault, node, tries, todo, cur, jwk, ownSigner, agent, history>>

PassNext(p) ==
  \/ WaitFor(p) \/ EnableTransit(p) \/ CreateKey(p) \/ ReadKey(p)
  \/ CheckMatches(p) \/ CheckMismatch(p) \/ CheckUnread(p)
  \/ SignOwnProof(p) \/ RegisterNew(p) \/ RegisterAgain(p)
  \/ PassFails(p) \/ RequestLost(p)

-----------------------------------------------------------------------------
(* The agents' calls (generate_id, publish_badge): build_proof_jwt and post *)

\* The pass p could read what was published for the issuer i.
Read(p, i) == [pass |-> p, issuer |-> i] \notin unread

\* A pass that completed, and could check every issuer's key.
Establishes(p) == pc[p] = "done" /\ \A i \in Issuers : Read(p, i)

\* service_completed_successfully: an agent is started after a complete pass.
AgentStarts(a) ==
  /\ apc[a] = "down"
  /\ vaultUp /\ nodeUp /\ \E p \in Passes : pc[p] = "done"
  /\ apc' = [apc EXCEPT ![a] = "idle"]
  /\ sound' = IF \E p \in settled : Establishes(p) THEN sound \cup {a} ELSE sound
  /\ UNCHANGED <<vault, node, pass, cached, signer, unread, settled,
                 faults>>

\* Mutant: _jwk_cache outlives the process.
AgentStopsWithCache(a) ==
  /\ apc[a] # "down" /\ Fault
  /\ apc' = [apc EXCEPT ![a] = "down"]
  /\ signer' = [signer EXCEPT ![a] = 0]
  /\ sound' = sound \ {a}
  /\ UNCHANGED <<vault, node, pass, cached, unread, settled>>

AgentStops(a) ==
  /\ apc[a] # "down" /\ Fault
  /\ apc' = [apc EXCEPT ![a] = "down"]
  /\ cached' = [cached EXCEPT ![a] = 0]
  /\ signer' = [signer EXCEPT ![a] = 0]
  /\ sound' = sound \ {a}
  /\ UNCHANGED <<vault, node, pass, unread, settled>>

\* get_issuer_jwk: from the cache, or from Vault and into the cache; a failure
\* is raised to the caller and leaves nothing behind.
NameKey(a) ==
  /\ apc[a] = "idle"
  /\ cached[a] # 0 \/ (vaultUp /\ key[IssuerOf[a]] # 0)
  /\ cached' = [cached EXCEPT ![a] = IF @ # 0 THEN @ ELSE key[IssuerOf[a]]]
  /\ apc' = [apc EXCEPT ![a] = "named"]
  /\ UNCHANGED <<vault, node, pass, signer, history, faults>>

\* vault_sign_rs256, with the key Vault holds now; without one the call fails.
SignProof(a) ==
  /\ apc[a] = "named"
  /\ IF vaultUp /\ key[IssuerOf[a]] # 0
       THEN /\ apc' = [apc EXCEPT ![a] = "signed"]
            /\ signer' = [signer EXCEPT ![a] = key[IssuerOf[a]]]
       ELSE apc' = [apc EXCEPT ![a] = "idle"] /\ UNCHANGED signer
  /\ UNCHANGED <<vault, node, pass, cached, history, faults>>

\* The node verifies the proof with the issuer's registered key.
Answer(a) ==
  LET reg == registered[IssuerOf[a]] IN
  IF reg = 0 THEN "unknown issuer"
  ELSE IF reg = signer[a] THEN "accepted" ELSE "invalid proof"

Post(a) ==
  /\ apc[a] = "signed"
  /\ apc' = [apc EXCEPT ![a] = "idle"]
  /\ signer' = [signer EXCEPT ![a] = 0]
  /\ UNCHANGED <<vault, node, pass, cached, history, faults>>

AgentNext(a) ==
  AgentStarts(a) \/ AgentStops(a) \/ NameKey(a) \/ SignProof(a) \/ Post(a)
-----------------------------------------------------------------------------
\* Every pass is over and no agent is in the middle of a call.
Rest ==
  /\ \A p \in Passes : pc[p] \in Over
  /\ \A a \in Clients : apc[a] \in {"down", "idle"}
  /\ UNCHANGED vars

Services ==
  VaultStops \/ VaultStarts \/ NodeStops \/ DropRegistrations \/ NodeStarts

Next ==
  \/ Services
  \/ \E p \in Passes : Begin(p) \/ PassNext(p)
  \/ \E a \in Clients : AgentNext(a)
  \/ Rest

Spec == Init /\ [][Next]_vars

\* Every request of a pass has a timeout and every wait a bound, so a pass that
\* was begun keeps moving; no service has to come back and nobody to begin one.
FairSpec == Spec /\ \A p \in Passes : WF_vars(PassNext(p))

-----------------------------------------------------------------------------
Keys == 0..MaxStarts

Positions ==
  {"idle", "wait-vault", "wait-node", "transit", "next", "read-key", "check",
   "sign", "register"} \cup Over

ServiceTypeOK ==
  /\ vaultUp \in BOOLEAN /\ mounted \in BOOLEAN /\ nodeUp \in BOOLEAN
  /\ starts \in 1..MaxStarts /\ (~vaultUp => starts < MaxStarts)
  /\ key \in [Issuers -> Keys] /\ registered \in [Issuers -> Keys]

PassTypeOK ==
  /\ pc \in [Passes -> Positions] /\ tries \in [Passes -> 0..MaxTries]
  /\ \A p \in Passes : tries[p] < MaxTries \/ pc[p] = "exited"
  /\ todo \in [Passes -> SUBSET Issuers] /\ cur \in [Passes -> Issuers]
  /\ jwk \in [Passes -> Keys] /\ ownSigner \in [Passes -> Keys]

AgentTypeOK ==
  /\ apc \in [Clients -> {"down", "idle", "named", "signed"}]
  /\ cached \in [Clients -> Keys] /\ signer \in [Clients -> Keys]

HistoryTypeOK ==
  /\ unread \subseteq [pass : Passes, issuer : Issuers]
  /\ settled \subseteq Passes /\ sound \subseteq Clients

\* The types of the services, the passes, the agents and the histories.
TypeOK ==
  /\ ServiceTypeOK /\ PassTypeOK /\ AgentTypeOK /\ HistoryTypeOK
  /\ faults \in 0..MaxFaults

\* A bootstrap that completes leaves, for every issuer whose published key it
\* could read, the key registered that Vault signs with, as long as Vault and
\* the registrations last: whatever restarts, lost answers and failed passes
\* came before, and whatever other pass runs beside it.
BootstrapEstablishesTrust ==
  \A p \in settled : pc[p] = "done" =>
    \A i \in Issuers : Read(p, i) => key[i] # 0 /\ registered[i] = key[i]

\* A pass ends, completed or not, also when a service it waits for never comes.
BootstrapEnds ==
  \A p \in Passes : pc[p] = "wait-vault" ~> pc[p] \in Over

\* An agent started after such a bootstrap is heard for as long as Vault and the
\* registrations last: every proof it posts names the key it is signed with and is
\* accepted, whatever its process cached and whichever agents died before it.
ProofsHoldUntilLoss ==
  \A a \in sound : apc[a] = "signed" =>
    Answer(a) = "accepted" /\ cached[a] = signer[a]

\* The bootstrap is idempotent: as long as nothing fails or restarts every pass
\* completes, a second one and two at a time as well.
BootstrapIsRepeatable ==
  \A p \in Passes :
    pc[p] = "wait-vault" ~> pc[p] = "done" \/ faults > 0 \/ starts > 1 \/ ~vaultUp

\* What register_issuer says when it skips: the same key is registered.
SkippedMeansSameKey ==
  [][\A p \in Passes :
       /\ pc[p] = "register" /\ pc'[p] \in {"next", "done"}
       /\ registered[cur[p]] # 0
       => registered[cur[p]] = jwk[p]]_vars
=============================================================================
