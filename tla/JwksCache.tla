----------------------------- MODULE JwksCache -----------------------------
(***************************************************************************)
(* The credential JWKS Keycloak A keeps (BadgeAttestation.java): request   *)
(* threads share three volatile statics, written one after the other and   *)
(* read one by one, without a lock.  Only the client opencode-agent has a  *)
(* JWKS URL, so cachedUrl is either empty or that URL.                     *)
(*                                                                         *)
(* The issuer publishes one key under one kid.  A key set is the record of *)
(* that pair and of when it was fetched (a history field).  A tick is long *)
(* compared with a request, whose calls time out after 5 s; TTL is 300 s.  *)
(***************************************************************************)
EXTENDS Integers

CONSTANTS
  Threads,  \* request threads of Keycloak A
  Kids,     \* kids the issuer uses
  MaxKey,   \* bound on the keys the issuer goes through
  TTL,      \* JWKS_TTL, in ticks
  MaxClock  \* bound of the clock

ASSUME JwksAssumption ==
  MaxKey \in Nat \ {0} /\ TTL \in Nat \ {0} /\ MaxClock \in Nat

Keys == 1..MaxKey
NoSet == [kid |-> "none", key |-> 0, fetched |-> 0]  \* Map.of()
Epoch == 0 - TTL                                     \* Instant.EPOCH

VARIABLES
  published,   \* kid and key the issuer publishes
  rotated,     \* when it last changed them
  cachedKeys, cachedUrl, cachedAt,
  clock,
  pc,          \* each thread's position in resolveKey
  badge,       \* kid and key the badge it verifies was signed with
  keys,        \* its local variable of that name
  fresh,       \* and this one
  outcome,     \* how its last verification ended
  overlapped   \* history: two requests have been in resolveKey at once

issuer == <<published, rotated>>
cache  == <<cachedKeys, cachedUrl, cachedAt>>
locals == <<badge, keys, fresh>>
vars   == <<issuer, cache, clock, pc, locals, outcome, overlapped>>

Outcomes == {"none", "verified", "bad-signature", "unknown-kid", "fetch-failed"}

Init ==
  /\ published \in [kid : Kids, key : {1}]
  /\ rotated = 0
  /\ cachedKeys = NoSet /\ cachedUrl = "" /\ cachedAt = Epoch
  /\ clock = 0
  /\ pc = [t \in Threads |-> "idle"]
  /\ badge = [t \in Threads |-> published]
  /\ keys = [t \in Threads |-> NoSet]
  /\ fresh = [t \in Threads |-> FALSE]
  /\ outcome = [t \in Threads |-> "none"]
  /\ overlapped = FALSE

Goto(t, from, to) == pc[t] = from /\ pc' = [pc EXCEPT ![t] = to]

-----------------------------------------------------------------------------
\* A mint request comes in with a badge signed with the current key, or with
\* the one before it; keys = cachedKeys.
Begin(t, signedWith) ==
  /\ Goto(t, "idle", "stamp")
  /\ badge' = [badge EXCEPT ![t] = signedWith]
  /\ keys' = [keys EXCEPT ![t] = cachedKeys]
  /\ outcome' = [outcome EXCEPT ![t] = "none"]
  /\ overlapped' = (overlapped \/ \E u \in Threads : pc[u] # "idle")
  /\ UNCHANGED <<issuer, cache, clock, fresh>>

\* fresh = jwksUrl.equals(cachedUrl) && now.isBefore(cachedAt.plus(JWKS_TTL))
ReadStamp(t) ==
  /\ Goto(t, "stamp", "decide")
  /\ fresh' = [fresh EXCEPT ![t] = cachedUrl # "" /\ clock < cachedAt + TTL]
  /\ UNCHANGED <<issuer, cache, clock, badge, keys, outcome, overlapped>>

\* Mutant: a kid that is not cached is not looked up at the issuer.
NeedsFetchWhenStale(t) == ~fresh[t]

\* Mutant: a key set is fetched only for a kid that is not cached.
NeedsFetchForNewKid(t) == badge[t].kid # keys[t].kid

NeedsFetch(t) == ~fresh[t] \/ badge[t].kid # keys[t].kid

Fetch(t) ==
  /\ NeedsFetch(t)
  /\ Goto(t, "decide", "store")
  /\ keys' = [keys EXCEPT ![t] =
       [kid |-> published.kid, key |-> published.key, fetched |-> clock]]
  /\ UNCHANGED <<issuer, cache, clock, badge, fresh, outcome, overlapped>>

\* The issuer does not answer, or not with a usable key set.
FetchFails(t) ==
  /\ NeedsFetch(t)
  /\ Goto(t, "decide", "idle")
  /\ outcome' = [outcome EXCEPT ![t] = "fetch-failed"]
  /\ UNCHANGED <<issuer, cache, clock, locals, overlapped>>

\* The three assignments that fill the cache.
StoreKeys(t) ==
  /\ Goto(t, "store", "store-url")
  /\ cachedKeys' = keys[t]
  /\ UNCHANGED <<issuer, cachedUrl, cachedAt, clock, locals, outcome, overlapped>>

StoreUrl(t) ==
  /\ Goto(t, "store-url", "store-at")
  /\ cachedUrl' = "url"
  /\ UNCHANGED <<issuer, cachedKeys, cachedAt, clock, locals, outcome, overlapped>>

\* Mutant: the time the set expires is kept, and read as the time it was stored.
StoreAtAsExpiry(t) ==
  /\ Goto(t, "store-at", "verify")
  /\ cachedAt' = clock + TTL
  /\ UNCHANGED <<issuer, cachedKeys, cachedUrl, clock, locals, outcome, overlapped>>

StoreAt(t) ==
  /\ Goto(t, "store-at", "verify")
  /\ cachedAt' = clock
  /\ UNCHANGED <<issuer, cachedKeys, cachedUrl, clock, locals, outcome, overlapped>>

Hit(t) ==
  /\ ~NeedsFetch(t)
  /\ Goto(t, "decide", "verify")
  /\ UNCHANGED <<issuer, cache, clock, locals, outcome, overlapped>>

\* keys.get(kid), then the signature.
Verify(t) ==
  /\ Goto(t, "verify", "idle")
  /\ outcome' = [outcome EXCEPT ![t] =
       IF badge[t].kid # keys[t].kid THEN "unknown-kid"
       ELSE IF badge[t].key = keys[t].key THEN "verified" ELSE "bad-signature"]
  /\ UNCHANGED <<issuer, cache, clock, locals, overlapped>>

\* The issuer changes its key, under the same kid or another.
Rotate(kid) ==
  /\ published.key < MaxKey
  /\ published' = [kid |-> kid, key |-> published.key + 1]
  /\ rotated' = clock
  /\ UNCHANGED <<cache, clock, pc, locals, outcome, overlapped>>

Tick ==
  /\ clock < MaxClock
  /\ \A t \in Threads : pc[t] = "idle"
  /\ clock' = clock + 1
  /\ UNCHANGED <<issuer, cache, pc, locals, outcome, overlapped>>

\* Badges are signed with the published key, or were before a rotation.
Badges == {published} \cup {badge[t] : t \in Threads}

Next ==
  \/ \E t \in Threads :
       \/ \E signedWith \in Badges : Begin(t, signedWith)
       \/ ReadStamp(t) \/ Fetch(t) \/ FetchFails(t) \/ StoreKeys(t) \/ StoreUrl(t)
       \/ StoreAt(t) \/ Hit(t) \/ Verify(t)
  \/ \E kid \in Kids : Rotate(kid)
  \/ Tick

Spec == Init /\ [][Next]_vars

-----------------------------------------------------------------------------
Positions == {"idle", "stamp", "decide", "store", "store-url", "store-at", "verify"}

KeySets == [kid : Kids, key : Keys, fetched : 0..MaxClock] \cup {NoSet}

Times ==
  clock \in 0..MaxClock /\ rotated \in 0..clock /\ cachedAt \in {Epoch} \cup 0..clock

Data ==
  /\ published \in [kid : Kids, key : Keys]
  /\ pc \in [Threads -> Positions]
  /\ cachedKeys \in KeySets /\ cachedUrl \in {"", "url"}
  /\ badge \in [Threads -> [kid : Kids, key : Keys]]
  /\ keys \in [Threads -> KeySets]
  /\ fresh \in [Threads -> BOOLEAN]
  /\ outcome \in [Threads -> Outcomes] /\ overlapped \in BOOLEAN

\* Types, and: every key set in use is one the issuer published.
TypeOK == Times /\ Data

\* A badge is refused for an unknown kid only after the issuer was asked in this
\* very request: however the threads' reads and writes of the cache interleave,
\* a stale cache alone never turns a new kid away.
RefusalsAreCurrent ==
  [][\A t \in Threads :
       pc[t] = "verify" /\ outcome'[t] = "unknown-kid" => keys[t].fetched = clock]_vars

\* What the comment on the cache says, "cached briefly": no badge is verified
\* with a key set fetched longer than the TTL ago.
KeysAreRecent ==
  [][\A t \in Threads : pc[t] = "verify" /\ pc'[t] = "idle" =>
       clock < keys[t].fetched + TTL]_vars

\* As long as requests came one at a time the cache keeps that promise, across
\* failed fetches, rotations and either kind of key.
SerialKeysAreRecent ==
  [][\A t \in Threads : pc[t] = "verify" /\ pc'[t] = "idle" /\ ~overlapped =>
       clock < keys[t].fetched + TTL]_vars

\* As long as they did, a badge signed with the published key is refused over its
\* signature only while a key set from before the rotation may still be cached:
\* for at most the TTL.
RotationIsPickedUp ==
  [][\A t \in Threads :
       /\ pc[t] = "verify" /\ outcome'[t] = "bad-signature" /\ ~overlapped
       /\ badge[t] = published
       => clock < rotated + TTL]_vars
=============================================================================
