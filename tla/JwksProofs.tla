----------------------------- MODULE JwksProofs -----------------------------
(***************************************************************************)
(* Theorems about the credential JWKS cache, for any threads, kids, number *)
(* of keys, TTL and clock.                                                 *)
(***************************************************************************)
EXTENDS JwksCache, TLAPS

StepOf(t) ==
  \/ \E signedWith \in Badges : Begin(t, signedWith)
  \/ ReadStamp(t) \/ Fetch(t) \/ FetchFails(t) \/ StoreKeys(t) \/ StoreUrl(t)
  \/ StoreAt(t) \/ Hit(t) \/ Verify(t)

Environment == (\E kid \in Kids : Rotate(kid)) \/ Tick

\* A step is a thread's or the environment's.
LEMMA NextSplits == ASSUME Next PROVE (\E t \in Threads : StepOf(t)) \/ Environment
  BY DEF Next, StepOf, Environment

-----------------------------------------------------------------------------
(* Types                                                                   *)

\* The cache starts empty, in its types.
LEMMA InitType == ASSUME Init PROVE TypeOK
  <1>1. 1 \in Keys
    BY JwksAssumption DEF Keys
  <1>2. published \in [kid : Kids, key : Keys]
    BY <1>1 DEF Init
  <1>3. pc \in [Threads -> Positions]
    BY DEF Init, Positions
  <1>4. badge \in [Threads -> [kid : Kids, key : Keys]]
    BY <1>2 DEF Init
  <1>5. NoSet \in KeySets
    BY DEF KeySets
  <1>6. cachedKeys \in KeySets /\ keys \in [Threads -> KeySets]
    BY <1>5 DEF Init
  <1>7. outcome \in [Threads -> Outcomes]
    BY DEF Init, Outcomes
  <1>8. Times
    <2>1. clock = 0 /\ rotated = 0 /\ cachedAt = Epoch
      BY DEF Init
    <2> QED
      BY JwksAssumption, <2>1 DEF Times
  <1>9. cachedUrl \in {"", "url"}
    BY DEF Init
  <1>10. fresh \in [Threads -> BOOLEAN] /\ overlapped \in BOOLEAN
    BY DEF Init
  <1> QED
    BY <1>2, <1>3, <1>4, <1>6, <1>7, <1>8, <1>9, <1>10 DEF TypeOK, Data

\* A thread stamps the cache with the present time.
LEMMA ThreadTimes == ASSUME Times, NEW t \in Threads, StepOf(t) PROVE Times'
  <1>1. UNCHANGED <<clock, rotated>>
    BY DEF StepOf, Begin, ReadStamp, Fetch, FetchFails, StoreKeys, StoreUrl, StoreAt,
           Hit, Verify, issuer
  <1>2. cachedAt' \in {cachedAt, clock}
    BY DEF StepOf, Begin, ReadStamp, Fetch, FetchFails, StoreKeys, StoreUrl, StoreAt,
           Hit, Verify, cache
  <1> QED
    BY <1>1, <1>2, JwksAssumption DEF Times

\* A thread stores and keeps only what the issuer published.
LEMMA ThreadData == ASSUME Data, Times, NEW t \in Threads, StepOf(t) PROVE Data'
  <1>1. ASSUME NEW b \in Badges, Begin(t, b) PROVE Data'
    <2>1. b \in [kid : Kids, key : Keys]
      BY DEF Badges, Data
    <2> QED
      BY <1>1, <2>1 DEF Data, Begin, Goto, issuer, cache, Positions, Outcomes
  <1>2. CASE ReadStamp(t)
    BY <1>2 DEF Data, ReadStamp, Goto, issuer, cache, Positions
  <1>3. CASE Fetch(t)
    <2>1. published.kid \in Kids /\ published.key \in Keys
      BY DEF Data
    <2>2. [kid |-> published.kid, key |-> published.key, fetched |-> clock] \in KeySets
      BY <2>1 DEF Times, KeySets
    <2> QED
      BY <1>3, <2>2 DEF Data, Fetch, Goto, issuer, cache, Positions
  <1>4. CASE FetchFails(t)
    BY <1>4 DEF Data, FetchFails, Goto, issuer, cache, locals, Positions, Outcomes
  <1>5. CASE StoreKeys(t)
    BY <1>5 DEF Data, StoreKeys, Goto, issuer, locals, Positions
  <1>6. CASE StoreUrl(t)
    BY <1>6 DEF Data, StoreUrl, Goto, issuer, locals, Positions
  <1>7. CASE StoreAt(t)
    BY <1>7 DEF Data, StoreAt, Goto, issuer, locals, Positions
  <1>8. CASE Hit(t)
    BY <1>8 DEF Data, Hit, Goto, issuer, cache, locals, Positions
  <1>9. CASE Verify(t)
    BY <1>9 DEF Data, Verify, Goto, issuer, cache, locals, Positions, Outcomes
  <1> QED
    BY <1>1, <1>2, <1>3, <1>4, <1>5, <1>6, <1>7, <1>8, <1>9 DEF StepOf

\* Every step of a thread stays in the types.
LEMMA ThreadType == ASSUME TypeOK, NEW t \in Threads, StepOf(t) PROVE TypeOK'
  BY ThreadTimes, ThreadData DEF TypeOK

\* A rotation takes the next key while there is one, and the clock stops at its bound.
LEMMA EnvironmentType == ASSUME TypeOK, Environment PROVE TypeOK'
  <1>1. Times /\ Data
    BY DEF TypeOK
  <1>2. ASSUME NEW kid \in Kids, Rotate(kid) PROVE TypeOK'
    <2>1. published.key \in 1..MaxKey /\ published.key < MaxKey
      BY <1>1, <1>2 DEF Rotate, Keys, Data
    <2>2. published.key + 1 \in Keys
      BY JwksAssumption, <2>1 DEF Keys
    <2>3. Data'
      BY <1>1, <1>2, <2>2 DEF Rotate, cache, locals, Data
    <2>4. rotated' = clock /\ clock' = clock /\ cachedAt' = cachedAt
      BY <1>2 DEF Rotate, cache
    <2>5. Times'
      BY <1>1, <2>4, JwksAssumption DEF Times
    <2> QED
      BY <2>3, <2>5 DEF TypeOK
  <1>3. CASE Tick
    <2>1. clock < MaxClock /\ clock' = clock + 1 /\ rotated' = rotated /\ cachedAt' = cachedAt
      BY <1>3 DEF Tick, issuer, cache
    <2>2. Times'
      BY <1>1, <2>1, JwksAssumption DEF Times
    <2>3. Data'
      BY <1>1, <1>3 DEF Tick, issuer, cache, locals, Data
    <2> QED
      BY <2>2, <2>3 DEF TypeOK
  <1> QED
    BY <1>2, <1>3 DEF Environment

\* A stuttering step changes no type.
LEMMA StutterType == ASSUME TypeOK, UNCHANGED vars PROVE TypeOK'
  BY DEF TypeOK, Times, Data, vars, issuer, cache, locals

\* Every step stays in the types.
LEMMA StepType == ASSUME TypeOK, [Next]_vars PROVE TypeOK'
  BY NextSplits, ThreadType, EnvironmentType, StutterType

\* The three statics, the threads' locals and the issuer's key stay in their types:
\* every key set in use was published by the issuer, or is the empty one.
THEOREM TypeCorrect == Spec => []TypeOK
  <1>1. Init => TypeOK
    BY InitType
  <1>2. TypeOK /\ [Next]_vars => TypeOK'
    BY StepType
  <1> QED
    BY <1>1, <1>2, PTL DEF Spec

-----------------------------------------------------------------------------
(* The inductive invariant                                                 *)

\* A request has no outcome before its verification.
NoOutcomeYet == \A t \in Threads : pc[t] # "idle" => outcome[t] = "none"

\* A key set just fetched is of this moment, and a request that did not fetch has
\* the kid it looks for.
KidFound ==
  \A t \in Threads :
    /\ pc[t] \in {"store", "store-url", "store-at"} => keys[t].fetched = clock
    /\ pc[t] = "verify" => keys[t].fetched = clock \/ badge[t].kid = keys[t].kid

\* A key set is from the past, and one from after the rotation is the issuer's.
IsCurrent(set) ==
  /\ set.fetched <= clock
  /\ set.fetched > rotated => set.kid = published.kid /\ set.key = published.key

KeySetsCurrent == IsCurrent(cachedKeys) /\ \A t \in Threads : IsCurrent(keys[t])

\* Requests that never overlapped found the statics in agreement.
Alone == \A t, u \in Threads : pc[t] # "idle" /\ pc[u] # "idle" => t = u

StampAgrees ==
  (\A t \in Threads : pc[t] \notin {"store-url", "store-at"}) /\ cachedUrl # "" =>
    cachedAt = cachedKeys.fetched

Recent(set) == clock < set.fetched + TTL

LocalsAgree ==
  \A t \in Threads :
    /\ pc[t] = "stamp" => keys[t] = cachedKeys
    /\ pc[t] = "decide" /\ fresh[t] => Recent(keys[t])
    /\ pc[t] \in {"store-url", "store-at"} => cachedKeys = keys[t]
    /\ pc[t] = "verify" => Recent(keys[t])

Serial == ~overlapped => Alone /\ StampAgrees /\ LocalsAgree

IInv == TypeOK /\ NoOutcomeYet /\ KidFound /\ KeySetsCurrent /\ Serial

\* No request is under way at the start, and the cache is older than any.
LEMMA InitInv == ASSUME Init PROVE IInv
  <1>1. TypeOK
    BY InitType
  <1>2. NoOutcomeYet /\ KidFound
    BY DEF Init, NoOutcomeYet, KidFound
  <1>3. KeySetsCurrent
    <2>1. NoSet.fetched = 0
      BY DEF NoSet
    <2>2. cachedKeys = NoSet /\ \A t \in Threads : keys[t] = NoSet
      BY DEF Init
    <2>3. clock = 0 /\ rotated = 0
      BY DEF Init
    <2> QED
      BY <2>1, <2>2, <2>3 DEF KeySetsCurrent, IsCurrent
  <1>4. Serial
    BY DEF Init, Serial, Alone, StampAgrees, LocalsAgree
  <1> QED
    BY <1>1, <1>2, <1>3, <1>4 DEF IInv

\* Only a verification gives a request its outcome.
LEMMA OutcomeStep ==
  ASSUME TypeOK, NoOutcomeYet, NEW t \in Threads, StepOf(t)
  PROVE  NoOutcomeYet'
  BY DEF TypeOK, Data, NoOutcomeYet, StepOf, Begin, ReadStamp, Fetch, FetchFails, StoreKeys,
         StoreUrl, StoreAt, Hit, Verify, Goto, Positions

\* A request comes to its verification with the kid it looks for, or by a fetch.
LEMMA KidStep ==
  ASSUME TypeOK, KidFound, NEW t \in Threads, StepOf(t)
  PROVE  KidFound'
  <1> USE DEF TypeOK, Data, KidFound, Goto
  <1>1. ASSUME NEW b \in Badges, Begin(t, b) PROVE KidFound'
    BY <1>1 DEF Begin
  <1>2. CASE ReadStamp(t)
    BY <1>2 DEF ReadStamp
  <1>3. CASE Fetch(t)
    BY <1>3 DEF Fetch
  <1>4. CASE FetchFails(t)
    BY <1>4 DEF FetchFails, locals
  <1>5. CASE StoreKeys(t)
    BY <1>5 DEF StoreKeys, locals
  <1>6. CASE StoreUrl(t)
    BY <1>6 DEF StoreUrl, locals
  <1>7. CASE StoreAt(t)
    BY <1>7 DEF StoreAt, locals
  <1>8. CASE Hit(t)
    BY <1>8 DEF Hit, NeedsFetch, locals
  <1>9. CASE Verify(t)
    BY <1>9 DEF Verify, locals
  <1> QED
    BY <1>1, <1>2, <1>3, <1>4, <1>5, <1>6, <1>7, <1>8, <1>9 DEF StepOf

\* The moment a key set was fetched is a number, before the first fetch too.
LEMMA FetchedType ==
  ASSUME Data PROVE cachedKeys.fetched \in Int /\ \A t \in Threads : keys[t].fetched \in Int
  <1>1. ASSUME NEW set \in KeySets PROVE set.fetched \in Int
    BY DEF KeySets, NoSet
  <1> QED
    BY <1>1 DEF Data

\* A thread fetches what is published now, and copies what was current before.
LEMMA CurrentStep ==
  ASSUME TypeOK, KeySetsCurrent, NEW t \in Threads, StepOf(t)
  PROVE  KeySetsCurrent'
  <1> DEFINE new == [kid |-> published.kid, key |-> published.key, fetched |-> clock]
  <1>1. UNCHANGED <<published, rotated, clock>>
    BY DEF StepOf, Begin, ReadStamp, Fetch, FetchFails, StoreKeys, StoreUrl, StoreAt,
           Hit, Verify, issuer
  <1>2. cachedKeys' \in {cachedKeys, keys[t]}
    BY DEF StepOf, Begin, ReadStamp, Fetch, FetchFails, StoreKeys, StoreUrl, StoreAt,
           Hit, Verify, cache
  <1>3. \A u \in Threads : keys'[u] \in {keys[u], cachedKeys, new}
    BY DEF StepOf, Begin, ReadStamp, Fetch, FetchFails, StoreKeys, StoreUrl, StoreAt,
           Hit, Verify, locals, TypeOK, Data
  <1>4. IsCurrent(new)
    <2>1. clock \in Int
      BY DEF TypeOK, Times
    <2> QED
      BY <2>1 DEF IsCurrent
  <1>5. \A set \in {cachedKeys, new} \cup {keys[u] : u \in Threads} : IsCurrent(set)
    BY <1>4 DEF KeySetsCurrent
  <1> HIDE DEF new
  <1>6. \A set \in {cachedKeys, new} \cup {keys[u] : u \in Threads} :
          set.fetched <= clock' /\ (set.fetched > rotated' =>
                                      set.kid = published'.kid /\ set.key = published'.key)
    BY <1>1, <1>5 DEF IsCurrent
  <1> QED
    BY <1>2, <1>3, <1>6 DEF KeySetsCurrent, IsCurrent

\* A key set is recent when it is fetched.
LEMMA JustFetched == ASSUME Times, NEW set, set.fetched = clock PROVE Recent(set)
  <1>1. clock \in Int
    BY DEF Times
  <1> QED
    BY <1>1, JwksAssumption DEF Recent

\* As long as a thread is alone in the method, its reads and writes of the three statics
\* agree.
LEMMA SerialStep ==
  ASSUME TypeOK, KidFound, Serial, NEW t \in Threads, StepOf(t)
  PROVE  Serial'
  <1> USE DEF TypeOK, Times, Data, Serial, Alone, StampAgrees, LocalsAgree, Recent, Goto
  <1>1. ASSUME NEW b \in Badges, Begin(t, b) PROVE Serial'
    BY <1>1 DEF Begin, issuer, cache
  <1>2. CASE ReadStamp(t)
    BY <1>2 DEF ReadStamp, issuer, cache
  <1>3. CASE Fetch(t)
    BY <1>3 DEF Fetch, issuer, cache
  <1>4. CASE FetchFails(t)
    BY <1>4 DEF FetchFails, issuer, cache, locals
  <1>5. CASE StoreKeys(t)
    BY <1>5 DEF StoreKeys, issuer, locals
  <1>6. CASE StoreUrl(t)
    BY <1>6 DEF StoreUrl, issuer, locals
  <1>7. CASE StoreAt(t)
    <2>1. keys[t].fetched = clock
      BY <1>7 DEF StoreAt, KidFound
    <2>2. Recent(keys[t])
      BY <2>1, JustFetched
    <2> QED
      BY <1>7, <2>1, <2>2 DEF StoreAt, issuer, locals
  <1>8. CASE Hit(t)
    BY <1>8 DEF Hit, NeedsFetch, issuer, cache, locals
  <1>9. CASE Verify(t)
    BY <1>9 DEF Verify, issuer, cache, locals
  <1> QED
    BY <1>1, <1>2, <1>3, <1>4, <1>5, <1>6, <1>7, <1>8, <1>9 DEF StepOf

\* A rotation makes no key set newer, and time passes only between requests.
LEMMA EnvironmentInv == ASSUME IInv, Environment PROVE IInv'
  <1> USE DEF IInv
  <1>1. TypeOK'
    BY EnvironmentType
  <1>2. ASSUME NEW kid \in Kids, Rotate(kid) PROVE IInv'
    <2>1. UNCHANGED <<cache, clock, pc, locals, outcome, overlapped>> /\ rotated' = clock
      BY <1>2 DEF Rotate
    <2>2. NoOutcomeYet' /\ KidFound'
      BY <2>1 DEF NoOutcomeYet, KidFound, locals
    <2>3. KeySetsCurrent'
      <3>1. cachedKeys' = cachedKeys /\ keys' = keys /\ clock' = clock
        BY <2>1 DEF cache, locals
      <3>2. clock \in Int
        BY DEF TypeOK, Times
      <3> QED
        BY <2>1, <3>1, <3>2, FetchedType DEF KeySetsCurrent, IsCurrent, TypeOK
    <2>4. Serial'
      BY <2>1 DEF Serial, Alone, StampAgrees, LocalsAgree, Recent, cache, locals
    <2> QED
      BY <1>1, <2>2, <2>3, <2>4
  <1>3. CASE Tick
    <2>1. /\ UNCHANGED <<issuer, cache, pc, locals, outcome, overlapped>>
          /\ clock' = clock + 1 /\ \A t \in Threads : pc[t] = "idle"
      BY <1>3 DEF Tick
    <2>2. NoOutcomeYet' /\ KidFound'
      BY <2>1 DEF NoOutcomeYet, KidFound
    <2>3. KeySetsCurrent'
      <3>1. cachedKeys' = cachedKeys /\ keys' = keys /\ UNCHANGED <<published, rotated>>
        BY <2>1 DEF cache, locals, issuer
      <3>2. clock \in Int
        BY DEF TypeOK, Times
      <3> QED
        BY <2>1, <3>1, <3>2, FetchedType DEF KeySetsCurrent, IsCurrent, TypeOK
    <2>4. Serial'
      BY <2>1 DEF Serial, Alone, StampAgrees, LocalsAgree, cache
    <2> QED
      BY <1>1, <2>2, <2>3, <2>4
  <1> QED
    BY <1>2, <1>3 DEF Environment

\* A stuttering step changes none of it.
LEMMA StutterInv == ASSUME IInv, UNCHANGED vars PROVE IInv'
  <1>1. TypeOK' /\ NoOutcomeYet' /\ KidFound'
    BY StutterType DEF IInv, vars, locals, NoOutcomeYet, KidFound
  <1>2. KeySetsCurrent'
    BY DEF IInv, vars, issuer, cache, locals, KeySetsCurrent, IsCurrent
  <1>3. Serial'
    BY DEF IInv, vars, cache, locals, Serial, Alone, StampAgrees, LocalsAgree, Recent
  <1> QED
    BY <1>1, <1>2, <1>3 DEF IInv

\* The invariant is inductive.
LEMMA StepInv == ASSUME IInv, [Next]_vars PROVE IInv'
  <1>1. ASSUME NEW t \in Threads, StepOf(t) PROVE IInv'
    BY <1>1, ThreadType, OutcomeStep, KidStep, CurrentStep, SerialStep DEF IInv
  <1> QED
    BY <1>1, NextSplits, EnvironmentInv, StutterInv

\* What holds of the cache and the requests' locals at every moment, and what holds
\* besides as long as no two requests were in resolveKey at once.
THEOREM CacheInvariant == Spec => []IInv
  <1>1. Init => IInv
    BY InitInv
  <1>2. IInv /\ [Next]_vars => IInv'
    BY StepInv
  <1> QED
    BY <1>1, <1>2, PTL DEF Spec

-----------------------------------------------------------------------------
(* The action properties                                                   *)

\* Only its own Verify takes a request out of verification, or gives it an outcome.
LEMMA OnlyVerify ==
  ASSUME IInv, Next, NEW t \in Threads, pc[t] = "verify",
         pc'[t] = "idle" \/ outcome'[t] # "none"
  PROVE  Verify(t)
  <1> USE DEF IInv, TypeOK, Times, Data, NoOutcomeYet
  <1>1. ASSUME Environment PROVE FALSE
    BY <1>1 DEF Environment, Rotate, Tick
  <1>2. PICK u \in Threads : StepOf(u)
    BY <1>1, NextSplits
  <1>3. u = t
    BY <1>2 DEF StepOf, Begin, ReadStamp, Fetch, FetchFails, StoreKeys, StoreUrl, StoreAt,
                Hit, Verify, Goto
  <1> QED
    BY <1>2, <1>3 DEF StepOf, Begin, ReadStamp, Fetch, FetchFails, StoreKeys, StoreUrl,
                      StoreAt, Hit, Goto

\* However the threads interleave, an unknown kid is refused only after the issuer
\* was asked in the same request.
THEOREM RefusalsCurrent == Spec => RefusalsAreCurrent
  <1> DEFINE A == \A t \in Threads :
        pc[t] = "verify" /\ outcome'[t] = "unknown-kid" => keys[t].fetched = clock
  <1>1. ASSUME IInv, [Next]_vars PROVE A \/ UNCHANGED vars
    <2>1. ASSUME Next, NEW t \in Threads, pc[t] = "verify", outcome'[t] = "unknown-kid"
          PROVE  keys[t].fetched = clock
      <3>1. Verify(t)
        BY <1>1, <2>1, OnlyVerify
      <3>2. badge[t].kid # keys[t].kid
        BY <1>1, <2>1, <3>1 DEF Verify, IInv, TypeOK, Data
      <3> QED
        BY <1>1, <2>1, <3>2 DEF IInv, KidFound
    <2> QED
      BY <1>1, <2>1
  <1> QED
    BY <1>1, CacheInvariant, PTL DEF Spec, RefusalsAreCurrent

\* As long as requests came one at a time no key set older than the TTL is used.
THEOREM SerialRecent == Spec => SerialKeysAreRecent
  <1> DEFINE A == \A t \in Threads :
        pc[t] = "verify" /\ pc'[t] = "idle" /\ ~overlapped =>
          clock < keys[t].fetched + TTL
  <1>1. ASSUME IInv, [Next]_vars PROVE A \/ UNCHANGED vars
    BY <1>1 DEF IInv, Serial, LocalsAgree, Recent
  <1> QED
    BY <1>1, CacheInvariant, PTL DEF Spec, SerialKeysAreRecent

\* As long as they did, a change of key under the same kid is noticed within the TTL.
THEOREM RotationPickedUp == Spec => RotationIsPickedUp
  <1> DEFINE A == \A t \in Threads :
        /\ pc[t] = "verify" /\ outcome'[t] = "bad-signature" /\ ~overlapped
        /\ badge[t] = published
        => clock < rotated + TTL
  <1>1. ASSUME IInv, [Next]_vars PROVE A \/ UNCHANGED vars
    <2>1. ASSUME Next, NEW t \in Threads, pc[t] = "verify", ~overlapped,
                 outcome'[t] = "bad-signature", badge[t] = published
          PROVE  clock < rotated + TTL
      <3>1. Verify(t)
        BY <1>1, <2>1, OnlyVerify
      <3>2. keys[t].key # published.key
        BY <1>1, <2>1, <3>1 DEF Verify, IInv, TypeOK, Data
      <3>3. IsCurrent(keys[t]) /\ Recent(keys[t])
        BY <1>1, <2>1 DEF IInv, KeySetsCurrent, Serial, LocalsAgree
      <3>4. keys[t].fetched \in Int /\ clock \in Int /\ rotated \in Int
        BY <1>1, <2>1, FetchedType DEF IInv, TypeOK, Times
      <3> QED
        BY <3>2, <3>3, <3>4, JwksAssumption DEF IsCurrent, Recent
    <2> QED
      BY <1>1, <2>1
  <1> QED
    BY <1>1, CacheInvariant, PTL DEF Spec, RotationIsPickedUp
=============================================================================
