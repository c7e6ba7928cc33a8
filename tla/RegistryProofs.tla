--------------------------- MODULE RegistryProofs ---------------------------
(***************************************************************************)
(* Theorems about concurrent issue_badge calls, for any handlers, grants,  *)
(* subjects, lifetimes and clock.                                          *)
(***************************************************************************)
EXTENDS Registry, FiniteSetTheorems, TLAPS

-----------------------------------------------------------------------------
(* The inductive invariant                                                 *)

Positions ==
  {"idle", "listed", "built", "published", "verify", "issued", "presented", "done",
   "failed"}

\* What a credential says, but for what its issuer had been shown.
WellFormed(c) ==
  c = [by |-> c.by, grant |-> c.grant, expires |-> c.expires, saw |-> c.saw]
    /\ c.by \in Handlers /\ c.grant \in Grants /\ c.expires \in Nat

\* It was dated no later than now, and when it was dated every credential its
\* issuer had been shown for the same grant had expired.
Dated(c) ==
  /\ c.expires <= clock + TTL
  /\ \A d \in c.saw : d.expires \in Nat
                      /\ (d.grant = c.grant => d.expires + TTL <= c.expires)

Sound(c) == WellFormed(c) /\ c.saw \subseteq node /\ Dated(c)

NodeSound == \A c \in node : Sound(c)

\* What a handler holds, and where it has got to with it.
HolderSound(h) ==
  /\ pc[h] \in Positions /\ listing[h] \subseteq node
  /\ held[h] = {} \/ \E c : held[h] = {c}
  /\ \A c \in held[h] : Sound(c) /\ c.grant = GrantOf[h]
  /\ pc[h] = "published" => h \in sending \/ held[h] \subseteq node
  /\ pc[h] \in {"verify", "issued", "presented", "done"} => held[h] \subseteq node

Shape ==
  /\ pc = [h \in Handlers |-> pc[h]] /\ listing = [h \in Handlers |-> listing[h]]
  /\ held = [h \in Handlers |-> held[h]]
  /\ sending \subseteq Handlers /\ clock \in 0..MaxClock

IInv ==
  /\ Shape /\ NodeSound
  /\ \A h \in Handlers : HolderSound(h)
  /\ AttestedBadgesAreResolvable

\* Nothing is registered or on its way at the start.
LEMMA InitInv == ASSUME Init PROVE IInv
<1>1. clock \in 0..MaxClock
  <2>1. clock = 0
    BY DEF Init
  <2> QED BY <2>1, RegistryAssumption
<1>2. Shape
  BY <1>1 DEF Init, Shape
<1>3. NodeSound /\ AttestedBadgesAreResolvable
  BY DEF Init, NodeSound, AttestedBadgesAreResolvable
<1>4. \A h \in Handlers : HolderSound(h)
  BY DEF Init, HolderSound, Positions
<1> QED BY <1>2, <1>3, <1>4 DEF IInv

-----------------------------------------------------------------------------
(* What keeps a credential sound                                           *)

\* The clock is a number.
LEMMA ClockType == ASSUME Shape PROVE clock \in Int
BY DEF Shape

\* More credentials at the node and more time leave a sound one sound.
LEMMA SoundStays ==
  ASSUME Shape, node \subseteq node', clock' \in {clock, clock + 1}, NEW c, Sound(c)
  PROVE  Sound(c)'
<1>1. clock \in Int /\ c.expires \in Nat
  BY ClockType DEF Sound, WellFormed
<1>2. clock' \in Int /\ clock <= clock'
  BY <1>1
<1>3. c.expires <= clock' + TTL
  BY <1>1, <1>2, RegistryAssumption DEF Sound, Dated
<1> QED BY <1>3 DEF Sound, WellFormed, Dated

\* A credential built from a listing without a reusable one is sound.
LEMMA NewIsSound ==
  ASSUME Shape, NodeSound, NEW h \in Handlers, HolderSound(h), Reusable(h) = {}
  PROVE  Sound([by |-> h, grant |-> GrantOf[h], expires |-> clock + TTL,
                saw |-> listing[h]])
<1> DEFINE c == [by |-> h, grant |-> GrantOf[h], expires |-> clock + TTL,
                 saw |-> listing[h]]
<1>1. clock \in Nat /\ TTL \in Nat
  BY RegistryAssumption DEF Shape
<1>2. c.expires \in Nat
  BY <1>1
<1>3. WellFormed(c)
  BY <1>2, RegistryAssumption DEF WellFormed
<1>4. c.saw \subseteq node
  BY DEF HolderSound
<1>5. ASSUME NEW d \in c.saw PROVE d.expires \in Nat
  BY <1>4, <1>5 DEF NodeSound, Sound, WellFormed
<1>6. ASSUME NEW d \in c.saw, d.grant = c.grant PROVE d.expires + TTL <= c.expires
  <2>1. ~StillValid(d)
    BY <1>6 DEF Reusable
  <2>2. d.expires \in Nat /\ ~(clock < d.expires)
    BY <1>5, <1>6, <2>1 DEF StillValid
  <2>3. \A n \in Nat : ~(clock < n) => n + TTL <= clock + TTL
    BY <1>1
  <2> QED BY <2>2, <2>3
<1> QED BY <1>1, <1>3, <1>4, <1>5, <1>6 DEF Sound, Dated

\* A handler that did not move stays sound as the node fills and time passes.
LEMMA HolderStays ==
  ASSUME Shape, NEW h \in Handlers, HolderSound(h),
         node \subseteq node', clock' \in {clock, clock + 1},
         pc'[h] = pc[h], listing'[h] = listing[h], held'[h] = held[h],
         h \in sending => h \in sending' \/ held[h] \subseteq node'
  PROVE  HolderSound(h)'
<1>1. \A c \in held'[h] : Sound(c)' /\ c.grant = GrantOf[h]
  BY SoundStays DEF HolderSound
<1> QED BY <1>1 DEF HolderSound

-----------------------------------------------------------------------------
(* The handlers' steps                                                     *)

\* What every step of a handler leaves alone.
Local(h) ==
  /\ clock' = clock /\ node' = node /\ attested' = attested
  /\ \A g \in Handlers \ {h} :
       pc'[g] = pc[g] /\ listing'[g] = listing[g] /\ held'[g] = held[g]
  /\ \A g \in Handlers \ {h} : g \in sending => g \in sending'

\* A step that changes one handler only needs that handler to stay sound.
LEMMA LocalKeeps ==
  ASSUME IInv, NEW h \in Handlers, Local(h), Shape', HolderSound(h)'
  PROVE  IInv'
<1>1. NodeSound'
  BY SoundStays DEF IInv, Local, NodeSound
<1>2. \A g \in Handlers \ {h} : HolderSound(g)'
  BY HolderStays DEF IInv, Local
<1>3. AttestedBadgesAreResolvable'
  BY DEF IInv, Local, AttestedBadgesAreResolvable
<1> QED BY <1>1, <1>2, <1>3 DEF IInv

\* A listing shows credentials that are registered.
LEMMA ListKeeps == ASSUME IInv, NEW h \in Handlers, List(h) PROVE IInv'
<1>1. Local(h) /\ Shape'
  BY DEF List, Goto, IInv, Shape, Local
<1>2. HolderSound(h)'
  <2>1. listing'[h] \subseteq node
    BY DEF List, IInv, Shape
  <2>2. pc'[h] = "listed" /\ held' = held /\ node' = node
    BY DEF List, Goto, IInv, Shape
  <2>3. \A c \in held[h] : Sound(c)' /\ c.grant = GrantOf[h]
    BY <1>1, SoundStays DEF Local, IInv, HolderSound
  <2> QED BY <2>1, <2>2, <2>3 DEF HolderSound, IInv, Positions
<1> QED BY <1>1, <1>2, LocalKeeps

\* A badge that is reused is a registered one.
LEMMA ReuseKeeps == ASSUME IInv, NEW h \in Handlers, Reuse(h) PROVE IInv'
<1>1. Local(h) /\ Shape'
  BY DEF Reuse, Goto, IInv, Shape, Local
<1>2. HolderSound(h)'
  <2>1. PICK c \in Reusable(h) : held'[h] = {c}
    BY DEF Reuse, IInv, Shape
  <2>2. c \in node /\ c.grant = GrantOf[h] /\ Sound(c)
    BY <2>1 DEF Reusable, IInv, HolderSound, NodeSound
  <2>3. pc'[h] = "verify" /\ listing' = listing /\ node' = node
    BY DEF Reuse, Goto, IInv, Shape
  <2>4. Sound(c)'
    BY <1>1, <2>2, SoundStays DEF Local, IInv
  <2> QED BY <2>1, <2>2, <2>3, <2>4 DEF HolderSound, IInv, Positions
<1> QED BY <1>1, <1>2, LocalKeeps

\* A new badge is dated after everything its issuer was shown for the grant expired.
LEMMA BuildKeeps == ASSUME IInv, NEW h \in Handlers, Build(h) PROVE IInv'
<1>1. Local(h) /\ Shape'
  BY DEF Build, Goto, IInv, Shape, Local
<1>2. HolderSound(h)'
  <2>1. PICK c : c = [by |-> h, grant |-> GrantOf[h], expires |-> clock + TTL,
                      saw |-> listing[h]]
    OBVIOUS
  <2>2. held'[h] = {c} /\ Sound(c) /\ c.grant = GrantOf[h]
    BY <2>1, NewIsSound DEF Build, IInv, Shape
  <2>3. pc'[h] = "built" /\ listing' = listing /\ node' = node
    BY DEF Build, Goto, IInv, Shape
  <2>4. Sound(c)'
    BY <1>1, <2>2, SoundStays DEF Local, IInv
  <2> QED BY <2>2, <2>3, <2>4 DEF HolderSound, IInv, Positions
<1> QED BY <1>1, <1>2, LocalKeeps

\* The steps that change neither the listing nor the badge of the handler.
Moves(h) ==
  /\ Local(h) /\ Shape'
  /\ listing' = listing /\ held' = held
  /\ pc'[h] \in Positions
  /\ pc'[h] = "published" => h \in sending'
  /\ pc'[h] \in {"verify", "issued", "presented", "done"} => held[h] \subseteq node

\* A handler that keeps its badge and where that badge must be stays sound.
LEMMA MovesKeeps == ASSUME IInv, NEW h \in Handlers, Moves(h) PROVE IInv'
<1>1. \A c \in held[h] : Sound(c)' /\ c.grant = GrantOf[h]
  BY SoundStays DEF Moves, Local, IInv, HolderSound
<1>2. HolderSound(h)'
  BY <1>1 DEF Moves, Local, IInv, HolderSound
<1> QED BY <1>2, LocalKeeps DEF Moves

\* Sending, answers, failures and handoffs register nothing.
LEMMA QuietKeeps ==
  ASSUME IInv, NEW h \in Handlers,
         Send(h) \/ Answered(h) \/ Verified(h) \/ Fails(h) \/ Handoff(h)
  PROVE  IInv'
<1>1. Moves(h)
  <2> USE DEF IInv, Shape, HolderSound, Moves, Local, Goto, Positions
  <2>1. CASE Send(h)
    BY <2>1 DEF Send
  <2>2. CASE Answered(h)
    BY <2>2 DEF Answered, AnsweredUnheard
  <2>3. CASE Verified(h)
    BY <2>3 DEF Verified
  <2>4. CASE Fails(h)
    BY <2>4 DEF Fails
  <2>5. CASE Handoff(h)
    BY <2>5 DEF Handoff
  <2> QED BY <2>1, <2>2, <2>3, <2>4, <2>5
<1> QED BY <1>1, MovesKeeps

\* A request that is lost was given up on before.
LEMMA LostKeeps == ASSUME IInv, NEW h \in Handlers, Lost(h) PROVE IInv'
<1>1. Moves(h)
  BY DEF Lost, IInv, Shape, HolderSound, Moves, Local, Positions
<1> QED BY <1>1, MovesKeeps

\* What the node registers was held, and stays there.
LEMMA RegisterKeeps == ASSUME IInv, NEW h \in Handlers, Register(h) PROVE IInv'
<1>1. /\ node' = node \cup held[h] /\ sending' = sending \ {h}
      /\ UNCHANGED <<pc, listing, held, attested, clock>>
  BY DEF Register
<1>2. Shape' /\ node \subseteq node' /\ held[h] \subseteq node'
  BY <1>1 DEF IInv, Shape
<1>3. NodeSound'
  <2>1. \A c \in node \cup held[h] : Sound(c)
    BY DEF IInv, NodeSound, HolderSound
  <2> QED BY <1>1, <1>2, <2>1, SoundStays DEF NodeSound, IInv
<1>4. \A g \in Handlers : HolderSound(g)'
  BY <1>1, <1>2, HolderStays DEF IInv
<1>5. AttestedBadgesAreResolvable'
  BY <1>1, <1>2 DEF IInv, AttestedBadgesAreResolvable
<1> QED BY <1>2, <1>3, <1>4, <1>5 DEF IInv

\* Keycloak A mints on a badge that is registered and has not expired.
LEMMA PresentKeeps == ASSUME IInv, NEW h \in Handlers, Present(h) PROVE IInv'
<1>1. PICK c \in held[h] :
        IF StillValid(c)
          THEN Goto(h, "issued", "presented")
               /\ attested' = attested \cup {[badge |-> c, at |-> clock]}
          ELSE Goto(h, "issued", "failed") /\ UNCHANGED attested
  BY DEF Present
<1>2. UNCHANGED <<listing, held, sending, node, accepted, clock>>
  BY DEF Present
<1>3. pc[h] = "issued" /\ pc' = [pc EXCEPT ![h] = pc'[h]]
        /\ pc'[h] \in {"presented", "failed"}
  BY <1>1 DEF Goto, IInv, Shape
<1>4. Shape'
  BY <1>2, <1>3 DEF IInv, Shape
<1>5. held[h] \subseteq node
  BY <1>3 DEF IInv, HolderSound
<1>6. \A g \in Handlers : HolderSound(g)'
  <2>1. \A g \in Handlers : \A d \in held[g] : Sound(d)' /\ d.grant = GrantOf[g]
    BY <1>2, SoundStays DEF IInv, HolderSound
  <2>2. \A g \in Handlers : g # h => pc'[g] = pc[g]
    BY <1>3 DEF IInv, Shape
  <2> QED BY <1>2, <1>3, <1>5, <2>1, <2>2 DEF IInv, HolderSound, Positions
<1>7. NodeSound'
  BY <1>2, SoundStays DEF IInv, NodeSound
<1>8. AttestedBadgesAreResolvable'
  <2>1. c \in node
    BY <1>5
  <2>2. \A a \in attested' \ attested : a.badge \in node /\ a.at < a.badge.expires
    BY <1>1, <2>1 DEF StillValid
  <2> QED BY <1>2, <2>2 DEF IInv, AttestedBadgesAreResolvable
<1> QED BY <1>4, <1>6, <1>7, <1>8 DEF IInv

\* The passing of time makes nothing live again.
LEMMA TickKeeps == ASSUME IInv, Tick PROVE IInv'
<1>1. clock' = clock + 1 /\ UNCHANGED <<pc, listing, held, sending, node, attested>>
  BY DEF Tick
<1>2. Shape'
  <2>1. clock \in 0..MaxClock /\ clock < MaxClock
    BY DEF IInv, Shape, Tick
  <2>2. clock' \in 0..MaxClock
    BY <1>1, <2>1, RegistryAssumption
  <2> QED BY <1>1, <2>2 DEF IInv, Shape
<1>3. NodeSound'
  BY <1>1, SoundStays DEF IInv, NodeSound
<1>4. \A h \in Handlers : HolderSound(h)'
  BY <1>1, HolderStays DEF IInv
<1>5. AttestedBadgesAreResolvable'
  BY <1>1 DEF IInv, AttestedBadgesAreResolvable
<1> QED BY <1>2, <1>3, <1>4, <1>5 DEF IInv

\* A stuttering step changes none of it.
LEMMA StutterKeeps == ASSUME IInv, UNCHANGED vars PROVE IInv'
<1>1. UNCHANGED <<pc, listing, held, sending, node, attested, clock>>
  BY DEF vars
<1>2. Shape' /\ AttestedBadgesAreResolvable'
  BY <1>1 DEF IInv, Shape, AttestedBadgesAreResolvable
<1>3. NodeSound' /\ \A h \in Handlers : HolderSound(h)'
  BY <1>1, SoundStays, HolderStays DEF IInv, NodeSound
<1> QED BY <1>2, <1>3 DEF IInv

\* The invariant is inductive.
LEMMA StepInv == ASSUME IInv, [Next]_vars PROVE IInv'
BY ListKeeps, ReuseKeeps, BuildKeeps, QuietKeeps, LostKeeps, RegisterKeeps,
   PresentKeeps, TickKeeps, StutterKeeps DEF Next, Step

-----------------------------------------------------------------------------
(* The theorems                                                            *)

\* At every moment every credential, registered or held, was dated after all those
\* its issuer had been shown for the same grant had expired, and what a handler
\* goes on with after the node's answer is registered.
THEOREM RegistryInvariant == Spec => []IInv
<1>1. Init => IInv
  BY InitInv
<1>2. IInv /\ [Next]_vars => IInv'
  BY StepInv
<1> QED BY <1>1, <1>2, PTL DEF Spec

\* The positions, listings and badges of the handlers stay in their types, and
\* nobody holds two badges or one for another grant.
THEOREM TypeCorrect == Spec => []TypeOK
<1>1. ASSUME IInv PROVE TypeOK
  <2>1. pc \in [Handlers -> Positions]
    BY <1>1 DEF IInv, Shape, HolderSound
  <2>2. ASSUME NEW h \in Handlers PROVE Cardinality(held[h]) <= 1
    <3>1. held[h] = {} \/ \E c : held[h] = {c}
      BY <1>1 DEF IInv, HolderSound
    <3>2. CASE held[h] = {}
      BY <3>2, FS_EmptySet
    <3>3. ASSUME NEW c, held[h] = {c} PROVE Cardinality(held[h]) <= 1
      <4>1. Cardinality({c}) = 1
        BY FS_Singleton
      <4> QED BY <3>3, <4>1
    <3> QED BY <3>1, <3>2, <3>3
  <2>3. ASSUME NEW h \in Handlers PROVE held[h] \subseteq Credentials
    BY <1>1 DEF IInv, HolderSound, Sound, WellFormed, Credentials
  <2> QED BY <1>1, <2>1, <2>2, <2>3 DEF TypeOK, IInv, Shape, HolderSound, Positions
<1> QED BY <1>1, RegistryInvariant, PTL

\* For any number of concurrent calls, duplicates come from races only.
THEOREM OnlyRacesDuplicate == Spec => []DuplicatesOnlyFromRaces
<1>1. ASSUME IInv PROVE DuplicatesOnlyFromRaces
  <2>1. ASSUME NEW c \in Live, NEW d \in Live, c.grant = d.grant, c \in d.saw
        PROVE  FALSE
    <3>1. c.expires \in Nat /\ c.expires + TTL <= d.expires /\ d.expires <= clock + TTL
      BY <1>1, <2>1 DEF Live, IInv, NodeSound, Sound, Dated
    <3>2. clock < c.expires
      BY DEF Live, StillValid
    <3>3. d.expires \in Nat /\ clock \in Int /\ TTL \in Int
      BY <1>1, ClockType, RegistryAssumption DEF Live, IInv, NodeSound, Sound, WellFormed
    <3> QED BY <3>1, <3>2, <3>3
  <2> QED BY <2>1 DEF DuplicatesOnlyFromRaces
<1> QED BY <1>1, RegistryInvariant, PTL

\* Whatever Keycloak A minted an assertion on is registered and was live then.
THEOREM AttestedAreResolvable == Spec => []AttestedBadgesAreResolvable
<1>1. IInv => AttestedBadgesAreResolvable
  BY DEF IInv
<1> QED BY <1>1, RegistryInvariant, PTL
=============================================================================
