------------------------------ MODULE Registry ------------------------------
(***************************************************************************)
(* Agent badges at the Identity Node (agntcy_identity_client/vc.py): the   *)
(* handlers of an agent issue_badge concurrently, each from a listing it   *)
(* fetched earlier, over a connection that may fail at any point; OpenCode *)
(* presents its badge to Keycloak A as actor_token; the next agent of the  *)
(* chain resolves the sender's badge at the handoff.                       *)
(*                                                                         *)
(* A handler is one invocation of issue_badge for its grant: the subject,  *)
(* capabilities, user, intent and delegatable scopes _subject_matches      *)
(* compares.  A credential is the record of who issued it, for what, until *)
(* when, and what its issuer had been shown (a history field).             *)
(***************************************************************************)
EXTENDS Naturals, FiniteSets

CONSTANTS
  Handlers,   \* invocations of issue_badge
  Grants,     \* what a badge may say
  GrantOf,    \* the grant each handler issues for
  SubjectOf,  \* the identity each grant is about
  TTL,        \* ttl_seconds, in ticks
  MaxClock    \* bound of the clock

ASSUME RegistryAssumption ==
  /\ GrantOf \in [Handlers -> Grants]
  /\ DOMAIN SubjectOf = Grants
  /\ TTL \in Nat \ {0} /\ MaxClock \in Nat

VARIABLES
  pc,        \* position of each handler in issue_badge
  listing,   \* what well_known_badges answered it
  held,      \* the badge it has found or built; a set of at most one
  sending,   \* handlers whose publish request is still on its way
  node,      \* credentials the Identity Node serves
  attested,  \* [badge, at]: assertions Keycloak A minted on a badge, and when
  accepted,  \* [badge, at]: handoffs where a sender's badge was accepted
  clock

vars == <<pc, listing, held, sending, node, attested, accepted, clock>>

Subject(c) == SubjectOf[c.grant]

\* _still_valid: the expiration date lies ahead.
StillValid(c) == clock < c.expires

Init ==
  /\ pc = [h \in Handlers |-> "idle"]
  /\ listing = [h \in Handlers |-> {}]
  /\ held = [h \in Handlers |-> {}]
  /\ sending = {} /\ node = {}
  /\ attested = {} /\ accepted = {}
  /\ clock = 0

Goto(h, from, to) == pc[h] = from /\ pc' = [pc EXCEPT ![h] = to]

-----------------------------------------------------------------------------
\* find_live_badge asks the node; nothing is decided before the answer is here.
List(h) ==
  /\ Goto(h, "idle", "listed")
  /\ listing' = [listing EXCEPT ![h] =
       {c \in node : Subject(c) = SubjectOf[GrantOf[h]]}]
  /\ UNCHANGED <<held, sending, node, attested, accepted, clock>>

\* Mutant: any live badge of the subject will do.
ReusableForAnything(h) == {c \in listing[h] : StillValid(c)}

\* _subject_matches, and not expired: a badge that may be presented again.
Reusable(h) == {c \in listing[h] : c.grant = GrantOf[h] /\ StillValid(c)}

\* The badge is found, and goes straight to verification ...
Reuse(h) ==
  /\ Goto(h, "listed", "verify")
  /\ \E c \in Reusable(h) : held' = [held EXCEPT ![h] = {c}]
  /\ UNCHANGED <<listing, sending, node, attested, accepted, clock>>

\* Mutant: a live badge for any grant of the subject is not looked for.
BuildRegardless(h) ==
  /\ Goto(h, "listed", "built")
  /\ held' = [held EXCEPT ![h] =
       {[by |-> h, grant |-> GrantOf[h], expires |-> clock + TTL, saw |-> listing[h]]}]
  /\ UNCHANGED <<listing, sending, node, attested, accepted, clock>>

\* ... or none is live, and a new one is built, dated now, before it is signed.
Build(h) ==
  /\ Goto(h, "listed", "built")
  /\ Reusable(h) = {}
  /\ held' = [held EXCEPT ![h] =
       {[by |-> h, grant |-> GrantOf[h], expires |-> clock + TTL, saw |-> listing[h]]}]
  /\ UNCHANGED <<listing, sending, node, attested, accepted, clock>>

\* sign_credential, build_proof_jwt, and the publish request goes out.
Send(h) ==
  /\ Goto(h, "built", "published")
  /\ sending' = sending \cup {h}
  /\ UNCHANGED <<listing, held, node, attested, accepted, clock>>

\* The node registers the credential, whether or not anyone still waits.
Register(h) ==
  /\ h \in sending
  /\ sending' = sending \ {h}
  /\ node' = node \cup held[h]
  /\ UNCHANGED <<pc, listing, held, attested, accepted, clock>>

\* Mutant: the answer of publish is not awaited before the badge is used.
AnsweredUnheard(h) ==
  /\ Goto(h, "published", "verify")
  /\ UNCHANGED <<listing, held, sending, node, attested, accepted, clock>>

\* publish_badge returns.
Answered(h) ==
  /\ h \notin sending
  /\ AnsweredUnheard(h)

\* verify_badge: the node confirms signature and proof, of expired ones too.
Verified(h) ==
  /\ Goto(h, "verify", "issued")
  /\ UNCHANGED <<listing, held, sending, node, attested, accepted, clock>>

\* Any of the calls fails or times out; a publish on its way stays on its way.
Fails(h) ==
  /\ pc[h] \in {"listed", "built", "published", "verify"}
  /\ pc' = [pc EXCEPT ![h] = "failed"]
  /\ UNCHANGED <<listing, held, sending, node, attested, accepted, clock>>

\* The publish request is lost on its way.
Lost(h) ==
  /\ h \in sending /\ pc[h] = "failed"
  /\ sending' = sending \ {h}
  /\ UNCHANGED <<pc, listing, held, node, attested, accepted, clock>>

\* OpenCode mints with the badge as actor_token: BadgeAttestation.verify takes
\* it if it has not expired meanwhile, and otherwise the run ends here.
Present(h) ==
  /\ \E c \in held[h] :
       IF StillValid(c)
         THEN /\ Goto(h, "issued", "presented")
              /\ attested' = attested \cup {[badge |-> c, at |-> clock]}
         ELSE Goto(h, "issued", "failed") /\ UNCHANGED attested
  /\ UNCHANGED <<listing, held, sending, node, accepted, clock>>

\* t1c, s2d: the receiver of the work takes the first badge listed for the
\* sender and checks chain and scope; the listing's order is the node's.
Handoff(h) ==
  /\ Goto(h, "presented", "done")
  /\ \E c \in {d \in node : Subject(d) = SubjectOf[GrantOf[h]]} :
       accepted' = accepted \cup {[badge |-> c, at |-> clock]}
  /\ UNCHANGED <<listing, held, sending, node, attested, clock>>

Tick ==
  /\ clock < MaxClock
  /\ clock' = clock + 1
  /\ UNCHANGED <<pc, listing, held, sending, node, attested, accepted>>

Step(h) ==
  \/ List(h) \/ Reuse(h) \/ Build(h) \/ Send(h) \/ Register(h) \/ Answered(h)
  \/ Verified(h) \/ Fails(h) \/ Lost(h) \/ Present(h) \/ Handoff(h)

Next == (\E h \in Handlers : Step(h)) \/ Tick

Spec == Init /\ [][Next]_vars

-----------------------------------------------------------------------------
Credentials == [by : Handlers, grant : Grants, expires : Nat, saw : SUBSET node]

Live == {c \in node : StillValid(c)}

\* Types, and: whoever holds a badge holds one, for the grant it asked for.
TypeOK ==
  /\ pc \in [Handlers -> {"idle", "listed", "built", "published", "verify",
                          "issued", "presented", "done", "failed"}]
  /\ sending \subseteq Handlers
  /\ clock \in 0..MaxClock
  /\ \A h \in Handlers :
       /\ listing[h] \subseteq node
       /\ Cardinality(held[h]) <= 1
       /\ held[h] \subseteq Credentials
       /\ \A c \in held[h] : c.grant = GrantOf[h]

\* Two live badges for one grant exist only because their issuers raced: neither
\* had been shown the other when it decided to issue.  The listing is fetched
\* two awaits before the publish, so nothing but the order of events, the expiry
\* dates and what a failed call leaves behind decide this.
DuplicatesOnlyFromRaces ==
  \A c, d \in Live : c # d /\ c.grant = d.grant => c \notin d.saw

\* What Keycloak A minted an assertion on can be resolved by every relying
\* party, and had not expired when it was minted: a badge is never presented
\* ahead of its registration, nor after the time it was reused or built for.
AttestedBadgesAreResolvable ==
  \A a \in attested : a.badge \in node /\ a.at < a.badge.expires

\* What issue_badge's docstring says: one identity, one live credential, here
\* for one grant.
OneLiveCredential ==
  \A c, d \in Live : c.grant = d.grant => c = d

\* What the README says of the badges' consumers: they check the expiration
\* date themselves, so no handoff accepts a badge that has expired.
AcceptedBadgesAreLive ==
  \A a \in accepted : a.at < a.badge.expires
=============================================================================
