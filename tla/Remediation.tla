----------------------------- MODULE Remediation -----------------------------
(***************************************************************************)
(* What one remediation promises the user who asks for it and the owner of *)
(* the repository, whatever agents, policies and Keycloaks lie in between. *)
(* Work in Org B begins only for a user who still waits.  A branch, and    *)
(* once it is there one pull request, are requested of Gitea only by work  *)
(* authorised there; what was requested may appear later, even when that   *)
(* work has ended, but nothing else ever does and nothing elsewhere.  "ok" *)
(* means that the pull request is open and that nobody works for the run   *)
(* any more.  "failed" promises nothing about the pull request once Org B  *)
(* has begun: its work, and its requests, may outlive the answer.          *)
(***************************************************************************)
CONSTANT Repos

VARIABLES
  stage,   \* how far the run's authority has come
  target,  \* the repository the user named
  requested, \* writes asked of Gitea
  branch,  \* repositories with a branch of this run
  pull,    \* repositories with a pull request of this run
  answer   \* what the user was told; "lost" when nobody is left to tell

vars == <<stage, target, requested, branch, pull, answer>>

Stages == {"idle", "asked", "delegated", "authorised", "ended"}

TypeOK ==
  /\ stage \in Stages /\ target \in Repos
  /\ requested \subseteq {"push-file", "open-pr"}
  /\ branch \subseteq Repos /\ pull \subseteq Repos
  /\ answer \in {"none", "ok", "failed", "lost"}

Init ==
  /\ stage = "idle" /\ target \in Repos
  /\ requested = {} /\ branch = {} /\ pull = {} /\ answer = "none"

Ask ==
  /\ stage = "idle"
  /\ stage' = "asked" /\ target' \in Repos
  /\ UNCHANGED <<requested, branch, pull, answer>>

\* Org B accepts the ticket.
Delegate ==
  /\ stage = "asked" /\ answer = "none"
  /\ stage' = "delegated"
  /\ UNCHANGED <<target, requested, branch, pull, answer>>

\* Org B gives the Sub-Agent a token to write with.
Authorise ==
  /\ stage = "delegated"
  /\ stage' = "authorised"
  /\ UNCHANGED <<target, requested, branch, pull, answer>>

RequestBranch ==
  /\ stage = "authorised" /\ "push-file" \notin requested
  /\ requested' = requested \cup {"push-file"}
  /\ UNCHANGED <<stage, target, branch, pull, answer>>

RequestPull ==
  /\ stage = "authorised" /\ "open-pr" \notin requested
  /\ target \in branch
  /\ requested' = requested \cup {"open-pr"}
  /\ UNCHANGED <<stage, target, branch, pull, answer>>

\* What was requested appears, whatever has become of the work.
Push ==
  /\ "push-file" \in requested /\ branch = {}
  /\ branch' = {target}
  /\ UNCHANGED <<stage, target, requested, pull, answer>>

Open ==
  /\ "open-pr" \in requested /\ pull = {}
  /\ pull' = {target}
  /\ UNCHANGED <<stage, target, requested, branch, answer>>

\* Nobody in Org B works for the run any more.
Finish ==
  /\ stage \in {"delegated", "authorised"}
  /\ stage' = "ended"
  /\ UNCHANGED <<target, requested, branch, pull, answer>>

AnswerOk ==
  /\ stage = "ended" /\ pull = {target} /\ answer = "none"
  /\ answer' = "ok"
  /\ UNCHANGED <<stage, target, requested, branch, pull>>

AnswerFailed ==
  /\ stage # "idle" /\ answer = "none"
  /\ answer' = "failed"
  /\ UNCHANGED <<stage, target, requested, branch, pull>>

Die ==
  /\ stage # "idle" /\ answer = "none"
  /\ answer' = "lost"
  /\ UNCHANGED <<stage, target, requested, branch, pull>>

Respond == AnswerOk \/ AnswerFailed \/ Die

Next ==
  \/ Ask \/ Delegate \/ Authorise \/ RequestBranch \/ RequestPull \/ Push \/ Open
  \/ Finish \/ Respond

Spec == Init /\ [][Next]_vars
=============================================================================
