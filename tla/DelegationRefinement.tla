------------------------ MODULE DelegationRefinement ------------------------
(***************************************************************************)
(* The delegation implements Remediation, run by run: the state of a run's *)
(* promise computed from the positions, reports and writes of its three    *)
(* handlers.                                                               *)
(***************************************************************************)
EXTENDS Delegation

\* Authority is where the last handler that was given any still works.
StageOf(r) ==
  CASE opc[r] = "idle" -> "idle"
    [] opc[r] # "idle" /\ tpc[r] = "idle" -> "asked"
    [] tpc[r] # "idle" /\ ~TrBusy(r) /\ ~SaBusy(r) -> "ended"
    [] OTHER -> IF ssteps[r]["kc-b-exchange"] = "ok" THEN "authorised" ELSE "delegated"

AnswerOf(r) == IF opc[r] = "crashed" THEN "lost" ELSE verdict[r]

ReposIn(writes) == {w.repo : w \in writes}

RequestsOf(r) == {call.action : call \in {c \in sent : c.run = r}}

Promise(r) == INSTANCE Remediation WITH
  stage <- StageOf(r),
  target <- task[r].repo,
  requested <- RequestsOf(r),
  branch <- ReposIn(BranchesOf(r)),
  pull <- ReposIn(PullsOf(r)),
  answer <- AnswerOf(r)

\* Every run keeps the promise: "ok" is said only of finished work with a pull
\* request on the repository asked for, nothing begins in Org B for a user already
\* refused, and nothing is written that was not asked for while Org B authorised it,
\* nor elsewhere, however late Gitea writes it.
KeepsPromise ==
  /\ \A r \in Runs : Promise(r)!Init
  /\ [][\A r \in Runs : [Promise(r)!Next]_(Promise(r)!vars)]_vars
=============================================================================
