------------------------- MODULE MCResourceBoundary -------------------------
(* Constants for model-checking ResourceBoundary. *)
EXTENDS ResourceBoundary, TLC

CONSTANTS w1, w2, s1, s2

MCWorkers == {w1, w2}
MCSuffixes == {s1, s2}
MCRepos  == {"demo-admin/payments-service", "demo-admin/demo-protected",
             "demo-admin/other"}
MCProtected == {"demo-admin/demo-protected"}
MCBadgeRepos == {"demo-admin/payments-service"}
MCSeeded == MCBadgeRepos \cup MCProtected
MCFindings == {"CWE-89"}
MCSymmetry == Permutations(MCWorkers)
=============================================================================
