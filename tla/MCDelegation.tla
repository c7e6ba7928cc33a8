---------------------------- MODULE MCDelegation ----------------------------
(* Constants for model-checking Delegation and its refinement of Remediation. *)
EXTENDS DelegationRefinement

MCRepos    == {"demo-admin/payments-service", "demo-admin/demo-protected",
               "demo-admin/other", "elsewhere/other"}
MCOwn      == MCRepos \ {"elsewhere/other"}
MCProtected == {"demo-admin/demo-protected"}
MCBadgeRepos == {"demo-admin/payments-service"}
MCFindings == {"CWE-89", "SQLI-1"}
MCWellFormed == {"CWE-89"}
=============================================================================
