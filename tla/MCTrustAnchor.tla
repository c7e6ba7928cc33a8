---------------------------- MODULE MCTrustAnchor ----------------------------
(***************************************************************************)
(* TrustAnchor for two trust authorities, with an agent of each and one or *)
(* two passes of the bootstrap.                                            *)
(***************************************************************************)
EXTENDS TrustAnchor

OrgOf == [a \in Clients |-> IF a = "opencode" THEN "org-a" ELSE "org-b"]

=============================================================================
