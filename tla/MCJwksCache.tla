---------------------------- MODULE MCJwksCache ----------------------------
(* Constants for model-checking JwksCache. *)
EXTENDS JwksCache, TLC

MCKids == {"org-a-v1", "org-a-v2"}
MCSymmetry == Permutations(Threads)
=============================================================================
