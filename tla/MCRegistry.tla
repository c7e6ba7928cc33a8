----------------------------- MODULE MCRegistry -----------------------------
(* Constants for model-checking Registry: three calls of OpenCode, one of *)
(* them for another repository, and thus another intent.                  *)
EXTENDS Registry, TLC

CONSTANTS h1, h2, h3, payments, other, opencode

MCHandlers  == {h1, h2, h3}
MCGrants    == {payments, other}
MCGrantOf   == (h3 :> other) @@ [h \in {h1, h2} |-> payments]
MCSubjectOf == [g \in MCGrants |-> opencode]
MCSymmetry  == Permutations({h1, h2})
=============================================================================
