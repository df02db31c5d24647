---------------------------- MODULE MCAuditSteps ----------------------------
(* TLC instances of AuditSteps: two steps, the second of which depends on the *)
(* first; contents on which only one, or both, or none of them pass.         *)
EXTENDS AuditSteps, TLC

CONSTANTS one, two, both

Symmetry   == Permutations(Runners)
MCContents == {one, two, both}
MCDeps     == (1 :> {}) @@ (2 :> {1})
MCGood     == (1 :> {one, both} \cap Contents) @@ (2 :> {two, both} \cap Contents)
MCOut      == (1 :> Contents) @@ (2 :> {two, both} \cap Contents)
=============================================================================
