--------------------------- MODULE MCRunExecution ---------------------------
(* Instances of RunExecution for TLC. *)
EXTENDS RunExecution, TLC

CONSTANTS t1, t2, c1, c2

TwoRequests == {t1, t2}
RequestSymmetry == Permutations(TwoRequests)
OneCase     == {c1}
OneScenario == {1}
OneOrTwoScenarios == {1, 2}
FewOutcomes == {"in_progress", "passed", "failure"}
=============================================================================
