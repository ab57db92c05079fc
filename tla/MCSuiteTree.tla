---------------------------- MODULE MCSuiteTree -----------------------------
(* Instances of SuiteTree for TLC. *)
EXTENDS SuiteTree, TLC

CONSTANTS r1, r2, s1, s2, s3, s4, s5

OneRequest  == {r1}
TwoRequests == {r1, r2}
FourSuites  == {s1, s2, s3, s4}
FiveSuites  == {s1, s2, s3, s4, s5}
\* Suites are interchangeable, and so are requests.
Symmetry == Permutations(TwoRequests) \cup Permutations(FourSuites)
=============================================================================
