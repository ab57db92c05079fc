------------------------ MODULE MCPerformanceImport -------------------------
(* Instances of PerformanceImport for TLC. *)
EXTENDS PerformanceImport, TLC

CONSTANTS i1, i2, w1, w2

OneImport  == {i1}
OneWorker  == {w1}
TwoWorkers == {w1, w2}
=============================================================================
