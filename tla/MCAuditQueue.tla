--------------------------- MODULE MCAuditQueue ---------------------------
EXTENDS AuditQueue, TLC

CONSTANTS created, updated, w1, w2, t1, t2, t3

\* Events, workers and job ids are interchangeable.
Symmetry == Permutations(Workers) \cup Permutations(Entries) \cup Permutations(JobIds)
===========================================================================
