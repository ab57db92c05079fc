---------------------------- MODULE SuiteForest ----------------------------
(***************************************************************************)
(* What the suite tree of a project promises to those who edit it, as if   *)
(* every request were one step: a suite is created below a suite that has  *)
(* room, is moved to a suite that has room and is not below it, or is      *)
(* deleted with all that is below it.                                      *)
(*                                                                         *)
(* A move looks at the level of the suite that is moved only: what is      *)
(* below it may get deeper than the limit.                                 *)
(***************************************************************************)
EXTENDS Naturals, FiniteSets

CONSTANTS Suites,
          Root,             \* parent_id NULL
          Unborn, Gone,     \* no row yet, row deleted: ids are not used twice
          MAX_SUITE_DEPTH

\* The suites of a project are the rows of a table.
ASSUME SuitesAreFinite == IsFiniteSet(Suites)
ASSUME MarksAreNoSuites ==
  /\ {Root, Unborn, Gone} \cap Suites = {}
  /\ Root # Unborn /\ Root # Gone /\ Unborn # Gone
ASSUME DepthIsPositive == MAX_SUITE_DEPTH \in Nat \ {0}

VARIABLE tree     \* committed parent of every suite

IsRow(p, s) == p[s] \in Suites \cup {Root}

\* A set of suites that holds the parents of its members.
Upward(p, S) == \A s \in S : p[s] \in Suites => p[s] \in S

\* The suite s with all its ancestors: the least such set that holds s.
Lineage(p, s) == {a \in Suites : \A S \in SUBSET Suites : s \in S /\ Upward(p, S) => a \in S}
Depth(p, s) == Cardinality(Lineage(p, s))
Subtree(p, s) == {d \in Suites : IsRow(p, d) /\ s \in Lineage(p, d)}

\* No set of suites in which every parent is in the set again.
NoCycle(p) == \A S \in SUBSET Suites : S # {} => \E s \in S : p[s] \notin S
ParentsExist(p) == \A s \in Suites : p[s] \in Suites => IsRow(p, p[s])
WithinLimit(p) == \A s \in Suites : IsRow(p, s) => Depth(p, s) <= MAX_SUITE_DEPTH

-----------------------------------------------------------------------------
\* A suite at this place would be within the limit.
HasRoom(target) ==
  target = Root \/ (target \in Suites /\ IsRow(tree, target) /\ Depth(tree, target) < MAX_SUITE_DEPTH)

CreateSuite(s, target) ==
  /\ tree[s] = Unborn /\ HasRoom(target)
  /\ tree' = [tree EXCEPT ![s] = target]

MoveSuite(s, target) ==
  /\ IsRow(tree, s) /\ HasRoom(target)
  /\ target # Root => s \notin Lineage(tree, target)
  /\ tree' = [tree EXCEPT ![s] = target]

DeleteSuite(s) ==
  /\ IsRow(tree, s)
  /\ tree' = [d \in Suites |-> IF d \in Subtree(tree, s) THEN Gone ELSE tree[d]]

\* A tree that requests have already built.
ForestInit ==
  tree \in {p \in [Suites -> Suites \cup {Root, Unborn}] :
              ParentsExist(p) /\ NoCycle(p) /\ WithinLimit(p)}

ForestNext ==
  \E s \in Suites :
    \/ DeleteSuite(s)
    \/ \E target \in Suites \cup {Root} : CreateSuite(s, target) \/ MoveSuite(s, target)

ForestSpec == ForestInit /\ [][ForestNext]_tree
=============================================================================
