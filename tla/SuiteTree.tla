----------------------------- MODULE SuiteTree ------------------------------
(***************************************************************************)
(* The suite tree of one project: suites are created, renamed, moved and   *)
(* deleted by requests that check the tree with one query per level and    *)
(* take no lock (modules/test_cases/services/suites.py).  Every query      *)
(* reads what is committed at that moment; an object the session still     *)
(* holds keeps the parent it was loaded with.  A request writes at its     *)
(* end, and its changes appear at its commit.                              *)
(*                                                                         *)
(* Left out: names, positions, counts, permissions, and the test cases and *)
(* attachments a deletion takes with it.                                   *)
(***************************************************************************)
EXTENDS SuiteForest, Sequences

CONSTANTS Requests,
          MaxRequests,      \* bound: requests that are begun
          MaxTodo           \* bound: suites a deletion has still to list when it
                            \* meets one again

ASSUME RequestsAreBounded == MaxRequests \in Nat /\ MaxTodo \in Nat

VARIABLES tx,       \* what each request is at
          begun     \* requests begun
vars == << tree, tx, begun >>

Kinds == {"create", "patch", "delete"}

(* op, suite, target: the request.  kept: parents of the objects the        *)
(* session holds.  at: the id to be fetched next.  seen: ids visited by     *)
(* the walk, or collected for deletion.  depth: levels counted, up to       *)
(* MAX_SUITE_DEPTH.  todo: suites whose children are still to be listed.    *)
(* others (history): what requests that committed in the meantime did.     *)
NoObjects == [s \in {} |-> Root]
Idle == [op |-> "idle", suite |-> Root, target |-> Root, phase |-> "idle",
         kept |-> NoObjects, at |-> Root, seen |-> {}, depth |-> 0,
         todo |-> << >>, others |-> {}]

\* Mutant: nothing looks whether the row was found.
Live_NotLooked(s) == s \in Suites

Live(s) == s \in Suites /\ IsRow(tree, s)

\* What a fetch of suite s gives as its parent.
Loaded(t, s) == IF s \in DOMAIN t.kept THEN t.kept[s] ELSE tree[s]
Keep(t, s) == [x \in DOMAIN t.kept \cup {s} |-> Loaded(t, x)]
\* The function's locals hold the suite, its parent-to-be and one more.
KeepOnly(t, s) ==
  [x \in (DOMAIN t.kept \cap {t.suite, t.target}) \cup {s} |-> Loaded(t, x)]

Step(r, t) == tx' = [tx EXCEPT ![r] = t] /\ UNCHANGED << tree, begun >>
\* The request fails or is refused: everything is rolled back.
Refuse(r) == Step(r, Idle)

-----------------------------------------------------------------------------
Begin(r, t) ==
  /\ tx[r].op = "idle"
  /\ begun < MaxRequests
  /\ begun' = begun + 1
  /\ tx' = [tx EXCEPT ![r] = t]
  /\ UNCHANGED tree

FirstPhase(target) == IF target = Root THEN "write" ELSE "parent"

\* POST /suites: the new suite s has an id of its own.
BeginCreate(r, s, target) ==
  /\ tree[s] = Unborn
  /\ \A o \in Requests : tx[o].suite # s
  /\ Begin(r, [Idle EXCEPT !.op = "create", !.suite = s, !.target = target,
                           !.phase = FirstPhase(target)])

\* PATCH /suites/{s}.  Without a parent_id in it, the parent read is checked.
BeginPatch(r, s, target) ==
  /\ Live(s)
  /\ Begin(r, [Idle EXCEPT !.op = "patch", !.suite = s, !.target = target,
                           !.phase = FirstPhase(target),
                           !.kept = [x \in {s} |-> tree[s]]])

\* DELETE /suites/{s}.
BeginDelete(r, s) ==
  /\ Live(s)
  /\ Begin(r, [Idle EXCEPT !.op = "delete", !.suite = s, !.phase = "collect",
                           !.kept = [x \in {s} |-> tree[s]], !.seen = {s},
                           !.todo = << s >>])

-----------------------------------------------------------------------------
(* _validate_suite_parent. *)

\* The parent must exist and differ from the suite.
FetchParent(r) ==
  LET t == tx[r] IN
  /\ t.phase = "parent"
  /\ IF Live(t.target) /\ t.target # t.suite
     THEN Step(r, [t EXCEPT !.phase = "cycle", !.seen = {t.target},
                            !.at = Loaded(t, t.target),
                            !.kept = Keep(t, t.target)])
     ELSE Refuse(r)

\* Mutant: the walk does not compare, only the parent itself is.
MeetsItself_Never(t) == FALSE

\* A patch meets its own suite among the ancestors of its parent-to-be.
MeetsItself(t) == t.op = "patch" /\ t.at = t.suite

StartDepth(t) ==
  [t EXCEPT !.phase = "depth", !.depth = 1, !.at = Loaded(t, t.target)]

\* One turn of the loop that looks for a cycle.
WalkUp(r) ==
  LET t == tx[r] IN
  /\ t.phase = "cycle"
  /\ IF ~Live(t.at) THEN Step(r, StartDepth(t))
     ELSE IF MeetsItself(t) THEN Refuse(r)
     ELSE IF t.at \in t.seen
          THEN Step(r, StartDepth([t EXCEPT !.kept = KeepOnly(t, t.at)]))
     ELSE Step(r, [t EXCEPT !.seen = @ \cup {t.at}, !.at = Loaded(t, t.at),
                            !.kept = KeepOnly(t, t.at)])

\* Mutant: the level the suite itself takes is forgotten.
TooDeep_OffByOne(t) == t.depth > MAX_SUITE_DEPTH

TooDeep(t) == t.depth >= MAX_SUITE_DEPTH

\* One turn of _get_suite_depth, which does not look where it has been.
CountLevel(r) ==
  LET t == tx[r] IN
  /\ t.phase = "depth"
  /\ IF Live(t.at)
     THEN Step(r, [t EXCEPT !.at = Loaded(t, t.at),
                            !.depth = IF TooDeep(t) THEN @ ELSE @ + 1])
     ELSE IF TooDeep(t) THEN Refuse(r)
     ELSE Step(r, [t EXCEPT !.phase = "write"])

-----------------------------------------------------------------------------
\* The commit of request r leaves the tree p.
Commit(r, p) ==
  /\ tree' = p
  /\ tx' = [o \in Requests |->
              IF o = r THEN Idle
              ELSE IF tx[o].op # "idle" /\ p # tree
                   THEN [tx[o] EXCEPT !.others = @ \cup {tx[r].op}]
                   ELSE tx[o]]
  /\ UNCHANGED begun

\* The foreign key refuses a parent whose row is gone.
ParentExists(t) == t.target = Root \/ Live(t.target)

WriteCreate(r) ==
  LET t == tx[r] IN
  /\ t.op = "create" /\ t.phase = "write"
  /\ IF ParentExists(t)
     THEN Commit(r, [tree EXCEPT ![t.suite] = t.target])
     ELSE Refuse(r)

\* A column is written only when its value differs from the one loaded; an
\* update that finds no row fails.
Moves(t) == t.target # t.kept[t.suite]

WritePatch(r) ==
  LET t == tx[r] IN
  /\ t.op = "patch" /\ t.phase = "write"
  /\ IF ~Live(t.suite) \/ (Moves(t) /\ ~ParentExists(t)) THEN Refuse(r)
     ELSE Commit(r, IF Moves(t) THEN [tree EXCEPT ![t.suite] = t.target]
                    ELSE tree)

-----------------------------------------------------------------------------
(* delete_suite. *)

Children(s) == {c \in Suites : tree[c] = s}
\* Mutant: only the suite's own children are collected.
Orders_NotBelow(S) == {<< >>}

\* The query says nothing of the order of the children.
Orders(S) == {q \in [1 .. Cardinality(S) -> S] : \A s \in S : \E k \in DOMAIN q : q[k] = s}

\* _get_suite_ids_to_delete_order does not look where it has been: a suite that
\* was moved in the meantime is collected and listed again, and round a cycle
\* the recursion goes on until it ends with an error.
ListChildren(r) ==
  LET t == tx[r]
      found == Children(Head(t.todo))
      metAgain == found \cap t.seen # {}
  IN
  /\ t.phase = "collect" /\ t.todo # << >>
  /\ \/ metAgain /\ ~NoCycle(tree) /\ Refuse(r)
     \/ /\ metAgain => Len(t.todo) <= MaxTodo
        /\ \E order \in Orders(found) :
             Step(r, [t EXCEPT !.seen = @ \cup found, !.todo = order \o Tail(@)])

\* Rows collected are deleted if they are still there; ON DELETE SET NULL.
Without(S) ==
  [s \in Suites |->
     IF s \in S /\ Live(s) THEN Gone
     ELSE IF tree[s] \in S THEN Root ELSE tree[s]]

WriteDelete(r) ==
  LET t == tx[r] IN
  /\ t.phase = "collect" /\ t.todo = << >>
  /\ Commit(r, Without(t.seen))

-----------------------------------------------------------------------------
Next ==
  \E r \in Requests :
    \/ \E s \in Suites, target \in Suites \cup {Root} : BeginCreate(r, s, target)
    \/ \E s \in Suites, target \in Suites \cup {Root} : BeginPatch(r, s, target)
    \/ \E s \in Suites : BeginDelete(r, s)
    \/ FetchParent(r) \/ WalkUp(r) \/ CountLevel(r)
    \/ WriteCreate(r) \/ WritePatch(r)
    \/ ListChildren(r) \/ WriteDelete(r)

Init ==
  /\ ForestInit
  /\ tx = [r \in Requests |-> Idle]
  /\ begun = 0

Spec == Init /\ [][Next]_vars

-----------------------------------------------------------------------------
TypeOK ==
  /\ tree \in [Suites -> Suites \cup {Root, Unborn, Gone}]
  /\ begun \in 0 .. MaxRequests
  /\ DOMAIN tx = Requests
  /\ \A r \in Requests :
       LET t == tx[r] IN
       /\ t.op \in {"idle"} \cup Kinds
       /\ t.phase \in {"idle", "parent", "cycle", "depth", "write", "collect"}
       /\ t.suite \in Suites \cup {Root} /\ t.target \in Suites \cup {Root}
       /\ t.at \in Suites \cup {Root}
       /\ t.seen \subseteq Suites
       /\ DOMAIN t.kept \subseteq Suites
       /\ \A s \in DOMAIN t.kept : t.kept[s] \in Suites \cup {Root}
       /\ t.depth \in 0 .. MAX_SUITE_DEPTH
       /\ t.others \subseteq Kinds

Ends(r) == tx[r].op # "idle" /\ tx'[r].op = "idle"
Overlaps(r, kind) == kind \in tx[r].others

\* The tree stays free of cycles unless a move commits while another move,
\* which it did not see, has been committed since it began: the checks of one
\* move hold up against every concurrent creation and deletion.
CyclesNeedOverlappingMoves ==
  [][NoCycle(tree) /\ ~NoCycle(tree') =>
       \E r \in Requests : Ends(r) /\ tx[r].op = "patch" /\ Overlaps(r, "patch")]_vars

\* Every commit is one step of SuiteForest on the tree it finds, although its
\* checks read the tree level by level: a creation or a move that no committed
\* move overlapped, and a deletion during which the tree did not change.
CommitsAreAtomic ==
  [][\A r \in Requests :
       LET t == tx[r] IN
       tree' # tree /\ Ends(r) =>
         \/ t.op = "create" /\ (CreateSuite(t.suite, t.target) \/ Overlaps(r, "patch"))
         \/ t.op = "patch" /\ (MoveSuite(t.suite, t.target) \/ Overlaps(r, "patch"))
         \/ t.op = "delete" /\ (DeleteSuite(t.suite) \/ t.others # {})]_vars

\* A suite lies beyond the nesting limit only if it did so before, at the same
\* place, or if it lies below a suite that is being moved, or if the request was
\* overlapped by a move: no creation and no deletion takes a suite there, and
\* no move takes there the suite that it moves.
OnlyMovesExceedLimit ==
  [][\A s \in Suites :
       IsRow(tree', s) /\ Depth(tree', s) > MAX_SUITE_DEPTH =>
         \/ tree'[s] = tree[s] /\ Depth(tree', s) <= Depth(tree, s)
         \/ \E r \in Requests :
              /\ Ends(r)
              /\ \/ Overlaps(r, "patch")
                 \/ tx[r].op = "patch" /\ tx[r].suite \in Lineage(tree', s) \ {s}]_vars

\* "suite nesting is limited to 4 levels", with requests one at a time.
NestingIsLimited == WithinLimit(tree)
=============================================================================
