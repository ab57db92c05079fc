-------------------------- MODULE SuiteTreeProofs ---------------------------
(***************************************************************************)
(* The suite tree, for any set of suites and of requests: types; a cycle   *)
(* can only be closed by a move that overlapped another move; every other  *)
(* commit is one step of SuiteForest; what may get below the limit; and    *)
(* requests one at a time implement SuiteForest.                           *)
(*                                                                         *)
(* The argument (IInv, then WalkIInv): the ids a move has visited on its   *)
(* way up are closed under "parent", but for the id it will fetch next,    *)
(* and its own suite is not one of them; the levels it has counted are     *)
(* those of such a set; what a deletion has collected is closed under      *)
(* "child", but for the suites it still has to list.  Creations add leaves *)
(* and deletions cut edges, so neither disturbs what a move has seen; only *)
(* another move can.                                                       *)
(***************************************************************************)
EXTENDS SuiteTree, FiniteSetTheorems, TLAPS

\* The part of the tree a move has seen, while no other move is committed.
SeenIsClosed(t) ==
  \A w \in t.seen :
    tree[w] \in Suites =>
      tree[w] \in t.seen \/ (t.phase = "cycle" /\ tree[w] = t.at)

Walked(t) == t.phase \in {"cycle", "depth"} \/ (t.phase = "write" /\ t.target # Root)

Fields == {"op", "suite", "target", "phase", "kept", "at", "seen", "depth",
           "todo", "others"}
\* A request is a record of these fields, and what it has seen are suites.
Shaped(t) == t = [f \in Fields |-> t[f]] /\ t.seen \subseteq Suites

MoveOK(t) ==
  t.op = "patch" /\ "patch" \notin t.others =>
    /\ t.suite \in Suites
    /\ t.phase \in {"parent", "cycle", "depth", "write"}
    /\ t.phase = "parent" => DOMAIN t.kept = {t.suite}
    /\ Walked(t) =>
         /\ t.target \in t.seen
         /\ t.suite \notin t.seen
         /\ t.seen \subseteq Suites
         /\ \A w \in t.seen : tree[w] # Unborn
         /\ DOMAIN t.kept \subseteq {t.suite} \cup t.seen
         /\ SeenIsClosed(t)

CreateOK(t) ==
  t.op = "create" => t.suite \in Suites /\ tree[t.suite] = Unborn

FreshIds ==
  \A a, b \in Requests :
    a # b /\ tx[a].op = "create" /\ tx[b].op = "create" => tx[a].suite # tx[b].suite

IInv ==
  /\ tree \in [Suites -> Suites \cup {Root, Unborn, Gone}]
  /\ tx = [r \in Requests |-> tx[r]]
  /\ ParentsExist(tree)
  /\ \A r \in Requests : Shaped(tx[r]) /\ MoveOK(tx[r]) /\ CreateOK(tx[r])
  /\ FreshIds

-----------------------------------------------------------------------------
(* Lemmas about one tree p and its successor q. *)

\* A creation adds a leaf, and closes no cycle.
LEMMA LeafClosesNoCycle ==
  ASSUME NEW p \in [Suites -> Suites \cup {Root, Unborn, Gone}],
         ParentsExist(p), NoCycle(p),
         NEW s \in Suites, p[s] = Unborn,
         NEW target, target = Root \/ (target \in Suites /\ IsRow(p, target))
  PROVE  NoCycle([p EXCEPT ![s] = target])
<1> DEFINE q == [p EXCEPT ![s] = target]
<1> SUFFICES ASSUME NEW S \in SUBSET Suites, S # {}, \A x \in S : q[x] \in S
             PROVE  FALSE
    BY DEF NoCycle
<1>1. \A x \in S \ {s} : p[x] \in S \ {s}
  <2> SUFFICES ASSUME NEW x \in S \ {s} PROVE p[x] \in S \ {s}
      OBVIOUS
  <2>1. q[x] = p[x] /\ p[x] \in S
        OBVIOUS
  <2>2. IsRow(p, p[x])
        BY <2>1 DEF ParentsExist
  <2>3. ~IsRow(p, s)
        BY MarksAreNoSuites DEF IsRow
  <2> QED
      BY <2>1, <2>2, <2>3
<1>2. S \ {s} # {}
  <2>1. CASE s \in S
    <3>1. target \in S
          BY <2>1
    <3>2. target # s
          BY <3>1, MarksAreNoSuites DEF IsRow
    <3> QED
        BY <3>1, <3>2
  <2>2. CASE s \notin S
        BY <2>2
  <2> QED
      BY <2>1, <2>2
<1> QED
    BY <1>1, <1>2 DEF NoCycle

\* A deletion only cuts edges, and closes no cycle.
LEMMA CuttingClosesNoCycle ==
  ASSUME NEW p, NEW q, NoCycle(p),
         \A x \in Suites : q[x] \in Suites => q[x] = p[x]
  PROVE  NoCycle(q)
<1> SUFFICES ASSUME NEW S \in SUBSET Suites, S # {}, \A x \in S : q[x] \in S
             PROVE  FALSE
    BY DEF NoCycle
<1>1. \A x \in S : p[x] \in S
      OBVIOUS
<1> QED
    BY <1>1 DEF NoCycle

\* A move closes no cycle when a set that is closed under "parent" holds the
\* new parent and not the suite.
LEMMA MoveOutsideClosesNoCycle ==
  ASSUME NEW p \in [Suites -> Suites \cup {Root, Unborn, Gone}], NoCycle(p),
         NEW s \in Suites, NEW target \in Suites,
         NEW W \in SUBSET Suites, target \in W, s \notin W,
         \A w \in W : p[w] \in Suites => p[w] \in W
  PROVE  NoCycle([p EXCEPT ![s] = target])
<1> DEFINE q == [p EXCEPT ![s] = target]
<1> SUFFICES ASSUME NEW S \in SUBSET Suites, S # {}, \A x \in S : q[x] \in S
             PROVE  FALSE
    BY DEF NoCycle
<1>1. CASE s \notin S
  <2>1. \A x \in S : p[x] \in S
        BY <1>1
  <2> QED
      BY <2>1 DEF NoCycle
<1>2. CASE s \in S
  <2>1. target \in S \cap W
        BY <1>2
  <2>2. \A x \in S \cap W : p[x] \in S \cap W
        OBVIOUS
  <2>3. S \cap W \in SUBSET Suites /\ S \cap W # {}
        BY <2>1
  <2> QED
      BY <2>2, <2>3 DEF NoCycle
<1> QED
    BY <1>1, <1>2

\* A top-level suite is on no cycle.
LEMMA MoveToRootClosesNoCycle ==
  ASSUME NEW p \in [Suites -> Suites \cup {Root, Unborn, Gone}], NoCycle(p),
         NEW s \in Suites
  PROVE  NoCycle([p EXCEPT ![s] = Root])
<1>1. \A x \in Suites : [p EXCEPT ![s] = Root][x] \in Suites =>
                          [p EXCEPT ![s] = Root][x] = p[x]
      BY MarksAreNoSuites
<1> QED
    BY <1>1, CuttingClosesNoCycle

-----------------------------------------------------------------------------
(* Each action preserves IInv. *)

\* A request takes a step that leaves the tree alone.
LEMMA StepKeepsIInv ==
  ASSUME IInv, NEW r \in Requests, NEW t, tx' = [tx EXCEPT ![r] = t], UNCHANGED tree,
         Shaped(t), MoveOK(t), CreateOK(t),
         t.op = "create" =>
           \A o \in Requests \ {r} : tx[o].op = "create" => tx[o].suite # t.suite
  PROVE  IInv'
<1>1. tx'[r] = t /\ \A o \in Requests \ {r} : tx'[o] = tx[o]
      BY DEF IInv
<1>2. tx' = [o \in Requests |-> tx'[o]]
      BY DEF IInv
<1>3. \A o \in Requests : Shaped(tx[o])' /\ MoveOK(tx[o])' /\ CreateOK(tx[o])'
  <2> SUFFICES ASSUME NEW o \in Requests
               PROVE  Shaped(tx[o])' /\ MoveOK(tx[o])' /\ CreateOK(tx[o])'
      OBVIOUS
  <2>1. Shaped(tx'[o]) /\ MoveOK(tx'[o]) /\ CreateOK(tx'[o])
        BY <1>1 DEF IInv
  <2> QED
      BY <2>1 DEF Shaped, MoveOK, CreateOK, SeenIsClosed, Walked
<1>4. FreshIds'
      BY <1>1 DEF IInv, FreshIds
<1> QED
    BY <1>2, <1>3, <1>4 DEF IInv

\* The same for Step, where the request keeps the suite it is about.
LEMMA OwnStepKeepsIInv ==
  ASSUME IInv, NEW r \in Requests, NEW t, Step(r, t), Shaped(t), MoveOK(t),
         t.op = tx[r].op, t.suite = tx[r].suite
  PROVE  IInv'
<1>1. CreateOK(t)
      BY DEF IInv, CreateOK
<1>2. t.op = "create" =>
        \A o \in Requests \ {r} : tx[o].op = "create" => tx[o].suite # t.suite
      BY DEF IInv, FreshIds
<1> QED
    BY <1>1, <1>2, StepKeepsIInv DEF Step

LEMMA RefuseKeepsIInv ==
  ASSUME IInv, NEW r \in Requests, Refuse(r)
  PROVE  IInv'
<1>1. Shaped(Idle) /\ MoveOK(Idle) /\ CreateOK(Idle) /\ Idle.op # "create"
      BY DEF Shaped, Fields, MoveOK, CreateOK, Idle
<1> QED
    BY <1>1, StepKeepsIInv DEF Refuse, Step

LEMMA BeginCreateKeepsIInv ==
  ASSUME IInv, NEW r \in Requests, NEW s \in Suites, NEW target \in Suites \cup {Root},
         BeginCreate(r, s, target)
  PROVE  IInv'
<1> DEFINE t == [Idle EXCEPT !.op = "create", !.suite = s, !.target = target,
                             !.phase = FirstPhase(target)]
<1>1. t.op = "create" /\ t.suite = s
      BY DEF Idle
<1>2. MoveOK(t) /\ CreateOK(t)
      BY <1>1 DEF MoveOK, CreateOK, BeginCreate
<1>3. tx' = [tx EXCEPT ![r] = t] /\ UNCHANGED tree /\ Shaped(t)
      BY DEF BeginCreate, Begin, Shaped, Fields, Idle
<1>4. \A o \in Requests : tx[o].suite # s
      BY DEF BeginCreate
<1> QED
    BY <1>1, <1>2, <1>3, <1>4, StepKeepsIInv

LEMMA BeginPatchKeepsIInv ==
  ASSUME IInv, NEW r \in Requests, NEW s \in Suites, NEW target \in Suites \cup {Root},
         BeginPatch(r, s, target)
  PROVE  IInv'
<1> DEFINE t == [Idle EXCEPT !.op = "patch", !.suite = s, !.target = target,
                             !.phase = FirstPhase(target),
                             !.kept = [x \in {s} |-> tree[s]]]
<1>1. /\ t.op = "patch" /\ t.suite = s /\ t.target = target
      /\ t.phase = FirstPhase(target) /\ DOMAIN t.kept = {s}
      BY DEF Idle
<1>2. MoveOK(t) /\ CreateOK(t)
      BY <1>1 DEF MoveOK, CreateOK, Walked, FirstPhase
<1>3. tx' = [tx EXCEPT ![r] = t] /\ UNCHANGED tree /\ Shaped(t)
      BY DEF BeginPatch, Begin, Shaped, Fields, Idle
<1> QED
    BY <1>1, <1>2, <1>3, StepKeepsIInv

LEMMA BeginDeleteKeepsIInv ==
  ASSUME IInv, NEW r \in Requests, NEW s \in Suites, BeginDelete(r, s)
  PROVE  IInv'
<1> DEFINE t == [Idle EXCEPT !.op = "delete", !.suite = s, !.phase = "collect",
                             !.kept = [x \in {s} |-> tree[s]], !.seen = {s},
                             !.todo = << s >>]
<1>1. t.op = "delete"
      BY DEF Idle
<1>2. MoveOK(t) /\ CreateOK(t)
      BY <1>1 DEF MoveOK, CreateOK
<1>3. tx' = [tx EXCEPT ![r] = t] /\ UNCHANGED tree /\ Shaped(t)
      BY DEF BeginDelete, Begin, Shaped, Fields, Idle
<1> QED
    BY <1>1, <1>2, <1>3, StepKeepsIInv

LEMMA FetchParentKeepsIInv ==
  ASSUME IInv, NEW r \in Requests, FetchParent(r)
  PROVE  IInv'
<1> DEFINE t == tx[r]
           u == [t EXCEPT !.phase = "cycle", !.seen = {t.target},
                          !.at = Loaded(t, t.target), !.kept = Keep(t, t.target)]
<1>1. CASE Refuse(r)
      BY <1>1, RefuseKeepsIInv
<1>2. CASE Live(t.target) /\ t.target # t.suite /\ Step(r, u)
  <2>1. Shaped(t) /\ MoveOK(t)
        BY DEF IInv
  <2>2. /\ Shaped(u) /\ u.op = t.op /\ u.suite = t.suite /\ u.target = t.target
        /\ u.phase = "cycle" /\ u.seen = {t.target} /\ u.at = Loaded(t, t.target)
        /\ u.kept = Keep(t, t.target) /\ u.others = t.others
        BY <2>1, <1>2 DEF Shaped, Fields, Live
  <2>3. MoveOK(u)
    <3> SUFFICES ASSUME t.op = "patch", "patch" \notin t.others PROVE MoveOK(u)
        BY <2>2 DEF MoveOK
    <3>1. DOMAIN t.kept = {t.suite} /\ t.suite \in Suites
          BY <2>1 DEF MoveOK, FetchParent
    <3>2. u.at = tree[t.target] /\ DOMAIN u.kept = {t.suite, t.target}
          BY <2>2, <3>1, <1>2 DEF Loaded, Keep
    <3>3. t.target \in Suites /\ tree[t.target] # Unborn
          BY <1>2, MarksAreNoSuites DEF Live, IsRow
    <3>4. SeenIsClosed(u)
          BY <2>2, <3>2 DEF SeenIsClosed
    <3> QED
        BY <2>2, <3>1, <3>2, <3>3, <3>4, <1>2 DEF MoveOK
  <2> QED
      BY <1>2, <2>2, <2>3, OwnStepKeepsIInv
<1> QED
    BY <1>1, <1>2 DEF FetchParent

LEMMA WalkUpKeepsIInv ==
  ASSUME IInv, NEW r \in Requests, WalkUp(r)
  PROVE  IInv'
<1> DEFINE t == tx[r]
           v == [t EXCEPT !.kept = KeepOnly(t, t.at)]
           w == [t EXCEPT !.seen = @ \cup {t.at}, !.at = Loaded(t, t.at),
                          !.kept = KeepOnly(t, t.at)]
<1>1. Shaped(t) /\ MoveOK(t) /\ t.phase = "cycle"
      BY DEF IInv, WalkUp
<1>2. CASE Refuse(r)
      BY <1>2, RefuseKeepsIInv
<1>3. CASE ~Live(t.at) /\ Step(r, StartDepth(t))
  <2> DEFINE u == StartDepth(t)
  <2>1. /\ Shaped(u) /\ u.op = t.op /\ u.suite = t.suite /\ u.target = t.target
        /\ u.phase = "depth" /\ u.seen = t.seen /\ u.kept = t.kept
        /\ u.others = t.others
        BY <1>1 DEF Shaped, Fields, StartDepth
  <2>2. MoveOK(u)
    <3> SUFFICES ASSUME t.op = "patch", "patch" \notin t.others PROVE MoveOK(u)
        BY <2>1 DEF MoveOK
    <3>1. SeenIsClosed(t) /\ t.seen \subseteq Suites
          BY <1>1 DEF MoveOK, Walked
    <3>2. \A x \in t.seen : tree[x] \in Suites => tree[x] # t.at
          BY <1>3, <3>1 DEF IInv, ParentsExist, Live
    <3>3. SeenIsClosed(u)
          BY <2>1, <3>1, <3>2 DEF SeenIsClosed
    <3> QED
        BY <1>1, <2>1, <3>3 DEF MoveOK, Walked
  <2> QED
      BY <1>3, <2>1, <2>2, OwnStepKeepsIInv
<1>4. CASE Live(t.at) /\ t.at \in t.seen /\ Step(r, StartDepth(v))
  <2> DEFINE u == StartDepth(v)
  <2>1. /\ Shaped(u) /\ u.op = t.op /\ u.suite = t.suite /\ u.target = t.target
        /\ u.phase = "depth" /\ u.seen = t.seen /\ u.kept = KeepOnly(t, t.at)
        /\ u.others = t.others
        BY <1>1 DEF Shaped, Fields, StartDepth
  <2>2. MoveOK(u)
    <3> SUFFICES ASSUME t.op = "patch", "patch" \notin t.others PROVE MoveOK(u)
        BY <2>1 DEF MoveOK
    <3>1. SeenIsClosed(u)
          BY <1>1, <1>4, <2>1 DEF MoveOK, Walked, SeenIsClosed
    <3>2. DOMAIN u.kept \subseteq {t.suite} \cup t.seen
          BY <1>1, <1>4, <2>1 DEF MoveOK, Walked, KeepOnly
    <3> QED
        BY <1>1, <2>1, <3>1, <3>2 DEF MoveOK, Walked
  <2> QED
      BY <1>4, <2>1, <2>2, OwnStepKeepsIInv
<1>5. CASE Live(t.at) /\ ~MeetsItself(t) /\ t.at \notin t.seen /\ Step(r, w)
  <2>1. /\ Shaped(w) /\ w.op = t.op /\ w.suite = t.suite /\ w.target = t.target
        /\ w.phase = "cycle" /\ w.seen = t.seen \cup {t.at}
        /\ w.at = Loaded(t, t.at) /\ w.kept = KeepOnly(t, t.at)
        /\ w.others = t.others
        BY <1>1, <1>5 DEF Shaped, Fields, Live
  <2>2. MoveOK(w)
    <3> SUFFICES ASSUME t.op = "patch", "patch" \notin t.others PROVE MoveOK(w)
        BY <2>1 DEF MoveOK
    <3>1. t.at # t.suite /\ t.at \in Suites /\ tree[t.at] # Unborn
          BY <1>5, MarksAreNoSuites DEF MeetsItself, Live, IsRow
    <3>2. w.at = tree[t.at]
          BY <1>1, <1>5, <2>1, <3>1 DEF MoveOK, Walked, Loaded
    <3>3. SeenIsClosed(w)
          BY <1>1, <2>1, <3>2 DEF MoveOK, Walked, SeenIsClosed
    <3>4. DOMAIN w.kept \subseteq {t.suite} \cup w.seen
          BY <1>1, <2>1 DEF MoveOK, Walked, KeepOnly
    <3> QED
        BY <1>1, <2>1, <3>1, <3>3, <3>4 DEF MoveOK, Walked
  <2> QED
      BY <1>5, <2>1, <2>2, OwnStepKeepsIInv
<1> QED
    BY <1>2, <1>3, <1>4, <1>5 DEF WalkUp

LEMMA CountLevelKeepsIInv ==
  ASSUME IInv, NEW r \in Requests, CountLevel(r)
  PROVE  IInv'
<1> DEFINE t == tx[r]
           u == [t EXCEPT !.at = Loaded(t, t.at), !.depth = IF TooDeep(t) THEN @ ELSE @ + 1]
           v == [t EXCEPT !.phase = "write"]
<1>1. Shaped(t) /\ MoveOK(t) /\ t.phase = "depth"
      BY DEF IInv, CountLevel
<1>2. CASE Refuse(r)
      BY <1>2, RefuseKeepsIInv
<1>3. CASE Step(r, u)
  <2>1. /\ Shaped(u) /\ u.op = t.op /\ u.suite = t.suite /\ u.target = t.target
        /\ u.phase = t.phase /\ u.seen = t.seen /\ u.kept = t.kept
        /\ u.others = t.others
        BY <1>1 DEF Shaped, Fields
  <2>2. MoveOK(u)
        BY <1>1, <2>1 DEF MoveOK, Walked, SeenIsClosed
  <2> QED
      BY <1>3, <2>1, <2>2, OwnStepKeepsIInv
<1>4. CASE Step(r, v)
  <2>1. /\ Shaped(v) /\ v.op = t.op /\ v.suite = t.suite /\ v.target = t.target
        /\ v.phase = "write" /\ v.seen = t.seen /\ v.kept = t.kept
        /\ v.others = t.others
        BY <1>1 DEF Shaped, Fields
  <2>2. MoveOK(v)
        BY <1>1, <2>1 DEF MoveOK, Walked, SeenIsClosed
  <2> QED
      BY <1>4, <2>1, <2>2, OwnStepKeepsIInv
<1> QED
    BY <1>2, <1>3, <1>4 DEF CountLevel

LEMMA ListChildrenKeepsIInv ==
  ASSUME IInv, NEW r \in Requests, ListChildren(r)
  PROVE  IInv'
<1> DEFINE t == tx[r]
           found == Children(Head(t.todo))
<1>1. CASE Refuse(r)
      BY <1>1, RefuseKeepsIInv
<1>2. ASSUME NEW order \in Orders(found),
             Step(r, [t EXCEPT !.seen = @ \cup found, !.todo = order \o Tail(@)])
      PROVE  IInv'
  <2> DEFINE u == [t EXCEPT !.seen = @ \cup found, !.todo = order \o Tail(@)]
  <2>1. /\ Shaped(u) /\ u.op = t.op /\ u.suite = t.suite
        /\ u.phase = t.phase /\ u.others = t.others
        BY DEF IInv, Shaped, Fields, Children
  <2>2. MoveOK(u)
        BY <2>1 DEF MoveOK, IInv, ListChildren
  <2> QED
      BY <1>2, <2>1, <2>2, OwnStepKeepsIInv
<1> QED
    BY <1>1, <1>2 DEF ListChildren

\* A commit: what it must not do to the requests that go on.
LEMMA CommitKeepsIInv ==
  ASSUME IInv, NEW r \in Requests, NEW p \in [Suites -> Suites \cup {Root, Unborn, Gone}],
         Commit(r, p), ParentsExist(p),
         \A o \in Requests \ {r} :
           tx[o].op = "create" => p[tx[o].suite] = tree[tx[o].suite],
         \/ tx[r].op = "patch"
         \/ \A w \in Suites : tree[w] # Unborn =>
              p[w] # Unborn /\ (p[w] \in Suites => p[w] = tree[w])
  PROVE  IInv'
<1>1. tree' = p /\ tx'[r] = Idle
      BY DEF Commit
<1>2. ASSUME NEW o \in Requests \ {r}
      PROVE  /\ Shaped(tx'[o])
             /\ \A f \in Fields \ {"others"} : tx'[o][f] = tx[o][f]
             /\ tx[o].others \subseteq tx'[o].others
             /\ p # tree /\ tx[o].op = "patch" => tx[r].op \in tx'[o].others
  <2>1. Shaped(tx[o])
        BY DEF IInv
  <2>2. CASE tx[o].op # "idle" /\ p # tree
    <3>1. tx'[o] = [tx[o] EXCEPT !.others = @ \cup {tx[r].op}]
          BY <2>2 DEF Commit
    <3> QED
        BY <2>1, <3>1 DEF Shaped, Fields
  <2>3. CASE ~(tx[o].op # "idle" /\ p # tree)
    <3>1. tx'[o] = tx[o]
          BY <2>3 DEF Commit
    <3> QED
        BY <2>1, <2>3, <3>1
  <2> QED
      BY <2>2, <2>3
<1>3. ASSUME NEW o \in Requests \ {r}
      PROVE  /\ tx'[o].op = tx[o].op /\ tx'[o].suite = tx[o].suite
             /\ tx'[o].target = tx[o].target /\ tx'[o].phase = tx[o].phase
             /\ tx'[o].kept = tx[o].kept /\ tx'[o].at = tx[o].at
             /\ tx'[o].seen = tx[o].seen
      BY <1>2 DEF Fields, IInv, Shaped
<1>4. ASSUME NEW o \in Requests \ {r}
      PROVE  MoveOK(tx[o])'
  <2> SUFFICES ASSUME tx[o].op = "patch", "patch" \notin tx'[o].others
               PROVE  MoveOK(tx[o])'
      BY <1>3 DEF MoveOK
  <2>1. MoveOK(tx[o]) /\ "patch" \notin tx[o].others
        BY <1>2 DEF IInv
  <2>2. \A w \in Suites : tree[w] # Unborn =>
          p[w] # Unborn /\ (p[w] \in Suites => p[w] = tree[w])
        BY <1>2
  <2>3. Walked(tx[o]) => SeenIsClosed(tx[o])'
        BY <1>1, <1>3, <2>1, <2>2 DEF MoveOK, SeenIsClosed
  <2> QED
      BY <1>1, <1>3, <2>1, <2>2, <2>3 DEF MoveOK, Walked
<1>5. ASSUME NEW o \in Requests \ {r}
      PROVE  CreateOK(tx[o])'
      BY <1>1, <1>3 DEF CreateOK, IInv
<1>6. Shaped(Idle) /\ Idle.op = "idle"
      BY DEF Shaped, Fields, Idle
<1>7. Shaped(tx[r])' /\ MoveOK(tx[r])' /\ CreateOK(tx[r])'
      BY <1>1, <1>6 DEF Shaped, MoveOK, CreateOK
<1>8. FreshIds'
      BY <1>1, <1>3, <1>6 DEF IInv, FreshIds
<1>9. tx' = [o \in Requests |-> tx'[o]]
      BY DEF Commit
<1>10. \A o \in Requests : Shaped(tx[o])' /\ MoveOK(tx[o])' /\ CreateOK(tx[o])'
  <2> SUFFICES ASSUME NEW o \in Requests
               PROVE  Shaped(tx[o])' /\ MoveOK(tx[o])' /\ CreateOK(tx[o])'
      OBVIOUS
  <2>1. CASE o = r
        BY <2>1, <1>7
  <2>2. CASE o # r
        BY <2>2, <1>2, <1>4, <1>5 DEF Shaped
  <2> QED
      BY <2>1, <2>2
<1> QED
    BY <1>1, <1>8, <1>9, <1>10 DEF IInv, ParentsExist, IsRow

LEMMA WriteCreateKeepsIInv ==
  ASSUME IInv, NEW r \in Requests, WriteCreate(r)
  PROVE  IInv' /\ (NoCycle(tree) => NoCycle(tree'))
<1> DEFINE t == tx[r]
           p == [tree EXCEPT ![t.suite] = t.target]
<1>1. CASE Refuse(r)
      BY <1>1, RefuseKeepsIInv DEF Refuse, Step
<1>2. CASE ParentExists(t) /\ Commit(r, p)
  <2>1. t.suite \in Suites /\ tree[t.suite] = Unborn
        BY DEF IInv, CreateOK, WriteCreate
  <2>2. t.target = Root \/ (t.target \in Suites /\ IsRow(tree, t.target))
        BY <1>2 DEF ParentExists, Live
  <2>3. p \in [Suites -> Suites \cup {Root, Unborn, Gone}]
        BY <2>1, <2>2 DEF IInv
  <2>4. ParentsExist(p)
    <3>1. \A x \in Suites : IsRow(tree, x) => p[x] = tree[x]
          BY <2>1, MarksAreNoSuites DEF IInv, IsRow
    <3>2. \A x \in Suites : p[x] \in Suites => IsRow(tree, p[x])
          BY <2>1, <2>2, MarksAreNoSuites DEF IInv, ParentsExist
    <3> QED
        BY <3>1, <3>2 DEF ParentsExist, IsRow
  <2>5. \A o \in Requests \ {r} :
          tx[o].op = "create" => p[tx[o].suite] = tree[tx[o].suite]
        BY <2>1 DEF IInv, FreshIds, CreateOK, WriteCreate
  <2>6. \A w \in Suites : tree[w] # Unborn =>
          p[w] # Unborn /\ (p[w] \in Suites => p[w] = tree[w])
        BY <2>1 DEF IInv
  <2>7. IInv'
        BY <1>2, <2>3, <2>4, <2>5, <2>6, CommitKeepsIInv
  <2>8. NoCycle(tree) => NoCycle(p)
        BY <2>1, <2>2, LeafClosesNoCycle DEF IInv
  <2> QED
      BY <1>2, <2>7, <2>8 DEF Commit
<1> QED
    BY <1>1, <1>2 DEF WriteCreate

LEMMA WritePatchKeepsIInv ==
  ASSUME IInv, NEW r \in Requests, WritePatch(r)
  PROVE  IInv' /\ (NoCycle(tree) /\ ~Overlaps(r, "patch") => NoCycle(tree'))
<1> DEFINE t == tx[r]
           p == [tree EXCEPT ![t.suite] = t.target]
<1>1. CASE Refuse(r)
      BY <1>1, RefuseKeepsIInv DEF Refuse, Step
<1>2. CASE Commit(r, tree)
  <2>1. /\ tree \in [Suites -> Suites \cup {Root, Unborn, Gone}]
        /\ ParentsExist(tree) /\ t.op = "patch"
        BY DEF IInv, WritePatch
  <2>2. IInv'
        BY <1>2, <2>1, CommitKeepsIInv
  <2> QED
      BY <1>2, <2>2 DEF Commit
<1>3. CASE Live(t.suite) /\ ParentExists(t) /\ Commit(r, p)
  <2>1. t.op = "patch" /\ t.phase = "write"
        BY DEF WritePatch
  <2>2. t.suite \in Suites /\ IsRow(tree, t.suite)
        BY <1>3 DEF Live
  <2>3. t.target = Root \/ (t.target \in Suites /\ IsRow(tree, t.target))
        BY <1>3 DEF ParentExists, Live
  <2>4. p \in [Suites -> Suites \cup {Root, Unborn, Gone}]
        BY <2>2, <2>3 DEF IInv
  <2>5. ParentsExist(p)
    <3>1. \A x \in Suites : IsRow(tree, x) => IsRow(p, x)
          BY <2>2, <2>3 DEF IInv, IsRow
    <3>2. \A x \in Suites : p[x] \in Suites => IsRow(tree, p[x])
          BY <2>2, <2>3, MarksAreNoSuites DEF IInv, ParentsExist
    <3> QED
        BY <3>1, <3>2 DEF ParentsExist
  <2>6. \A o \in Requests \ {r} :
          tx[o].op = "create" => p[tx[o].suite] = tree[tx[o].suite]
        BY <2>2, MarksAreNoSuites DEF IInv, CreateOK, IsRow
  <2>7. IInv'
        BY <1>3, <2>1, <2>4, <2>5, <2>6, CommitKeepsIInv
  <2>8. ASSUME NoCycle(tree), "patch" \notin t.others
        PROVE  NoCycle(p)
    <3>1. CASE t.target = Root
          BY <3>1, <2>2, <2>8, MoveToRootClosesNoCycle DEF IInv
    <3>2. CASE t.target # Root
      <4>1. /\ t.target \in t.seen /\ t.suite \notin t.seen /\ t.seen \subseteq Suites
            /\ \A w \in t.seen : tree[w] \in Suites => tree[w] \in t.seen
            BY <2>1, <2>8, <3>2 DEF IInv, MoveOK, Walked, SeenIsClosed
      <4> QED
          BY <2>2, <2>3, <2>8, <3>2, <4>1, MoveOutsideClosesNoCycle DEF IInv
    <3> QED
        BY <3>1, <3>2
  <2> QED
      BY <1>3, <2>7, <2>8 DEF Commit, Overlaps
<1> QED
    BY <1>1, <1>2, <1>3 DEF WritePatch

LEMMA WriteDeleteKeepsIInv ==
  ASSUME IInv, NEW r \in Requests, WriteDelete(r)
  PROVE  IInv' /\ (NoCycle(tree) => NoCycle(tree'))
<1> DEFINE S == tx[r].seen
<1>1. Commit(r, Without(S)) /\ S \subseteq Suites
      BY DEF WriteDelete, IInv, Shaped
<1>2. Without(S) \in [Suites -> Suites \cup {Root, Unborn, Gone}]
      BY DEF Without, IInv
<1>3. \A x \in Suites : Without(S)[x] \in Suites => Without(S)[x] = tree[x]
      BY MarksAreNoSuites DEF Without
<1>4. \A x \in Suites : tree[x] \notin {Unborn, Gone} => Without(S)[x] # Unborn
      BY MarksAreNoSuites DEF Without
<1>5. \A x \in Suites : tree[x] = Unborn => Without(S)[x] = Unborn
      BY <1>1, MarksAreNoSuites DEF Without, Live, IsRow
<1>6. \A x \in Suites : tree[x] = Gone => Without(S)[x] = Gone
      BY <1>1, MarksAreNoSuites DEF Without, Live, IsRow
<1>7. ParentsExist(Without(S))
  <2> SUFFICES ASSUME NEW x \in Suites, Without(S)[x] \in Suites
               PROVE  IsRow(Without(S), tree[x])
      BY <1>3 DEF ParentsExist
  <2>1. tree[x] \in Suites /\ tree[x] \notin S /\ IsRow(tree, tree[x])
        BY <1>3, MarksAreNoSuites DEF Without, IInv, ParentsExist
  <2> QED
      BY <2>1 DEF Without, IsRow
<1>8. \A o \in Requests \ {r} :
        tx[o].op = "create" => Without(S)[tx[o].suite] = tree[tx[o].suite]
      BY <1>5 DEF IInv, CreateOK
<1>9. IInv'
  <2>1. \A w \in Suites : tree[w] # Unborn =>
          Without(S)[w] # Unborn /\ (Without(S)[w] \in Suites => Without(S)[w] = tree[w])
        BY <1>3, <1>4, <1>6, MarksAreNoSuites
  <2> QED
      BY <1>1, <1>2, <1>7, <1>8, <2>1, CommitKeepsIInv
<1>10. NoCycle(tree) => NoCycle(Without(S))
      BY <1>3, CuttingClosesNoCycle
<1> QED
    BY <1>1, <1>9, <1>10 DEF Commit

-----------------------------------------------------------------------------
\* Every step keeps IInv, and what it does to cycles.
LEMMA NextStep ==
  ASSUME IInv, Next
  PROVE  /\ IInv'
         /\ NoCycle(tree) /\ ~NoCycle(tree') =>
              \E r \in Requests :
                Ends(r) /\ tx[r].op = "patch" /\ Overlaps(r, "patch")
<1> PICK r \in Requests :
      \/ \E s \in Suites, target \in Suites \cup {Root} : BeginCreate(r, s, target)
      \/ \E s \in Suites, target \in Suites \cup {Root} : BeginPatch(r, s, target)
      \/ \E s \in Suites : BeginDelete(r, s)
      \/ FetchParent(r) \/ WalkUp(r) \/ CountLevel(r)
      \/ WriteCreate(r) \/ WritePatch(r)
      \/ ListChildren(r) \/ WriteDelete(r)
    BY DEF Next
<1>1. CASE \/ \E s \in Suites, target \in Suites \cup {Root} : BeginCreate(r, s, target)
           \/ \E s \in Suites, target \in Suites \cup {Root} : BeginPatch(r, s, target)
           \/ \E s \in Suites : BeginDelete(r, s)
  <2>1. IInv'
        BY <1>1, BeginCreateKeepsIInv, BeginPatchKeepsIInv, BeginDeleteKeepsIInv
  <2>2. UNCHANGED tree
        BY <1>1 DEF BeginCreate, BeginPatch, BeginDelete, Begin
  <2> QED
      BY <2>1, <2>2 DEF NoCycle
<1>2. CASE FetchParent(r) \/ WalkUp(r) \/ CountLevel(r) \/ ListChildren(r)
  <2>1. IInv'
        BY <1>2, FetchParentKeepsIInv, WalkUpKeepsIInv, CountLevelKeepsIInv,
           ListChildrenKeepsIInv
  <2>2. UNCHANGED tree
        BY <1>2 DEF FetchParent, WalkUp, CountLevel, ListChildren, Refuse, Step
  <2> QED
      BY <2>1, <2>2 DEF NoCycle
<1>3. CASE WriteCreate(r) \/ WriteDelete(r)
      BY <1>3, WriteCreateKeepsIInv, WriteDeleteKeepsIInv
<1>4. CASE WritePatch(r)
  <2>1. IInv' /\ (NoCycle(tree) /\ ~Overlaps(r, "patch") => NoCycle(tree'))
        BY <1>4, WritePatchKeepsIInv
  <2>2. tx[r].op = "patch" /\ tx'[r] = Idle
        BY <1>4 DEF WritePatch, Commit, Refuse, Step, IInv
  <2>3. Ends(r)
        BY <2>2 DEF Ends, Idle
  <2> QED
      BY <2>1, <2>2, <2>3
<1> QED
    BY <1>1, <1>2, <1>3, <1>4

LEMMA InitIInv == Init => IInv
<1> SUFFICES ASSUME Init PROVE IInv
    OBVIOUS
<1>1. Shaped(Idle) /\ MoveOK(Idle) /\ CreateOK(Idle) /\ Idle.op = "idle"
      BY DEF Shaped, Fields, MoveOK, CreateOK, Idle
<1>2. \A r \in Requests : tx[r] = Idle
      BY DEF Init
<1>3. /\ tree \in [Suites -> Suites \cup {Root, Unborn, Gone}]
      /\ ParentsExist(tree)
      /\ tx = [r \in Requests |-> tx[r]]
      BY DEF Init, ForestInit
<1> QED
    BY <1>1, <1>2, <1>3 DEF IInv, FreshIds

LEMMA IInvHolds == Spec => []IInv
<1>1. ASSUME IInv, UNCHANGED vars
      PROVE  IInv'
      BY <1>1 DEF vars, IInv, ParentsExist, IsRow, Shaped, MoveOK, CreateOK,
                  SeenIsClosed, Walked, FreshIds
<1>2. IInv /\ [Next]_vars => IInv'
      BY <1>1, NextStep
<1> QED
    BY <1>2, InitIInv, PTL DEF Spec

\* For any number of suites and requests: the walk of _validate_suite_parent
\* keeps the tree free of cycles, unless two moves overlap.
THEOREM CycleSafety == Spec => CyclesNeedOverlappingMoves
<1>1. ASSUME IInv, [Next]_vars
      PROVE  [NoCycle(tree) /\ ~NoCycle(tree') =>
                \E r \in Requests :
                  Ends(r) /\ tx[r].op = "patch" /\ Overlaps(r, "patch")]_vars
      BY <1>1, NextStep
<1> QED
    BY <1>1, IInvHolds, PTL DEF Spec, CyclesNeedOverlappingMoves

-----------------------------------------------------------------------------
(* Type correctness: what a walk holds is the parent of a row that was there. *)
Typed(t) ==
  /\ t.op \in {"idle"} \cup Kinds
  /\ t.phase \in {"idle", "parent", "cycle", "depth", "write", "collect"}
  /\ t.suite \in Suites \cup {Root} /\ t.target \in Suites \cup {Root}
  /\ t.at \in Suites \cup {Root}
  /\ t.seen \subseteq Suites
  /\ DOMAIN t.kept \subseteq Suites
  /\ \A s \in DOMAIN t.kept : t.kept[s] \in Suites \cup {Root}
  /\ t.depth \in 0 .. MAX_SUITE_DEPTH
  /\ t.others \subseteq Kinds

\* The parent-to-be is in the session while its ancestors are looked at.
InPhase(t) ==
  /\ t.phase = "cycle" => t.target \in DOMAIN t.kept
  /\ t.phase = "collect" => t.op = "delete"

TypeIInv ==
  /\ IInv
  /\ begun \in 0 .. MaxRequests
  /\ \A r \in Requests : Typed(tx[r]) /\ InPhase(tx[r])

LEMMA IdleTyped == Typed(Idle) /\ InPhase(Idle) /\ Idle.op = "idle" /\ Shaped(Idle)
<1>1. 0 \in 0 .. MAX_SUITE_DEPTH
      BY DepthIsPositive
<1> QED
    BY <1>1 DEF Typed, InPhase, Idle, NoObjects, Shaped, Fields

LEMMA OneIsTyped ==
  ASSUME TypeIInv, IInv', NEW r \in Requests, NEW t, tx' = [tx EXCEPT ![r] = t],
         begun' \in 0 .. MaxRequests, Typed(t), InPhase(t)
  PROVE  TypeIInv'
<1>1. \A o \in Requests : tx'[o] = IF o = r THEN t ELSE tx[o]
      BY DEF TypeIInv, IInv
<1>2. ASSUME NEW o \in Requests
      PROVE  Typed(tx[o])' /\ InPhase(tx[o])'
  <2>1. Typed(tx'[o]) /\ InPhase(tx'[o])
        BY <1>1 DEF TypeIInv
  <2> QED
      BY <2>1 DEF Typed, InPhase
<1> QED
    BY <1>2 DEF TypeIInv

\* A step of one request that is still checking.
LEMMA StepIsTyped ==
  ASSUME TypeIInv, IInv', NEW r \in Requests, NEW t, Step(r, t), Typed(t), InPhase(t)
  PROVE  TypeIInv'
BY OneIsTyped DEF Step, TypeIInv

LEMMA RefuseIsTyped ==
  ASSUME TypeIInv, IInv', NEW r \in Requests, Refuse(r)
  PROVE  TypeIInv'
BY IdleTyped, StepIsTyped DEF Refuse

LEMMA BeginIsTyped ==
  ASSUME TypeIInv, IInv', NEW r \in Requests, NEW s \in Suites,
         NEW target \in Suites \cup {Root},
         BeginCreate(r, s, target) \/ BeginPatch(r, s, target) \/ BeginDelete(r, s)
  PROVE  TypeIInv'
<1>1. PICK t : Begin(r, t) /\ Typed(t) /\ InPhase(t)
  <2>1. FirstPhase(target) \in {"write", "parent"}
        BY DEF FirstPhase
  <2>2. CASE BeginCreate(r, s, target)
    <3> DEFINE t == [Idle EXCEPT !.op = "create", !.suite = s, !.target = target,
                                 !.phase = FirstPhase(target)]
    <3>1. /\ t.op = "create" /\ t.suite = s /\ t.target = target /\ t.phase = FirstPhase(target)
          /\ t.at = Idle.at /\ t.seen = Idle.seen /\ t.kept = Idle.kept
          /\ t.depth = Idle.depth /\ t.others = Idle.others
          BY DEF Idle
    <3> HIDE DEF t
    <3>2. Typed(t) /\ InPhase(t)
          BY <2>1, <3>1, IdleTyped DEF Typed, InPhase, Kinds
    <3> QED
        BY <2>2, <3>2 DEF BeginCreate, t
  <2>3. CASE BeginPatch(r, s, target)
    <3> DEFINE t == [Idle EXCEPT !.op = "patch", !.suite = s, !.target = target,
                                 !.phase = FirstPhase(target),
                                 !.kept = [x \in {s} |-> tree[s]]]
    <3>1. /\ t.op = "patch" /\ t.suite = s /\ t.target = target /\ t.phase = FirstPhase(target)
          /\ t.at = Idle.at /\ t.seen = Idle.seen /\ t.kept = [x \in {s} |-> tree[s]]
          /\ t.depth = Idle.depth /\ t.others = Idle.others
          BY DEF Idle
    <3> HIDE DEF t
    <3>2. Typed(t) /\ InPhase(t)
          BY <2>1, <2>3, <3>1, IdleTyped DEF Typed, InPhase, Kinds, BeginPatch, Live, IsRow
    <3> QED
        BY <2>3, <3>2 DEF BeginPatch, t
  <2>4. CASE BeginDelete(r, s)
    <3> DEFINE t == [Idle EXCEPT !.op = "delete", !.suite = s, !.phase = "collect",
                                 !.kept = [x \in {s} |-> tree[s]], !.seen = {s},
                                 !.todo = << s >>]
    <3>1. /\ t.op = "delete" /\ t.suite = s /\ t.target = Idle.target /\ t.phase = "collect"
          /\ t.at = Idle.at /\ t.seen = {s} /\ t.kept = [x \in {s} |-> tree[s]]
          /\ t.depth = Idle.depth /\ t.others = Idle.others
          BY DEF Idle
    <3> HIDE DEF t
    <3>2. Typed(t) /\ InPhase(t)
          BY <2>4, <3>1, IdleTyped DEF Typed, InPhase, Kinds, BeginDelete, Live, IsRow
    <3> QED
        BY <2>4, <3>2 DEF BeginDelete, t
  <2> QED
      BY <2>2, <2>3, <2>4
<1>2. tx' = [tx EXCEPT ![r] = t] /\ begun' \in 0 .. MaxRequests
      BY <1>1, RequestsAreBounded DEF Begin, TypeIInv
<1> QED
    BY <1>1, <1>2, OneIsTyped

\* A live suite has a parent that may be kept.
LEMMA LiveLoads ==
  ASSUME NEW t, Typed(t), NEW s, Live(s) \/ s \in DOMAIN t.kept
  PROVE  s \in Suites /\ Loaded(t, s) \in Suites \cup {Root}
BY DEF Typed, Live, IsRow, Loaded

LEMMA FetchParentIsTyped ==
  ASSUME TypeIInv, IInv', NEW r \in Requests, FetchParent(r)
  PROVE  TypeIInv'
<1> DEFINE t == tx[r]
           u == [t EXCEPT !.phase = "cycle", !.seen = {t.target},
                          !.at = Loaded(t, t.target), !.kept = Keep(t, t.target)]
<1>1. Typed(t) /\ Shaped(t)
      BY DEF TypeIInv, IInv
<1>2. CASE Refuse(r)
      BY <1>2, RefuseIsTyped
<1>3. CASE Live(t.target) /\ Step(r, u)
  <2>1. /\ u.op = t.op /\ u.suite = t.suite /\ u.target = t.target
        /\ u.phase = "cycle" /\ u.seen = {t.target} /\ u.at = Loaded(t, t.target)
        /\ u.kept = Keep(t, t.target) /\ u.depth = t.depth /\ u.others = t.others
        BY <1>1 DEF Shaped, Fields
  <2>2. t.target \in Suites /\ Loaded(t, t.target) \in Suites \cup {Root}
        BY <1>1, <1>3, LiveLoads
  <2>3. /\ DOMAIN u.kept = DOMAIN t.kept \cup {t.target}
        /\ \A x \in DOMAIN u.kept : u.kept[x] = Loaded(t, x)
        BY <2>1 DEF Keep
  <2>4. \A x \in DOMAIN u.kept : u.kept[x] \in Suites \cup {Root}
        BY <1>1, <2>2, <2>3, LiveLoads
  <2> HIDE DEF u
  <2>5. Typed(u) /\ InPhase(u)
        BY <1>1, <2>1, <2>2, <2>3, <2>4 DEF Typed, InPhase
  <2> QED
      BY <1>3, <2>5, StepIsTyped
<1> QED
    BY <1>2, <1>3 DEF FetchParent

\* The walk keeps its parent-to-be, and what it keeps are parents.
LEMMA KeepOnlyTyped ==
  ASSUME NEW t, Typed(t), NEW s, Live(s)
  PROVE  /\ DOMAIN KeepOnly(t, s) \subseteq Suites
         /\ \A x \in DOMAIN KeepOnly(t, s) : KeepOnly(t, s)[x] \in Suites \cup {Root}
         /\ t.target \in DOMAIN t.kept => t.target \in DOMAIN KeepOnly(t, s)
<1>1. /\ DOMAIN KeepOnly(t, s) = (DOMAIN t.kept \cap {t.suite, t.target}) \cup {s}
      /\ \A x \in DOMAIN KeepOnly(t, s) : KeepOnly(t, s)[x] = Loaded(t, x)
      BY DEF KeepOnly
<1>2. DOMAIN t.kept \subseteq Suites /\ s \in Suites
      BY LiveLoads DEF Typed
<1>3. \A x \in DOMAIN KeepOnly(t, s) : KeepOnly(t, s)[x] \in Suites \cup {Root}
      BY <1>1, LiveLoads
<1> QED
    BY <1>1, <1>2, <1>3

LEMMA StartDepthTyped ==
  ASSUME NEW t, Shaped(t), Typed(t), t.target \in DOMAIN t.kept
  PROVE  Typed(StartDepth(t)) /\ InPhase(StartDepth(t))
<1> DEFINE u == StartDepth(t)
<1>1. /\ u.op = t.op /\ u.suite = t.suite /\ u.target = t.target
      /\ u.phase = "depth" /\ u.seen = t.seen /\ u.at = Loaded(t, t.target)
      /\ u.kept = t.kept /\ u.depth = 1 /\ u.others = t.others
      BY DEF Shaped, Fields, StartDepth
<1>2. u.at \in Suites \cup {Root}
      BY <1>1, LiveLoads
<1>3. u.depth \in 0 .. MAX_SUITE_DEPTH
      BY <1>1, DepthIsPositive
<1> HIDE DEF u
<1>4. Typed(u) /\ InPhase(u)
      BY <1>1, <1>2, <1>3 DEF Typed, InPhase
<1> QED
    BY <1>4 DEF u

LEMMA WalkUpIsTyped ==
  ASSUME TypeIInv, IInv', NEW r \in Requests, WalkUp(r)
  PROVE  TypeIInv'
<1> DEFINE t == tx[r]
           v == [t EXCEPT !.kept = KeepOnly(t, t.at)]
           w == [t EXCEPT !.seen = @ \cup {t.at}, !.at = Loaded(t, t.at),
                          !.kept = KeepOnly(t, t.at)]
<1>1. Typed(t) /\ Shaped(t) /\ t.phase = "cycle" /\ t.target \in DOMAIN t.kept
      BY DEF TypeIInv, IInv, InPhase, WalkUp
<1>2. CASE Refuse(r)
      BY <1>2, RefuseIsTyped
<1>3. CASE Step(r, StartDepth(t))
      BY <1>1, <1>3, StartDepthTyped, StepIsTyped
<1>4. CASE Live(t.at) /\ Step(r, StartDepth(v))
  <2>1. /\ v.op = t.op /\ v.suite = t.suite /\ v.target = t.target
        /\ v.phase = t.phase /\ v.seen = t.seen /\ v.at = t.at
        /\ v.kept = KeepOnly(t, t.at) /\ v.depth = t.depth /\ v.others = t.others
        /\ Shaped(v)
        BY <1>1 DEF Shaped, Fields
  <2>2. /\ DOMAIN v.kept \subseteq Suites
        /\ \A x \in DOMAIN v.kept : v.kept[x] \in Suites \cup {Root}
        /\ v.target \in DOMAIN v.kept
        BY <1>1, <1>4, <2>1, KeepOnlyTyped
  <2> HIDE DEF v
  <2>3. Typed(v)
        BY <1>1, <2>1, <2>2 DEF Typed
  <2> QED
      BY <1>4, <2>1, <2>2, <2>3, StartDepthTyped, StepIsTyped
<1>5. CASE Live(t.at) /\ Step(r, w)
  <2>1. /\ w.op = t.op /\ w.suite = t.suite /\ w.target = t.target
        /\ w.phase = t.phase /\ w.seen = t.seen \cup {t.at} /\ w.at = Loaded(t, t.at)
        /\ w.kept = KeepOnly(t, t.at) /\ w.depth = t.depth /\ w.others = t.others
        BY <1>1 DEF Shaped, Fields
  <2>2. /\ DOMAIN w.kept \subseteq Suites
        /\ \A x \in DOMAIN w.kept : w.kept[x] \in Suites \cup {Root}
        /\ w.target \in DOMAIN w.kept
        BY <1>1, <1>5, <2>1, KeepOnlyTyped
  <2>3. t.at \in Suites /\ w.at \in Suites \cup {Root}
        BY <1>1, <1>5, <2>1, LiveLoads
  <2> HIDE DEF w
  <2>4. Typed(w) /\ InPhase(w)
        BY <1>1, <2>1, <2>2, <2>3 DEF Typed, InPhase
  <2> QED
      BY <1>5, <2>4, StepIsTyped
<1> QED
    BY <1>2, <1>3, <1>4, <1>5 DEF WalkUp

LEMMA CountLevelIsTyped ==
  ASSUME TypeIInv, IInv', NEW r \in Requests, CountLevel(r)
  PROVE  TypeIInv'
<1> DEFINE t == tx[r]
           u == [t EXCEPT !.at = Loaded(t, t.at), !.depth = IF TooDeep(t) THEN @ ELSE @ + 1]
           v == [t EXCEPT !.phase = "write"]
<1>1. Typed(t) /\ Shaped(t)
      BY DEF TypeIInv, IInv
<1>2. CASE Refuse(r)
      BY <1>2, RefuseIsTyped
<1>3. CASE Live(t.at) /\ Step(r, u)
  <2>1. /\ u.op = t.op /\ u.suite = t.suite /\ u.target = t.target
        /\ u.phase = t.phase /\ u.seen = t.seen /\ u.at = Loaded(t, t.at)
        /\ u.kept = t.kept /\ u.others = t.others
        /\ u.depth = IF TooDeep(t) THEN t.depth ELSE t.depth + 1
        BY <1>1 DEF Shaped, Fields
  <2>2. u.depth \in 0 .. MAX_SUITE_DEPTH
        BY <1>1, <2>1, DepthIsPositive DEF Typed, TooDeep
  <2>3. u.at \in Suites \cup {Root}
        BY <1>1, <1>3, <2>1, LiveLoads
  <2>4. t.phase = "depth"
        BY DEF CountLevel
  <2> HIDE DEF u
  <2>5. Typed(u) /\ InPhase(u)
        BY <1>1, <2>1, <2>2, <2>3, <2>4 DEF Typed, InPhase
  <2> QED
      BY <1>3, <2>5, StepIsTyped
<1>4. CASE Step(r, v)
  <2>1. /\ v.op = t.op /\ v.suite = t.suite /\ v.target = t.target
        /\ v.phase = "write" /\ v.seen = t.seen /\ v.at = t.at
        /\ v.kept = t.kept /\ v.depth = t.depth /\ v.others = t.others
        BY <1>1 DEF Shaped, Fields
  <2> HIDE DEF v
  <2>2. Typed(v) /\ InPhase(v)
        BY <1>1, <2>1 DEF Typed, InPhase
  <2> QED
      BY <1>4, <2>2, StepIsTyped
<1> QED
    BY <1>2, <1>3, <1>4 DEF CountLevel

LEMMA ListChildrenIsTyped ==
  ASSUME TypeIInv, IInv', NEW r \in Requests, ListChildren(r)
  PROVE  TypeIInv'
<1> DEFINE t == tx[r]
           found == Children(Head(t.todo))
<1>1. Typed(t) /\ Shaped(t) /\ InPhase(t) /\ t.phase = "collect" /\ found \subseteq Suites
      BY DEF TypeIInv, IInv, ListChildren, Children
<1>2. CASE Refuse(r)
      BY <1>2, RefuseIsTyped
<1>3. ASSUME NEW order \in Orders(found),
             Step(r, [t EXCEPT !.seen = @ \cup found, !.todo = order \o Tail(@)])
      PROVE  TypeIInv'
  <2> DEFINE u == [t EXCEPT !.seen = @ \cup found, !.todo = order \o Tail(@)]
  <2>1. /\ u.op = t.op /\ u.suite = t.suite /\ u.target = t.target
        /\ u.phase = t.phase /\ u.seen = t.seen \cup found /\ u.at = t.at
        /\ u.kept = t.kept /\ u.depth = t.depth /\ u.others = t.others
        BY <1>1 DEF Shaped, Fields
  <2>2. Step(r, u)
        BY <1>3
  <2> HIDE DEF u
  <2>3. Typed(u) /\ InPhase(u)
        BY <1>1, <2>1 DEF Typed, InPhase
  <2> QED
      BY <2>2, <2>3, StepIsTyped
<1> QED
    BY <1>2, <1>3 DEF ListChildren

\* A commit tells the others its kind, and changes nothing else of them.
LEMMA CommitIsTyped ==
  ASSUME TypeIInv, IInv', NEW r \in Requests, NEW p, Commit(r, p), tx[r].op \in Kinds
  PROVE  TypeIInv'
<1>1. ASSUME NEW o \in Requests
      PROVE  Typed(tx'[o]) /\ InPhase(tx'[o])
  <2>1. Typed(tx[o]) /\ InPhase(tx[o]) /\ Shaped(tx[o])
        BY DEF TypeIInv, IInv
  <2>2. CASE o = r
        BY <2>2, IdleTyped DEF Commit
  <2>3. CASE o # r /\ tx[o].op # "idle" /\ p # tree
    <3> DEFINE t == tx[o]
               u == [t EXCEPT !.others = @ \cup {tx[r].op}]
    <3>1. /\ u.op = t.op /\ u.suite = t.suite /\ u.target = t.target
          /\ u.phase = t.phase /\ u.seen = t.seen /\ u.at = t.at
          /\ u.kept = t.kept /\ u.depth = t.depth
          /\ u.others = t.others \cup {tx[r].op}
          BY <2>1 DEF Shaped, Fields
    <3>2. tx'[o] = u
          BY <2>3 DEF Commit
    <3> HIDE DEF u
    <3>3. Typed(u) /\ InPhase(u)
          BY <2>1, <3>1 DEF Typed, InPhase
    <3> QED
        BY <3>2, <3>3
  <2>4. CASE o # r /\ ~(tx[o].op # "idle" /\ p # tree)
    <3>1. tx'[o] = tx[o]
          BY <2>4 DEF Commit
    <3> QED
        BY <2>1, <3>1
  <2> QED
      BY <2>2, <2>3, <2>4
<1>2. \A o \in Requests : Typed(tx[o])' /\ InPhase(tx[o])'
      BY <1>1 DEF Typed, InPhase
<1> QED
    BY <1>2 DEF TypeIInv, Commit

LEMMA WriteIsTyped ==
  ASSUME TypeIInv, IInv', NEW r \in Requests,
         WriteCreate(r) \/ WritePatch(r) \/ WriteDelete(r)
  PROVE  TypeIInv'
<1>1. CASE Refuse(r)
      BY <1>1, RefuseIsTyped
<1>2. CASE \E p : Commit(r, p)
  <2>1. tx[r].op \in Kinds
        BY DEF WriteCreate, WritePatch, WriteDelete, TypeIInv, InPhase, Kinds
  <2> QED
      BY <1>2, <2>1, CommitIsTyped
<1> QED
    BY <1>1, <1>2 DEF WriteCreate, WritePatch, WriteDelete

LEMMA InitTyped == Init => TypeIInv
<1> SUFFICES ASSUME Init PROVE TypeIInv
    OBVIOUS
<1>1. \A r \in Requests : Typed(tx[r]) /\ InPhase(tx[r])
      BY IdleTyped DEF Init
<1>2. begun \in 0 .. MaxRequests
      BY RequestsAreBounded DEF Init
<1> QED
    BY <1>1, <1>2, InitIInv DEF TypeIInv

LEMMA TypeIInvHolds == Spec => []TypeIInv
<1>1. Init => TypeIInv
      BY InitTyped
<1>2. ASSUME TypeIInv, Next
      PROVE  TypeIInv'
  <2>1. IInv'
        BY <1>2, NextStep DEF TypeIInv
  <2> QED
      BY <1>2, <2>1, BeginIsTyped, FetchParentIsTyped, WalkUpIsTyped, CountLevelIsTyped,
         ListChildrenIsTyped, WriteIsTyped DEF Next
<1>3. ASSUME TypeIInv, UNCHANGED vars
      PROVE  TypeIInv'
  <2>1. UNCHANGED << tree, tx, begun >>
        BY <1>3 DEF vars
  <2>2. IInv'
        BY <1>3, <2>1 DEF TypeIInv, IInv, ParentsExist, IsRow, Shaped, MoveOK, CreateOK,
                          SeenIsClosed, Walked, FreshIds
  <2> QED
      BY <1>3, <2>1, <2>2 DEF TypeIInv, Typed, InPhase
<1> QED
    BY <1>1, <1>2, <1>3, PTL DEF Spec

\* For any number of suites and requests: parents are suites, the root or
\* marks, and the depth counted by _get_suite_depth stays within its cap.
THEOREM TypeCorrect == Spec => []TypeOK
<1>1. TypeIInv => TypeOK
  <2> SUFFICES ASSUME TypeIInv PROVE TypeOK
      OBVIOUS
  <2>1. tree \in [Suites -> Suites \cup {Root, Unborn, Gone}] /\ DOMAIN tx = Requests
        BY DEF TypeIInv, IInv
  <2> QED
      BY <2>1 DEF TypeIInv, TypeOK, Typed
<1> QED
    BY <1>1, TypeIInvHolds, PTL

-----------------------------------------------------------------------------
(* Lineages.  The lineage of a suite is the least set that holds it and the *)
(* parents of its members, so it is bounded by every such set.              *)

LEMMA LineageLeast ==
  ASSUME NEW p, NEW s, NEW S \in SUBSET Suites, s \in S, Upward(p, S)
  PROVE  Lineage(p, s) \subseteq S
BY DEF Lineage

LEMMA LineageUpward ==
  ASSUME NEW p, NEW s \in Suites
  PROVE  /\ Lineage(p, s) \in SUBSET Suites
         /\ s \in Lineage(p, s)
         /\ Upward(p, Lineage(p, s))
<1>1. ASSUME NEW a \in Lineage(p, s), p[a] \in Suites
      PROVE  p[a] \in Lineage(p, s)
  <2> SUFFICES ASSUME NEW S \in SUBSET Suites, s \in S, Upward(p, S)
               PROVE  p[a] \in S
      BY <1>1 DEF Lineage
  <2>1. a \in S
        BY DEF Lineage
  <2> QED
      BY <1>1, <2>1 DEF Upward
<1> QED
    BY <1>1 DEF Lineage, Upward

\* What the recursive definition of a lineage would say.
LEMMA LineageUnfolds ==
  ASSUME NEW p, NEW s \in Suites
  PROVE  /\ p[s] \in Suites => Lineage(p, s) = {s} \cup Lineage(p, p[s])
         /\ p[s] \notin Suites => Lineage(p, s) = {s}
<1>1. ASSUME p[s] \in Suites
      PROVE  Lineage(p, s) = {s} \cup Lineage(p, p[s])
  <2>1. Lineage(p, s) \subseteq {s} \cup Lineage(p, p[s])
    <3>1. /\ Lineage(p, p[s]) \in SUBSET Suites /\ p[s] \in Lineage(p, p[s])
          /\ Upward(p, Lineage(p, p[s]))
          BY <1>1, LineageUpward
    <3>2. Upward(p, {s} \cup Lineage(p, p[s]))
          BY <3>1 DEF Upward
    <3> QED
        BY <3>1, <3>2, LineageLeast
  <2>2. p[s] \in Lineage(p, s)
        BY <1>1, LineageUpward DEF Upward
  <2>3. Lineage(p, p[s]) \subseteq Lineage(p, s)
        BY <2>2, LineageUpward, LineageLeast
  <2> QED
      BY <2>1, <2>3, LineageUpward
<1>2. ASSUME p[s] \notin Suites
      PROVE  Lineage(p, s) = {s}
  <2>1. Upward(p, {s})
        BY <1>2 DEF Upward
  <2> QED
      BY <2>1, LineageLeast, LineageUpward
<1> QED
    BY <1>1, <1>2

\* A set that holds the suite and the parents of its members bounds its depth.
LEMMA DepthBounded ==
  ASSUME NEW p, NEW s, NEW S \in SUBSET Suites, s \in S, Upward(p, S)
  PROVE  Depth(p, s) \in Nat /\ Cardinality(S) \in Nat /\ Depth(p, s) <= Cardinality(S)
<1>1. IsFiniteSet(S)
      BY SuitesAreFinite, FS_Subset
<1>2. Lineage(p, s) \subseteq S
      BY LineageLeast
<1> QED
    BY <1>1, <1>2, FS_Subset, FS_CardinalityType DEF Depth

LEMMA DepthType ==
  ASSUME NEW p, NEW s \in Suites
  PROVE  Depth(p, s) \in Nat
BY LineageUpward, DepthBounded

\* Both ways to say that there is no cycle mean the same: no set of suites holds
\* all parents of its members, and no suite is among its own ancestors.
THEOREM NoCycleMeansNoOwnAncestor ==
  ASSUME NEW p
  PROVE  NoCycle(p) <=> \A s \in Suites : p[s] \in Suites => s \notin Lineage(p, p[s])
<1>1. ASSUME NoCycle(p), NEW s \in Suites, p[s] \in Suites, s \in Lineage(p, p[s])
      PROVE  FALSE
  <2> DEFINE T == {y \in Lineage(p, s) : s \in Lineage(p, y)}
  <2>1. T \in SUBSET Suites /\ s \in T
        BY LineageUpward
  <2>2. ASSUME NEW y \in T
        PROVE  p[y] \in T
    <3>1. y \in Suites /\ y \in Lineage(p, s) /\ s \in Lineage(p, y)
          BY <2>1
    <3>2. p[y] \in Suites /\ s \in Lineage(p, p[y])
          BY <1>1, <3>1, LineageUnfolds
    <3>3. p[y] \in Lineage(p, s)
          BY <3>1, <3>2, LineageUpward DEF Upward
    <3> QED
        BY <3>2, <3>3
  <2> QED
      BY <1>1, <2>1, <2>2 DEF NoCycle
<1>2. ASSUME \A s \in Suites : p[s] \in Suites => s \notin Lineage(p, p[s]),
             NEW S \in SUBSET Suites, S # {}, \A s \in S : p[s] \in S
      PROVE  FALSE
  <2> DEFINE T == {U \in SUBSET Suites : U # {} /\ \A s \in U : p[s] \in U}
  <2>1. T \subseteq FiniteSubsetsOf(Suites) /\ T # {}
        BY <1>2, SuitesAreFinite, FS_Subset DEF FiniteSubsetsOf
  <2>2. PICK U \in T : \A W \in T : << W, U >> \notin StrictSubsetOrdering(Suites)
        BY <2>1, FS_StrictSubsetOrderingWellFounded, WFMin
  <2>3. PICK s \in U : s \in Suites /\ p[s] \in U /\ p[s] \in Suites
        OBVIOUS
  <2>4. Lineage(p, p[s]) \in T /\ Lineage(p, p[s]) \subseteq U
    <3>1. Upward(p, U)
          BY DEF Upward
    <3>2. Lineage(p, p[s]) \subseteq U
          BY <2>3, <3>1, LineageLeast
    <3>3. /\ Lineage(p, p[s]) \in SUBSET Suites /\ p[s] \in Lineage(p, p[s])
          /\ Upward(p, Lineage(p, p[s]))
          BY <2>3, LineageUpward
    <3>4. \A x \in Lineage(p, p[s]) : p[x] \in Lineage(p, p[s])
          BY <3>2, <3>3 DEF Upward
    <3> QED
        BY <3>2, <3>3, <3>4
  <2>5. Lineage(p, p[s]) = U
        BY <2>2, <2>4 DEF StrictSubsetOrdering
  <2> QED
      BY <1>2, <2>3, <2>5
<1> QED
    BY <1>1, <1>2 DEF NoCycle

-----------------------------------------------------------------------------
(* What a step from a tree p to a tree q does to lineages. *)

\* Where edges are only cut, lineages only shrink.
LEMMA CuttingShrinksLineage ==
  ASSUME NEW p, NEW q, NEW s \in Suites,
         \A x \in Lineage(p, s) : q[x] \in Suites => q[x] = p[x]
  PROVE  Lineage(q, s) \subseteq Lineage(p, s) /\ Depth(q, s) <= Depth(p, s)
<1>1. Lineage(p, s) \in SUBSET Suites /\ s \in Lineage(p, s) /\ Upward(p, Lineage(p, s))
      BY LineageUpward
<1>2. Upward(q, Lineage(p, s))
      BY <1>1 DEF Upward
<1> QED
    BY <1>1, <1>2, LineageLeast, DepthBounded DEF Depth

\* Nothing changes above a suite that is not below the one suite that changes.
LEMMA OnlyBelowIsMoved ==
  ASSUME NEW p, NEW q, NEW s \in Suites, NEW m, m \notin Lineage(q, s),
         \A x \in Suites \ {m} : q[x] = p[x]
  PROVE  Depth(q, s) <= Depth(p, s)
<1> DEFINE L == Lineage(q, s) \cap Lineage(p, s)
<1>1. /\ L \in SUBSET Suites /\ s \in L
      /\ Upward(p, Lineage(p, s)) /\ Upward(q, Lineage(q, s))
      BY LineageUpward
<1>2. Upward(q, L)
      BY <1>1 DEF Upward
<1>3. Lineage(q, s) \subseteq Lineage(p, s)
      BY <1>1, <1>2, LineageLeast
<1>4. IsFiniteSet(Lineage(p, s))
      BY <1>1, LineageUpward, SuitesAreFinite, FS_Subset
<1> QED
    BY <1>3, <1>4, FS_Subset DEF Depth

\* A suite put below target is one level deeper than a set that holds target
\* and is closed under "parent" is large.
LEMMA DepthBelow ==
  ASSUME NEW p \in [Suites -> Suites \cup {Root, Unborn, Gone}],
         NEW s \in Suites, NEW target \in Suites,
         NEW V \in SUBSET Suites, target \in V, Upward(p, V)
  PROVE  Depth([p EXCEPT ![s] = target], s) <= Cardinality(V) + 1
<1> DEFINE q == [p EXCEPT ![s] = target]
<1>1. Upward(q, V \cup {s}) /\ V \cup {s} \in SUBSET Suites
      BY DEF Upward
<1>2. IsFiniteSet(V)
      BY SuitesAreFinite, FS_Subset
<1>3. Cardinality(V \cup {s}) <= Cardinality(V) + 1
  <2>1. Cardinality(V) \in Nat
        BY <1>2, FS_CardinalityType
  <2>2. Cardinality(V \cup {s}) = IF s \in V THEN Cardinality(V) ELSE Cardinality(V) + 1
        BY <1>2, FS_AddElement
  <2> QED
      BY <2>1, <2>2
<1>4. /\ Depth(q, s) \in Nat /\ Cardinality(V \cup {s}) \in Nat
      /\ Depth(q, s) <= Cardinality(V \cup {s})
      BY <1>1, DepthBounded
<1>5. Cardinality(V) \in Nat
      BY <1>2, FS_CardinalityType
<1> QED
    BY <1>3, <1>4, <1>5

-----------------------------------------------------------------------------
(* What a request has read, while no other move is committed: the parents   *)
(* it holds, the levels it has counted, and the suites it has collected.    *)

\* A parent that is held is still the parent, unless it was deleted.
KeptOK(t) ==
  "patch" \notin t.others =>
    \A x \in DOMAIN t.kept : tree[x] # Unborn /\ (tree[x] \in Suites => tree[x] = t.kept[x])

\* The suites of V have been counted, and hold their parents but for the next.
Counted(t, V) ==
  /\ t.target \in V
  /\ t.depth < MAX_SUITE_DEPTH => Cardinality(V) <= t.depth
  /\ t.phase = "write" => t.depth < MAX_SUITE_DEPTH
  /\ \A x \in V : tree[x] # Unborn
  /\ \A x \in V : tree[x] \in Suites => tree[x] \in V \/ (t.phase = "depth" /\ tree[x] = t.at)

CountedOK(t) ==
  /\ t.phase = "depth" \/ (t.phase = "write" /\ t.target # Root)
  /\ "patch" \notin t.others
  => \E V \in SUBSET Suites : Counted(t, V)

\* A deletion has collected suites below its own, and their children but for
\* those it is still to list.
CollectOK(t) ==
  t.op = "delete" /\ t.others = {} =>
    /\ t.suite \in t.seen /\ t.todo \in Seq(Suites)
    /\ \A d \in t.seen : d \in Subtree(tree, t.suite)
    /\ \A k \in DOMAIN t.todo : t.todo[k] \in t.seen
    /\ \A c \in Suites : tree[c] \in t.seen =>
         c \in t.seen \/ \E k \in DOMAIN t.todo : t.todo[k] = tree[c]

OpFits(t) ==
  /\ t.op = "idle" => t = Idle
  /\ t.op = "delete" => t.phase = "collect"

Exact(t) == KeptOK(t) /\ CountedOK(t) /\ CollectOK(t) /\ OpFits(t)

WalkIInv == TypeIInv /\ \A r \in Requests : Exact(tx[r])

LEMMA IdleExact == Exact(Idle)
BY DEF Exact, KeptOK, CountedOK, CollectOK, OpFits, Idle, NoObjects

\* One request changes, and the tree does not.
LEMMA OneIsExact ==
  ASSUME WalkIInv, TypeIInv', NEW r \in Requests, NEW t, tx' = [tx EXCEPT ![r] = t],
         UNCHANGED tree, Exact(t)
  PROVE  WalkIInv'
<1>1. \A o \in Requests : tx'[o] = IF o = r THEN t ELSE tx[o]
      BY DEF WalkIInv, TypeIInv, IInv
<1>2. ASSUME NEW o \in Requests
      PROVE  Exact(tx[o])'
  <2>1. Exact(tx'[o])
        BY <1>1 DEF WalkIInv
  <2>2. KeptOK(tx[o])' /\ OpFits(tx[o])'
        BY <2>1 DEF Exact, KeptOK, OpFits
  <2>3. CountedOK(tx[o])'
        BY <2>1 DEF Exact, CountedOK, Counted
  <2>4. CollectOK(tx[o])'
        BY <2>1 DEF Exact, CollectOK
  <2> QED
      BY <2>2, <2>3, <2>4 DEF Exact
<1> QED
    BY <1>2 DEF WalkIInv

LEMMA StepIsExact ==
  ASSUME WalkIInv, TypeIInv', NEW r \in Requests, NEW t, Step(r, t), Exact(t)
  PROVE  WalkIInv'
BY OneIsExact DEF Step

LEMMA RefuseIsExact ==
  ASSUME WalkIInv, TypeIInv', NEW r \in Requests, Refuse(r)
  PROVE  WalkIInv'
BY IdleExact, StepIsExact DEF Refuse

LEMMA BeginIsExact ==
  ASSUME WalkIInv, TypeIInv', NEW r \in Requests, NEW s \in Suites,
         NEW target \in Suites \cup {Root},
         BeginCreate(r, s, target) \/ BeginPatch(r, s, target) \/ BeginDelete(r, s)
  PROVE  WalkIInv'
<1>1. PICK t : Begin(r, t) /\ Exact(t)
  <2>1. FirstPhase(target) = "parent" \/ (FirstPhase(target) = "write" /\ target = Root)
        BY DEF FirstPhase
  <2>2. CASE BeginCreate(r, s, target)
    <3> DEFINE t == [Idle EXCEPT !.op = "create", !.suite = s, !.target = target,
                                 !.phase = FirstPhase(target)]
    <3>1. /\ t.op = "create" /\ t.target = target /\ t.phase = FirstPhase(target)
          /\ DOMAIN t.kept = {} /\ t.others = {}
          BY DEF Idle, NoObjects
    <3> HIDE DEF t
    <3>2. Exact(t)
          BY <2>1, <3>1 DEF Exact, KeptOK, CountedOK, CollectOK, OpFits
    <3> QED
        BY <2>2, <3>2 DEF BeginCreate, t
  <2>3. CASE BeginPatch(r, s, target)
    <3> DEFINE t == [Idle EXCEPT !.op = "patch", !.suite = s, !.target = target,
                                 !.phase = FirstPhase(target),
                                 !.kept = [x \in {s} |-> tree[s]]]
    <3>1. /\ t.op = "patch" /\ t.target = target /\ t.phase = FirstPhase(target)
          /\ t.kept = [x \in {s} |-> tree[s]] /\ t.others = {}
          BY DEF Idle
    <3>2. tree[s] # Unborn
          BY <2>3, MarksAreNoSuites DEF BeginPatch, Live, IsRow
    <3> HIDE DEF t
    <3>3. Exact(t)
          BY <2>1, <3>1, <3>2 DEF Exact, KeptOK, CountedOK, CollectOK, OpFits
    <3> QED
        BY <2>3, <3>3 DEF BeginPatch, t
  <2>4. CASE BeginDelete(r, s)
    <3> DEFINE t == [Idle EXCEPT !.op = "delete", !.suite = s, !.phase = "collect",
                                 !.kept = [x \in {s} |-> tree[s]], !.seen = {s},
                                 !.todo = << s >>]
    <3>1. /\ t.op = "delete" /\ t.suite = s /\ t.phase = "collect" /\ t.seen = {s}
          /\ t.kept = [x \in {s} |-> tree[s]] /\ t.todo = << s >> /\ t.others = {}
          BY DEF Idle
    <3>2. tree[s] # Unborn /\ IsRow(tree, s)
          BY <2>4, MarksAreNoSuites DEF BeginDelete, Live, IsRow
    <3>3. s \in Subtree(tree, s)
          BY <3>2, LineageUpward DEF Subtree
    <3> HIDE DEF t
    <3>4. KeptOK(t) /\ CountedOK(t) /\ OpFits(t)
          BY <3>1, <3>2 DEF KeptOK, CountedOK, OpFits
    <3>5. CollectOK(t)
          BY <3>1, <3>3 DEF CollectOK
    <3> QED
        BY <2>4, <3>4, <3>5 DEF BeginDelete, Exact, t
  <2> QED
      BY <2>2, <2>3, <2>4
<1> QED
    BY <1>1, OneIsExact DEF Begin

LEMMA FetchParentIsExact ==
  ASSUME WalkIInv, TypeIInv', NEW r \in Requests, FetchParent(r)
  PROVE  WalkIInv'
<1> DEFINE t == tx[r]
           u == [t EXCEPT !.phase = "cycle", !.seen = {t.target},
                          !.at = Loaded(t, t.target), !.kept = Keep(t, t.target)]
<1>1. Shaped(t) /\ Exact(t) /\ t.phase = "parent" /\ t.op # "delete"
      BY DEF WalkIInv, TypeIInv, IInv, FetchParent, Exact, OpFits
<1>2. CASE Refuse(r)
      BY <1>2, RefuseIsExact
<1>3. CASE Live(t.target) /\ Step(r, u)
  <2>1. /\ u.op = t.op /\ u.phase = "cycle" /\ u.kept = Keep(t, t.target)
        /\ u.others = t.others
        BY <1>1 DEF Shaped, Fields
  <2>2. tree[t.target] # Unborn
        BY <1>3, MarksAreNoSuites DEF Live, IsRow
  <2>3. KeptOK(u)
        BY <1>1, <2>1, <2>2 DEF Exact, KeptOK, Keep, Loaded
  <2>4. CountedOK(u) /\ CollectOK(u) /\ OpFits(u)
        BY <1>1, <2>1 DEF Exact, CountedOK, CollectOK, OpFits, Idle
  <2> QED
      BY <1>3, <2>3, <2>4, StepIsExact DEF Exact
<1> QED
    BY <1>2, <1>3 DEF FetchParent

\* The count starts with the parent-to-be, whose parent is the next to be seen.
LEMMA StartDepthIsExact ==
  ASSUME NEW t, Shaped(t), KeptOK(t), t.op # "delete", t.op # "idle",
         t.target \in DOMAIN t.kept, t.target \in Suites
  PROVE  Exact(StartDepth(t))
<1> DEFINE u == StartDepth(t)
<1>1. /\ u.op = t.op /\ u.target = t.target /\ u.phase = "depth"
      /\ u.at = Loaded(t, t.target) /\ u.kept = t.kept /\ u.depth = 1
      /\ u.others = t.others
      BY DEF Shaped, Fields, StartDepth
<1> HIDE DEF u
<1>2. KeptOK(u)
      BY <1>1 DEF KeptOK
<1>3. CountedOK(u)
  <2> SUFFICES ASSUME "patch" \notin t.others PROVE Counted(u, {t.target})
      BY <1>1 DEF CountedOK
  <2>1. Cardinality({t.target}) = 1
        BY FS_Singleton
  <2>2. tree[t.target] # Unborn /\ (tree[t.target] \in Suites => tree[t.target] = u.at)
        BY <1>1 DEF KeptOK, Loaded
  <2> QED
      BY <1>1, <2>1, <2>2 DEF Counted
<1>4. CollectOK(u) /\ OpFits(u)
      BY <1>1 DEF CollectOK, OpFits
<1> QED
    BY <1>2, <1>3, <1>4 DEF Exact, u

\* What the walk keeps is as exact as what it held, or has just been read.
LEMMA KeepOnlyIsExact ==
  ASSUME NEW t, KeptOK(t), "patch" \notin t.others, NEW s, Live(s),
         NEW x \in DOMAIN KeepOnly(t, s)
  PROVE  tree[x] # Unborn /\ (tree[x] \in Suites => tree[x] = KeepOnly(t, s)[x])
<1>1. KeepOnly(t, s)[x] = Loaded(t, x) /\ (x \in DOMAIN t.kept \/ x = s)
      BY DEF KeepOnly
<1>2. tree[s] # Unborn
      BY MarksAreNoSuites DEF Live, IsRow
<1> QED
    BY <1>1, <1>2 DEF KeptOK, Loaded

LEMMA WalkUpIsExact ==
  ASSUME WalkIInv, TypeIInv', NEW r \in Requests, WalkUp(r)
  PROVE  WalkIInv'
<1> DEFINE t == tx[r]
           v == [t EXCEPT !.kept = KeepOnly(t, t.at)]
           w == [t EXCEPT !.seen = @ \cup {t.at}, !.at = Loaded(t, t.at),
                          !.kept = KeepOnly(t, t.at)]
<1>1. /\ Shaped(t) /\ Exact(t) /\ t.phase = "cycle" /\ t.op \notin {"delete", "idle"}
      /\ t.target \in DOMAIN t.kept /\ t.target \in Suites /\ Typed(t)
      BY DEF WalkIInv, TypeIInv, IInv, WalkUp, Exact, OpFits, Idle, InPhase, Typed
<1>2. CASE Refuse(r)
      BY <1>2, RefuseIsExact
<1>3. CASE Step(r, StartDepth(t))
      BY <1>1, <1>3, StartDepthIsExact, StepIsExact DEF Exact
<1>4. CASE Live(t.at) /\ Step(r, StartDepth(v))
  <2>1. /\ v.op = t.op /\ v.target = t.target /\ v.kept = KeepOnly(t, t.at)
        /\ v.others = t.others /\ Shaped(v)
        BY <1>1 DEF Shaped, Fields
  <2>2. KeptOK(v)
        BY <1>1, <1>4, <2>1, KeepOnlyIsExact DEF Exact, KeptOK
  <2>3. t.target \in DOMAIN v.kept
        BY <1>1, <1>4, <2>1, KeepOnlyTyped
  <2> HIDE DEF v
  <2> QED
      BY <1>1, <1>4, <2>1, <2>2, <2>3, StartDepthIsExact, StepIsExact
<1>5. CASE Live(t.at) /\ Step(r, w)
  <2>1. /\ w.op = t.op /\ w.target = t.target /\ w.phase = t.phase
        /\ w.kept = KeepOnly(t, t.at) /\ w.others = t.others
        BY <1>1 DEF Shaped, Fields
  <2> HIDE DEF w
  <2>2. KeptOK(w)
        BY <1>1, <1>5, <2>1, KeepOnlyIsExact DEF Exact, KeptOK
  <2>3. CountedOK(w) /\ CollectOK(w) /\ OpFits(w)
        BY <1>1, <2>1 DEF CountedOK, CollectOK, OpFits
  <2> QED
      BY <1>5, <2>2, <2>3, StepIsExact DEF Exact
<1> QED
    BY <1>2, <1>3, <1>4, <1>5 DEF WalkUp

LEMMA CountLevelIsExact ==
  ASSUME WalkIInv, TypeIInv', NEW r \in Requests, CountLevel(r)
  PROVE  WalkIInv'
<1> DEFINE t == tx[r]
           u == [t EXCEPT !.at = Loaded(t, t.at), !.depth = IF TooDeep(t) THEN @ ELSE @ + 1]
           v == [t EXCEPT !.phase = "write"]
<1>1. /\ Shaped(t) /\ Exact(t) /\ Typed(t) /\ t.phase = "depth"
      /\ t.op \notin {"delete", "idle"} /\ ParentsExist(tree) /\ MAX_SUITE_DEPTH \in Nat
      BY DepthIsPositive DEF WalkIInv, TypeIInv, IInv, CountLevel, Exact, OpFits, Idle
<1>2. CASE Refuse(r)
      BY <1>2, RefuseIsExact
<1>3. CASE Live(t.at) /\ Step(r, u)
  <2>1. /\ u.op = t.op /\ u.target = t.target /\ u.phase = t.phase
        /\ u.at = Loaded(t, t.at) /\ u.kept = t.kept /\ u.others = t.others
        /\ u.depth = IF TooDeep(t) THEN t.depth ELSE t.depth + 1
        BY <1>1 DEF Shaped, Fields
  <2> HIDE DEF u
  <2>2. KeptOK(u) /\ CollectOK(u) /\ OpFits(u)
        BY <1>1, <2>1 DEF Exact, KeptOK, CollectOK, OpFits
  <2>3. CountedOK(u)
    <3> SUFFICES ASSUME "patch" \notin t.others
                 PROVE  \E V \in SUBSET Suites : Counted(u, V)
        BY <2>1 DEF CountedOK
    <3>1. PICK V \in SUBSET Suites : Counted(t, V)
          BY <1>1 DEF Exact, CountedOK
    <3>2. t.at \in Suites /\ tree[t.at] # Unborn
          BY <1>3, MarksAreNoSuites DEF Live, IsRow
    <3>3. tree[t.at] \in Suites => tree[t.at] = u.at
          BY <1>1, <2>1 DEF Loaded, Exact, KeptOK
    <3>4. u.depth < MAX_SUITE_DEPTH => Cardinality(V \cup {t.at}) <= u.depth
      <4>1. IsFiniteSet(V) /\ Cardinality(V) \in Nat
            BY SuitesAreFinite, FS_Subset, FS_CardinalityType
      <4>2. Cardinality(V \cup {t.at}) = IF t.at \in V THEN Cardinality(V)
                                          ELSE Cardinality(V) + 1
            BY <4>1, FS_AddElement
      <4>3. t.depth \in Nat /\ (t.depth < MAX_SUITE_DEPTH => Cardinality(V) <= t.depth)
            BY <1>1, <3>1 DEF Typed, Counted
      <4> QED
          BY <1>1, <2>1, <4>1, <4>2, <4>3 DEF TooDeep
    <3>5. \A x \in V \cup {t.at} :
            tree[x] # Unborn /\ (tree[x] \in Suites => tree[x] \in V \cup {t.at} \/ tree[x] = u.at)
          BY <3>1, <3>2, <3>3 DEF Counted
    <3>6. Counted(u, V \cup {t.at})
          BY <1>1, <2>1, <3>1, <3>4, <3>5 DEF Counted
    <3> QED
        BY <3>2, <3>6
  <2> QED
      BY <1>3, <2>2, <2>3, StepIsExact DEF Exact
<1>4. CASE ~Live(t.at) /\ ~TooDeep(t) /\ Step(r, v)
  <2>1. /\ v.op = t.op /\ v.target = t.target /\ v.phase = "write" /\ v.at = t.at
        /\ v.kept = t.kept /\ v.others = t.others /\ v.depth = t.depth
        BY <1>1 DEF Shaped, Fields
  <2> HIDE DEF v
  <2>2. KeptOK(v) /\ CollectOK(v) /\ OpFits(v)
        BY <1>1, <2>1 DEF Exact, KeptOK, CollectOK, OpFits
  <2>3. CountedOK(v)
    <3> SUFFICES ASSUME "patch" \notin t.others
                 PROVE  \E V \in SUBSET Suites : Counted(v, V)
        BY <2>1 DEF CountedOK
    <3>1. PICK V \in SUBSET Suites : Counted(t, V)
          BY <1>1 DEF Exact, CountedOK
    <3>2. \A x \in V : tree[x] \in Suites => tree[x] # t.at
          BY <1>1, <1>4 DEF ParentsExist, Live
    <3>3. t.depth \in Nat /\ t.depth < MAX_SUITE_DEPTH
          BY <1>1, <1>4 DEF Typed, TooDeep
    <3>4. Counted(v, V)
          BY <2>1, <3>1, <3>2, <3>3 DEF Counted
    <3> QED
        BY <3>4
  <2> QED
      BY <1>4, <2>2, <2>3, StepIsExact DEF Exact
<1> QED
    BY <1>2, <1>3, <1>4 DEF CountLevel

\* The children of a suite, in any order, go before the rest of the list.
LEMMA ChildrenGoFirst ==
  ASSUME NEW S \in SUBSET Suites, NEW order \in Orders(S),
         NEW todo \in Seq(Suites), todo # << >>
  PROVE  /\ order \o Tail(todo) \in Seq(Suites)
         /\ \A k \in DOMAIN (order \o Tail(todo)) :
              \/ (order \o Tail(todo))[k] \in S
              \/ \E j \in DOMAIN todo : (order \o Tail(todo))[k] = todo[j]
         /\ \A s \in S : \E k \in DOMAIN (order \o Tail(todo)) : (order \o Tail(todo))[k] = s
         /\ \A j \in DOMAIN todo : j # 1 =>
              \E k \in DOMAIN (order \o Tail(todo)) : (order \o Tail(todo))[k] = todo[j]
<1> DEFINE n == Cardinality(S)
           rest == Tail(todo)
           new == order \o rest
<1>1. n \in Nat
      BY SuitesAreFinite, FS_Subset, FS_CardinalityType
<1>2. order \in [1 .. n -> S] /\ \A s \in S : \E k \in 1 .. n : order[k] = s
      BY DEF Orders
<1>3. order \in Seq(Suites) /\ Len(order) = n
      BY <1>1, <1>2
<1>4. rest \in Seq(Suites) /\ Len(rest) = Len(todo) - 1 /\ Len(todo) \in Nat \ {0}
      OBVIOUS
<1>5. \A j \in 1 .. Len(rest) : rest[j] = todo[j + 1]
      OBVIOUS
<1> HIDE DEF n, rest
<1>6. /\ new \in Seq(Suites) /\ Len(new) = n + Len(rest) /\ DOMAIN new = 1 .. n + Len(rest)
      /\ \A k \in 1 .. n : new[k] = order[k]
      /\ \A k \in n + 1 .. n + Len(rest) : new[k] = rest[k - n]
      BY <1>1, <1>3, <1>4
<1> HIDE DEF new
<1>7. ASSUME NEW k \in DOMAIN new
      PROVE  new[k] \in S \/ \E j \in DOMAIN todo : new[k] = todo[j]
  <2>1. CASE k \in 1 .. n
        BY <2>1, <1>2, <1>6
  <2>2. CASE k \notin 1 .. n
    <3>1. k \in 1 .. n + Len(rest) /\ Len(rest) \in Nat
          BY <1>4, <1>6
    <3>2. k \in n + 1 .. n + Len(rest) /\ k - n \in 1 .. Len(rest)
          BY <2>2, <3>1, <1>1
    <3>3. new[k] = todo[k - n + 1]
          BY <3>2, <1>5, <1>6
    <3>4. k - n + 1 \in 1 .. Len(todo)
          BY <3>1, <3>2, <1>1, <1>4
    <3> QED
        BY <3>3, <3>4
  <2> QED
      BY <2>1, <2>2
<1>8. ASSUME NEW s \in S
      PROVE  \E k \in DOMAIN new : new[k] = s
  <2>1. PICK k \in 1 .. n : order[k] = s
        BY <1>2
  <2>2. k \in DOMAIN new /\ new[k] = s
        BY <2>1, <1>1, <1>4, <1>6
  <2> QED
      BY <2>2
<1>9. ASSUME NEW j \in DOMAIN todo, j # 1
      PROVE  \E k \in DOMAIN new : new[k] = todo[j]
  <2>1. j - 1 \in 1 .. Len(rest) /\ rest[j - 1] = todo[j]
        BY <1>4, <1>5, <1>9
  <2> DEFINE k == n + (j - 1)
  <2>2. k \in n + 1 .. n + Len(rest) /\ k - n = j - 1 /\ k \in 1 .. n + Len(rest)
        BY <2>1, <1>1, <1>4
  <2> HIDE DEF k
  <2>3. new[k] = rest[k - n]
        BY <2>2, <1>6
  <2> QED
      BY <2>1, <2>2, <2>3, <1>6
<1> QED
    BY <1>6, <1>7, <1>8, <1>9 DEF new, rest

LEMMA ListChildrenIsExact ==
  ASSUME WalkIInv, TypeIInv', NEW r \in Requests, ListChildren(r)
  PROVE  WalkIInv'
<1> DEFINE t == tx[r]
           found == Children(Head(t.todo))
<1>1. /\ Shaped(t) /\ Exact(t) /\ Typed(t) /\ t.phase = "collect" /\ t.todo # << >>
      /\ t.op = "delete" /\ found \in SUBSET Suites
      BY DEF WalkIInv, TypeIInv, IInv, InPhase, ListChildren, Children
<1>2. CASE Refuse(r)
      BY <1>2, RefuseIsExact
<1>3. ASSUME NEW order \in Orders(found),
             Step(r, [t EXCEPT !.seen = @ \cup found, !.todo = order \o Tail(@)])
      PROVE  WalkIInv'
  <2> DEFINE new == order \o Tail(t.todo)
             u == [t EXCEPT !.seen = @ \cup found, !.todo = new]
  <2>1. /\ u.op = t.op /\ u.suite = t.suite /\ u.phase = t.phase /\ u.kept = t.kept
        /\ u.seen = t.seen \cup found /\ u.todo = new /\ u.others = t.others
        BY <1>1 DEF Shaped, Fields
  <2>2. Step(r, u)
        BY <1>3, <1>1 DEF Shaped, Fields
  <2> HIDE DEF u
  <2>3. KeptOK(u) /\ CountedOK(u) /\ OpFits(u)
        BY <1>1, <2>1 DEF Exact, KeptOK, CountedOK, OpFits
  <2>4. CollectOK(u)
    <3> SUFFICES ASSUME t.others = {} PROVE CollectOK(u)
        BY <2>1 DEF CollectOK
    <3>1. /\ t.suite \in t.seen /\ t.todo \in Seq(Suites)
          /\ \A d \in t.seen : d \in Subtree(tree, t.suite)
          /\ \A k \in DOMAIN t.todo : t.todo[k] \in t.seen
          /\ \A c \in Suites : tree[c] \in t.seen =>
               c \in t.seen \/ \E k \in DOMAIN t.todo : t.todo[k] = tree[c]
          BY <1>1 DEF Exact, CollectOK
    <3>2. 1 \in DOMAIN t.todo /\ Head(t.todo) = t.todo[1]
          BY <1>1, <3>1
    <3>3. /\ new \in Seq(Suites)
          /\ \A k \in DOMAIN new : new[k] \in found \/ \E j \in DOMAIN t.todo : new[k] = t.todo[j]
          /\ \A s \in found : \E k \in DOMAIN new : new[k] = s
          /\ \A j \in DOMAIN t.todo : j # 1 => \E k \in DOMAIN new : new[k] = t.todo[j]
          BY <1>1, <1>3, <3>1, ChildrenGoFirst
    <3> HIDE DEF new
    <3>4. ASSUME NEW d \in found
          PROVE  d \in Subtree(tree, t.suite)
      <4>1. d \in Suites /\ tree[d] = t.todo[1] /\ t.todo[1] \in Subtree(tree, t.suite)
            BY <3>1, <3>2 DEF Children
      <4>2. tree[d] \in Suites /\ t.suite \in Lineage(tree, tree[d])
            BY <4>1 DEF Subtree
      <4>3. t.suite \in Lineage(tree, d) /\ IsRow(tree, d)
            BY <4>1, <4>2, LineageUnfolds DEF IsRow
      <4> QED
          BY <4>1, <4>3 DEF Subtree
    <3>5. ASSUME NEW c \in Suites, tree[c] \in t.seen \cup found
          PROVE  c \in t.seen \cup found \/ \E k \in DOMAIN new : new[k] = tree[c]
      <4>1. CASE tree[c] \in found
            BY <4>1, <3>3
      <4>2. CASE tree[c] \in t.seen /\ tree[c] = t.todo[1]
            BY <4>2, <3>2 DEF Children
      <4>3. CASE tree[c] \in t.seen /\ tree[c] # t.todo[1]
            BY <4>3, <3>1, <3>3
      <4> QED
          BY <3>5, <4>1, <4>2, <4>3
    <3>6. \A k \in DOMAIN new : new[k] \in t.seen \cup found
          BY <3>1, <3>3
    <3> QED
        BY <2>1, <3>1, <3>3, <3>4, <3>5, <3>6 DEF CollectOK
  <2> QED
      BY <2>2, <2>3, <2>4, StepIsExact DEF Exact
<1> QED
    BY <1>2, <1>3 DEF ListChildren

\* A commit, as CommitKeepsIInv has it: it moves suites, or else it only cuts
\* edges of the rows that others may hold.
LEMMA CommitIsExact ==
  ASSUME WalkIInv, TypeIInv', NEW r \in Requests, NEW p, Commit(r, p),
         \/ tx[r].op = "patch"
         \/ \A x \in Suites : tree[x] # Unborn =>
              p[x] # Unborn /\ (p[x] \in Suites => p[x] = tree[x])
  PROVE  WalkIInv'
<1>1. ASSUME NEW o \in Requests
      PROVE  Exact(tx[o])'
  <2>1. Shaped(tx[o]) /\ Typed(tx[o]) /\ Exact(tx[o])
        BY DEF WalkIInv, TypeIInv, IInv
  <2>2. CASE o = r
    <3>1. tx'[o] = Idle
          BY <2>2 DEF Commit
    <3> QED
        BY <3>1 DEF Exact, KeptOK, CountedOK, CollectOK, OpFits, Idle, NoObjects
  <2>3. CASE o # r /\ (tx[o].op = "idle" \/ p = tree)
    <3>1. tx'[o] = tx[o] /\ tree' = p
          BY <2>3 DEF Commit
    <3>2. CASE tx[o].op = "idle"
      <4>1. tx'[o] = Idle
            BY <2>1, <3>1, <3>2 DEF Exact, OpFits
      <4> QED
          BY <4>1 DEF Exact, KeptOK, CountedOK, CollectOK, OpFits, Idle, NoObjects
    <3>3. CASE p = tree
      <4>1. KeptOK(tx[o])' /\ OpFits(tx[o])'
            BY <2>1, <3>1, <3>3 DEF Exact, KeptOK, OpFits
      <4>2. CountedOK(tx[o])'
            BY <2>1, <3>1, <3>3 DEF Exact, CountedOK, Counted
      <4>3. CollectOK(tx[o])'
            BY <2>1, <3>1, <3>3 DEF Exact, CollectOK
      <4> QED
          BY <4>1, <4>2, <4>3 DEF Exact
    <3> QED
        BY <2>3, <3>2, <3>3
  <2>4. CASE o # r /\ tx[o].op # "idle" /\ p # tree
    <3> DEFINE t == tx[o]
               u == [t EXCEPT !.others = @ \cup {tx[r].op}]
    <3>1. /\ u.op = t.op /\ u.suite = t.suite /\ u.target = t.target
          /\ u.phase = t.phase /\ u.seen = t.seen /\ u.at = t.at
          /\ u.kept = t.kept /\ u.depth = t.depth
          /\ u.others = t.others \cup {tx[r].op}
          BY <2>1 DEF Shaped, Fields
    <3>2. tx'[o] = u /\ tree' = p
          BY <2>4 DEF Commit
    <3> HIDE DEF u
    <3>3. "patch" \notin u.others =>
            /\ "patch" \notin t.others
            /\ \A x \in Suites : tree[x] # Unborn =>
                 p[x] # Unborn /\ (p[x] \in Suites => p[x] = tree[x])
          BY <3>1
    <3>4. KeptOK(tx[o])'
          BY <2>1, <3>1, <3>2, <3>3 DEF Exact, KeptOK, Typed
    <3>5. CountedOK(tx[o])'
      <4> SUFFICES ASSUME u.phase = "depth" \/ (u.phase = "write" /\ u.target # Root),
                          "patch" \notin u.others
                   PROVE  \E V \in SUBSET Suites : Counted(tx[o], V)'
          BY <3>2 DEF CountedOK
      <4>1. PICK V \in SUBSET Suites : Counted(t, V)
            BY <2>1, <3>1, <3>3 DEF Exact, CountedOK
      <4>2. \A x \in V : p[x] # Unborn /\ (p[x] \in Suites => p[x] = tree[x])
            BY <3>3, <4>1 DEF Counted
      <4>3. Counted(tx[o], V)'
            BY <3>1, <3>2, <4>1, <4>2 DEF Counted
      <4> QED
          BY <4>3
    <3>6. CollectOK(tx[o])' /\ OpFits(tx[o])'
          BY <2>1, <2>4, <3>1, <3>2 DEF Exact, CollectOK, OpFits
    <3> QED
        BY <3>4, <3>5, <3>6 DEF Exact
  <2> QED
      BY <2>2, <2>3, <2>4
<1> QED
    BY <1>1 DEF WalkIInv

\* A deletion cuts edges.
LEMMA WithoutCuts ==
  ASSUME NEW S \in SUBSET Suites
  PROVE  /\ \A x \in Suites : Without(S)[x] \in Suites => Without(S)[x] = tree[x]
         /\ \A x \in Suites : tree[x] # Unborn => Without(S)[x] # Unborn
         /\ \A x \in Suites : IsRow(Without(S), x) => Without(S)[x] \in {tree[x], Root}
BY MarksAreNoSuites DEF Without, IsRow

LEMMA WriteIsExact ==
  ASSUME WalkIInv, TypeIInv', NEW r \in Requests,
         WriteCreate(r) \/ WritePatch(r) \/ WriteDelete(r)
  PROVE  WalkIInv'
<1> DEFINE t == tx[r]
<1>1. CASE Refuse(r)
      BY <1>1, RefuseIsExact
<1>2. CASE WriteCreate(r) /\ Commit(r, [tree EXCEPT ![t.suite] = t.target])
  <2>1. tree[t.suite] = Unborn /\ tree \in [Suites -> Suites \cup {Root, Unborn, Gone}]
        BY <1>2 DEF WalkIInv, TypeIInv, IInv, CreateOK, WriteCreate
  <2> QED
      BY <1>2, <2>1, CommitIsExact
<1>3. CASE WritePatch(r) /\ \E p : Commit(r, p)
      BY <1>3, CommitIsExact DEF WritePatch
<1>4. CASE WriteDelete(r)
  <2>1. t.seen \in SUBSET Suites
        BY DEF WalkIInv, TypeIInv, Typed
  <2> QED
      BY <1>4, <2>1, WithoutCuts, CommitIsExact DEF WriteDelete
<1> QED
    BY <1>1, <1>2, <1>3, <1>4 DEF WriteCreate, WritePatch

LEMMA WalkIInvHolds == Spec => []WalkIInv
<1>1. Init => WalkIInv
  <2> SUFFICES ASSUME Init, TypeIInv PROVE WalkIInv
      BY InitTyped
  <2> QED
      BY IdleExact DEF Init, WalkIInv
<1>2. ASSUME WalkIInv, TypeIInv', Next
      PROVE  WalkIInv'
      BY <1>2, BeginIsExact, FetchParentIsExact, WalkUpIsExact, CountLevelIsExact,
         ListChildrenIsExact, WriteIsExact DEF Next
<1>3. ASSUME WalkIInv, TypeIInv', UNCHANGED vars
      PROVE  WalkIInv'
  <2>1. UNCHANGED << tree, tx >>
        BY <1>3 DEF vars
  <2>2. ASSUME NEW o \in Requests
        PROVE  Exact(tx[o])'
    <3>1. Exact(tx[o])
          BY <1>3 DEF WalkIInv
    <3>2. KeptOK(tx[o])' /\ OpFits(tx[o])' /\ CollectOK(tx[o])'
          BY <2>1, <3>1 DEF Exact, KeptOK, OpFits, CollectOK
    <3>3. CountedOK(tx[o])'
          BY <2>1, <3>1 DEF Exact, CountedOK, Counted
    <3> QED
        BY <3>2, <3>3 DEF Exact
  <2> QED
      BY <1>3, <2>2 DEF WalkIInv
<1> QED
    BY <1>1, <1>2, <1>3, TypeIInvHolds, PTL DEF Spec

-----------------------------------------------------------------------------
(* Commits are steps of SuiteForest. *)

\* What changes the tree is the commit of one request, and no other ends.
LEMMA OneCommits ==
  ASSUME WalkIInv, Next, tree' # tree
  PROVE  \E q \in Requests :
           /\ Ends(q)
           /\ \A o \in Requests : Ends(o) => o = q
           /\ \/ WriteCreate(q) /\ ParentExists(tx[q])
                 /\ tree' = [tree EXCEPT ![tx[q].suite] = tx[q].target]
              \/ WritePatch(q) /\ Live(tx[q].suite) /\ ParentExists(tx[q])
                 /\ tree' = [tree EXCEPT ![tx[q].suite] = tx[q].target]
              \/ WriteDelete(q) /\ tree' = Without(tx[q].seen)
<1>1. PICK q \in Requests : WriteCreate(q) \/ WritePatch(q) \/ WriteDelete(q)
      BY DEF Next, BeginCreate, BeginPatch, BeginDelete, Begin, FetchParent, WalkUp,
             CountLevel, ListChildren, Refuse, Step
<1>2. /\ \/ WriteCreate(q) /\ ParentExists(tx[q])
            /\ tree' = [tree EXCEPT ![tx[q].suite] = tx[q].target]
         \/ WritePatch(q) /\ Live(tx[q].suite) /\ ParentExists(tx[q])
            /\ tree' = [tree EXCEPT ![tx[q].suite] = tx[q].target]
         \/ WriteDelete(q) /\ tree' = Without(tx[q].seen)
      /\ Commit(q, tree')
      BY <1>1 DEF WriteCreate, WritePatch, WriteDelete, Commit, Refuse, Step
<1>3. Exact(tx[q]) /\ tx[q].op # "idle"
      BY <1>1 DEF WalkIInv, Exact, OpFits, Idle, WriteCreate, WritePatch, WriteDelete
<1>4. Ends(q)
      BY <1>2, <1>3 DEF Commit, Ends, Idle
<1>5. ASSUME NEW o \in Requests, o # q
      PROVE  ~Ends(o)
  <2>1. Shaped(tx[o])
        BY DEF WalkIInv, TypeIInv, IInv
  <2>2. tx'[o] = tx[o] \/ tx'[o] = [tx[o] EXCEPT !.others = @ \cup {tx[q].op}]
        BY <1>2, <1>5 DEF Commit
  <2>3. tx'[o].op = tx[o].op
        BY <2>1, <2>2 DEF Shaped, Fields
  <2> QED
      BY <2>3 DEF Ends
<1> QED
    BY <1>2, <1>4, <1>5

\* The levels that were counted leave room below the parent-to-be.
LEMMA CountLeavesRoom ==
  ASSUME WalkIInv, NEW r \in Requests, tx[r].phase = "write", ParentExists(tx[r]),
         ~Overlaps(r, "patch")
  PROVE  HasRoom(tx[r].target)
<1> DEFINE t == tx[r]
<1>1. Exact(t) /\ Typed(t)
      BY DEF WalkIInv, TypeIInv
<1>2. CASE t.target = Root
      BY <1>2 DEF HasRoom
<1>3. CASE t.target # Root
  <2>1. PICK V \in SUBSET Suites : Counted(t, V)
        BY <1>1, <1>3 DEF Exact, CountedOK, Overlaps
  <2>2. t.target \in V /\ Upward(tree, V)
        BY <2>1 DEF Counted, Upward
  <2>3. /\ Depth(tree, t.target) \in Nat /\ Cardinality(V) \in Nat
        /\ Depth(tree, t.target) <= Cardinality(V)
        BY <2>2, DepthBounded
  <2>4. Cardinality(V) <= t.depth /\ t.depth < MAX_SUITE_DEPTH
        BY <2>1 DEF Counted
  <2>5. t.depth \in Nat /\ MAX_SUITE_DEPTH \in Nat
        BY <1>1, DepthIsPositive DEF Typed
  <2>6. t.target \in Suites /\ IsRow(tree, t.target)
        BY <1>3 DEF ParentExists, Live
  <2> QED
      BY <2>3, <2>4, <2>5, <2>6 DEF HasRoom
<1> QED
    BY <1>2, <1>3

\* A move looks at all of the lineage it puts its suite under.
LEMMA WalkFindsLineage ==
  ASSUME WalkIInv, NEW r \in Requests, tx[r].op = "patch", tx[r].phase = "write",
         tx[r].target # Root, ~Overlaps(r, "patch")
  PROVE  tx[r].suite \notin Lineage(tree, tx[r].target)
<1>1. /\ tx[r].target \in tx[r].seen /\ tx[r].suite \notin tx[r].seen
      /\ tx[r].seen \in SUBSET Suites /\ Upward(tree, tx[r].seen)
      BY DEF WalkIInv, TypeIInv, IInv, MoveOK, Walked, SeenIsClosed, Upward, Overlaps
<1> QED
    BY <1>1, LineageLeast

\* What a deletion has collected in the end is the subtree.
LEMMA CollectsSubtree ==
  ASSUME WalkIInv, NEW r \in Requests, WriteDelete(r), tx[r].others = {}
  PROVE  tx[r].seen = Subtree(tree, tx[r].suite)
<1> DEFINE t == tx[r]
<1>1. t.op = "delete" /\ t.todo = << >> /\ Exact(t) /\ t.seen \in SUBSET Suites
      BY DEF WalkIInv, TypeIInv, InPhase, Typed, WriteDelete
<1>2. /\ t.suite \in t.seen /\ \A d \in t.seen : d \in Subtree(tree, t.suite)
      /\ \A c \in Suites : tree[c] \in t.seen => c \in t.seen
      BY <1>1 DEF Exact, CollectOK
<1>3. ASSUME NEW d \in Subtree(tree, t.suite), d \notin t.seen
      PROVE  FALSE
  <2>1. d \in Suites \ t.seen /\ t.suite \in Lineage(tree, d)
        BY <1>3 DEF Subtree
  <2>2. Upward(tree, Suites \ t.seen)
        BY <1>2 DEF Upward
  <2>3. Lineage(tree, d) \subseteq Suites \ t.seen
        BY <2>1, <2>2, LineageLeast
  <2> QED
      BY <1>2, <2>1, <2>3
<1> QED
    BY <1>2, <1>3

LEMMA DeletionIsAtomic ==
  ASSUME WalkIInv, NEW r \in Requests, WriteDelete(r), tx[r].others = {},
         tree' = Without(tx[r].seen)
  PROVE  DeleteSuite(tx[r].suite)
<1> DEFINE S == Subtree(tree, tx[r].suite)
<1>1. tx[r].seen = S
      BY CollectsSubtree
<1>2. tx[r].suite \in S
      BY <1>1 DEF WalkIInv, TypeIInv, InPhase, Exact, CollectOK, WriteDelete
<1>3. ASSUME NEW d \in Suites
      PROVE  Without(S)[d] = IF d \in S THEN Gone ELSE tree[d]
  <2>1. CASE d \in S
        BY <2>1 DEF Without, Live, Subtree
  <2>2. CASE d \notin S
    <3>1. tree[d] \notin S
      <4>1. SUFFICES ASSUME tree[d] \in S PROVE FALSE
            OBVIOUS
      <4>2. tree[d] \in Suites /\ tx[r].suite \in Lineage(tree, tree[d])
            BY <4>1 DEF Subtree
      <4>3. tx[r].suite \in Lineage(tree, d) /\ IsRow(tree, d)
            BY <4>2, LineageUnfolds DEF IsRow
      <4> QED
          BY <2>2, <4>3 DEF Subtree
    <3> QED
        BY <2>2, <3>1 DEF Without
  <2> QED
      BY <2>1, <2>2
<1>4. Without(S) = [d \in Suites |-> IF d \in S THEN Gone ELSE tree[d]]
      BY <1>3 DEF Without
<1>5. IsRow(tree, tx[r].suite)
      BY <1>2 DEF Subtree
<1> QED
    BY <1>1, <1>4, <1>5 DEF DeleteSuite

\* The commit of a creation or of a move finds the tree it has checked.
LEMMA PlacingIsAtomic ==
  ASSUME WalkIInv, NEW r \in Requests, ~Overlaps(r, "patch"), ParentExists(tx[r]),
         tree' = [tree EXCEPT ![tx[r].suite] = tx[r].target]
  PROVE  /\ WriteCreate(r) => CreateSuite(tx[r].suite, tx[r].target)
         /\ WritePatch(r) /\ Live(tx[r].suite) => MoveSuite(tx[r].suite, tx[r].target)
<1>1. ASSUME WriteCreate(r)
      PROVE  CreateSuite(tx[r].suite, tx[r].target)
  <2>1. tree[tx[r].suite] = Unborn
        BY <1>1 DEF WalkIInv, TypeIInv, IInv, CreateOK, WriteCreate
  <2> QED
      BY <1>1, <2>1, CountLeavesRoom DEF CreateSuite, WriteCreate
<1>2. ASSUME WritePatch(r), Live(tx[r].suite)
      PROVE  MoveSuite(tx[r].suite, tx[r].target)
      BY <1>2, CountLeavesRoom, WalkFindsLineage DEF MoveSuite, WritePatch, Live
<1> QED
    BY <1>1, <1>2

\* For any number of suites and requests: although suites.py checks the tree with
\* one query per level and takes no lock, what a request does is one step on the
\* tree that its commit finds, unless a move (for a deletion: anything) was
\* committed in the meantime.
THEOREM AtomicCommits == Spec => CommitsAreAtomic
<1>1. ASSUME WalkIInv, Next, NEW r \in Requests, tree' # tree, Ends(r)
      PROVE  LET t == tx[r] IN
             \/ t.op = "create" /\ (CreateSuite(t.suite, t.target) \/ Overlaps(r, "patch"))
             \/ t.op = "patch" /\ (MoveSuite(t.suite, t.target) \/ Overlaps(r, "patch"))
             \/ t.op = "delete" /\ (DeleteSuite(t.suite) \/ t.others # {})
  <2>1. \/ WriteCreate(r) /\ ParentExists(tx[r])
           /\ tree' = [tree EXCEPT ![tx[r].suite] = tx[r].target]
        \/ WritePatch(r) /\ Live(tx[r].suite) /\ ParentExists(tx[r])
           /\ tree' = [tree EXCEPT ![tx[r].suite] = tx[r].target]
        \/ WriteDelete(r) /\ tree' = Without(tx[r].seen)
        BY <1>1, OneCommits
  <2>2. WriteDelete(r) => tx[r].op = "delete"
        BY <1>1 DEF WalkIInv, TypeIInv, InPhase, WriteDelete
  <2> QED
      BY <1>1, <2>1, <2>2, PlacingIsAtomic, DeletionIsAtomic DEF WriteCreate, WritePatch
<1>2. ASSUME WalkIInv, [Next]_vars
      PROVE  [\A r \in Requests :
                LET t == tx[r] IN
                tree' # tree /\ Ends(r) =>
                  \/ t.op = "create" /\ (CreateSuite(t.suite, t.target) \/ Overlaps(r, "patch"))
                  \/ t.op = "patch" /\ (MoveSuite(t.suite, t.target) \/ Overlaps(r, "patch"))
                  \/ t.op = "delete" /\ (DeleteSuite(t.suite) \/ t.others # {})]_vars
      BY <1>1, <1>2
<1> QED
    BY <1>2, WalkIInvHolds, PTL DEF Spec, CommitsAreAtomic

-----------------------------------------------------------------------------
(* The nesting limit. *)

\* A suite that has been put where there is room is within the limit.
LEMMA PlacedWithinLimit ==
  ASSUME tree \in [Suites -> Suites \cup {Root, Unborn, Gone}], NEW s \in Suites,
         NEW target \in Suites \cup {Root}, HasRoom(target)
  PROVE  Depth([tree EXCEPT ![s] = target], s) <= MAX_SUITE_DEPTH
<1> DEFINE q == [tree EXCEPT ![s] = target]
<1>1. MAX_SUITE_DEPTH \in Nat \ {0}
      BY DepthIsPositive
<1>2. CASE target = Root
  <2>1. q[s] \notin Suites
        BY <1>2, MarksAreNoSuites
  <2>2. Lineage(q, s) = {s}
        BY <2>1, LineageUnfolds
  <2>3. Depth(q, s) = 1
        BY <2>2, FS_Singleton DEF Depth
  <2> QED
      BY <1>1, <2>3
<1>3. CASE target # Root
  <2> DEFINE V == Lineage(tree, target)
  <2>1. target \in Suites /\ Cardinality(V) < MAX_SUITE_DEPTH
        BY <1>3 DEF HasRoom, Depth
  <2>2. V \in SUBSET Suites /\ target \in V /\ Upward(tree, V)
        BY <2>1, LineageUpward
  <2>3. Depth(q, s) <= Cardinality(V) + 1
        BY <2>1, <2>2, DepthBelow
  <2>4. Cardinality(V) \in Nat /\ Depth(q, s) \in Nat
        BY <2>1, DepthType DEF Depth
  <2> QED
      BY <1>1, <2>1, <2>3, <2>4
<1> QED
    BY <1>2, <1>3

\* A deletion takes no suite further down.
LEMMA DeletionRaisesDepth ==
  ASSUME NEW S \in SUBSET Suites, NEW s \in Suites, IsRow(Without(S), s)
  PROVE  \/ Without(S)[s] = tree[s] /\ Depth(Without(S), s) <= Depth(tree, s)
         \/ Depth(Without(S), s) <= MAX_SUITE_DEPTH
<1> DEFINE q == Without(S)
<1>1. CASE q[s] = tree[s]
  <2>1. \A x \in Lineage(tree, s) : q[x] \in Suites => q[x] = tree[x]
        BY WithoutCuts, LineageUpward
  <2> QED
      BY <1>1, <2>1, CuttingShrinksLineage
<1>2. CASE q[s] # tree[s]
  <2>1. q[s] = Root
        BY <1>2, WithoutCuts
  <2>2. Lineage(q, s) = {s}
        BY <2>1, MarksAreNoSuites, LineageUnfolds
  <2>3. Depth(q, s) = 1
        BY <2>2, FS_Singleton DEF Depth
  <2> QED
      BY <2>3, DepthIsPositive
<1> QED
    BY <1>1, <1>2

\* A new suite is not above any other, and what is not below a suite that is
\* moved stays at its level.
LEMMA PlacingSparesOthers ==
  ASSUME WalkIInv, NEW r \in Requests,
         tree' = [tree EXCEPT ![tx[r].suite] = tx[r].target],
         NEW s \in Suites, s # tx[r].suite
  PROVE  /\ tree'[s] = tree[s]
         /\ WriteCreate(r) \/ tx[r].suite \notin Lineage(tree', s) =>
              Depth(tree', s) <= Depth(tree, s)
<1> DEFINE m == tx[r].suite
<1>1. \A x \in Suites \ {m} : tree'[x] = tree[x]
      BY DEF WalkIInv, TypeIInv, IInv
<1>2. ASSUME WriteCreate(r)
      PROVE  m \notin Lineage(tree', s)
  <2>1. m \in Suites /\ tree[m] = Unborn /\ ParentsExist(tree)
        BY <1>2 DEF WalkIInv, TypeIInv, IInv, CreateOK, WriteCreate
  <2>2. \A x \in Suites : tree[x] # m
        BY <2>1, MarksAreNoSuites DEF ParentsExist, IsRow
  <2>3. Upward(tree', Suites \ {m})
        BY <1>1, <2>2 DEF Upward
  <2>4. Lineage(tree', s) \subseteq Suites \ {m}
        BY <2>3, LineageLeast
  <2> QED
      BY <2>4
<1>3. ASSUME m \notin Lineage(tree', s)
      PROVE  Depth(tree', s) <= Depth(tree, s)
      BY <1>1, <1>3, OnlyBelowIsMoved
<1> QED
    BY <1>1, <1>2, <1>3

\* A step that takes a suite below the limit.
LEMMA LimitStep ==
  ASSUME WalkIInv, [Next]_vars, NEW s \in Suites, IsRow(tree', s),
         Depth(tree', s) > MAX_SUITE_DEPTH
  PROVE  \/ tree'[s] = tree[s] /\ Depth(tree', s) <= Depth(tree, s)
         \/ \E r \in Requests :
              /\ Ends(r)
              /\ \/ Overlaps(r, "patch")
                 \/ tx[r].op = "patch" /\ tx[r].suite \in Lineage(tree', s) \ {s}
<1>0. /\ Depth(tree', s) \in Nat /\ Depth(tree, s) \in Nat /\ MAX_SUITE_DEPTH \in Nat
      /\ ~(Depth(tree', s) <= MAX_SUITE_DEPTH)
      BY DepthType, DepthIsPositive
<1>1. CASE tree' = tree
      BY <1>0, <1>1
<1>2. CASE tree' # tree
  <2>1. PICK r \in Requests :
          /\ Ends(r)
          /\ \/ WriteCreate(r) /\ ParentExists(tx[r])
                /\ tree' = [tree EXCEPT ![tx[r].suite] = tx[r].target]
             \/ WritePatch(r) /\ Live(tx[r].suite) /\ ParentExists(tx[r])
                /\ tree' = [tree EXCEPT ![tx[r].suite] = tx[r].target]
             \/ WriteDelete(r) /\ tree' = Without(tx[r].seen)
        BY <1>2, OneCommits DEF vars
  <2>2. CASE Overlaps(r, "patch")
        BY <2>1, <2>2
  <2>3. CASE WriteDelete(r) /\ tree' = Without(tx[r].seen)
    <3>1. tx[r].seen \in SUBSET Suites
          BY DEF WalkIInv, TypeIInv, Typed
    <3> QED
        BY <1>0, <2>3, <3>1, DeletionRaisesDepth
  <2>4. CASE /\ ~Overlaps(r, "patch") /\ ParentExists(tx[r])
             /\ WriteCreate(r) \/ (WritePatch(r) /\ Live(tx[r].suite))
             /\ tree' = [tree EXCEPT ![tx[r].suite] = tx[r].target]
    <3>1. s # tx[r].suite
      <4>1. HasRoom(tx[r].target)
            BY <2>4, CountLeavesRoom DEF WriteCreate, WritePatch
      <4>2. /\ tree \in [Suites -> Suites \cup {Root, Unborn, Gone}]
            /\ tx[r].target \in Suites \cup {Root}
            BY DEF WalkIInv, TypeIInv, IInv, Typed
      <4> QED
          BY <1>0, <2>4, <4>1, <4>2, PlacedWithinLimit
    <3>2. /\ tree'[s] = tree[s]
          /\ WriteCreate(r) \/ tx[r].suite \notin Lineage(tree', s) =>
               Depth(tree', s) <= Depth(tree, s)
          BY <2>4, <3>1, PlacingSparesOthers
    <3> QED
        BY <2>1, <2>4, <3>1, <3>2 DEF WritePatch
  <2> QED
      BY <2>1, <2>2, <2>3, <2>4
<1> QED
    BY <1>1, <1>2

\* For any number of suites and requests: only what is moved along with a suite
\* above it, or placed while a move was committed, gets below the limit that
\* _validate_suite_parent enforces.
THEOREM LimitExceededByMoves == Spec => OnlyMovesExceedLimit
<1>1. ASSUME WalkIInv, [Next]_vars
      PROVE  [\A s \in Suites :
                IsRow(tree', s) /\ Depth(tree', s) > MAX_SUITE_DEPTH =>
                  \/ tree'[s] = tree[s] /\ Depth(tree', s) <= Depth(tree, s)
                  \/ \E r \in Requests :
                       /\ Ends(r)
                       /\ \/ Overlaps(r, "patch")
                          \/ tx[r].op = "patch" /\ tx[r].suite \in Lineage(tree', s) \ {s}]_vars
      BY <1>1, LimitStep
<1> QED
    BY <1>1, WalkIInvHolds, PTL DEF Spec, OnlyMovesExceedLimit

\* What a request overlaps with changes at commits only.
LEMMA CheckingTellsNothing ==
  ASSUME IInv, NEW r \in Requests,
         FetchParent(r) \/ WalkUp(r) \/ CountLevel(r) \/ ListChildren(r) \/ Refuse(r)
  PROVE  \A o \in Requests : tx'[o].others \in {tx[o].others, {}}
<1> DEFINE t == tx[r]
<1>1. Shaped(t)
      BY DEF IInv
<1>2. ASSUME NEW u, Step(r, u), u.others \in {t.others, {}}
      PROVE  \A o \in Requests : tx'[o].others \in {tx[o].others, {}}
  <2>1. \A o \in Requests : tx'[o] = IF o = r THEN u ELSE tx[o]
        BY <1>2 DEF Step, IInv
  <2> QED
      BY <1>2, <2>1
<1>3. Refuse(r) => \A o \in Requests : tx'[o].others \in {tx[o].others, {}}
  <2>1. Idle.others = {}
        BY DEF Idle
  <2> QED
      BY <1>2, <2>1 DEF Refuse
<1>4. CASE FetchParent(r) /\ ~Refuse(r)
  <2> DEFINE u == [t EXCEPT !.phase = "cycle", !.seen = {t.target},
                            !.at = Loaded(t, t.target), !.kept = Keep(t, t.target)]
  <2>1. u.others = t.others
        BY <1>1 DEF Shaped, Fields
  <2>2. Step(r, u)
        BY <1>4 DEF FetchParent
  <2> HIDE DEF u
  <2> QED
      BY <1>2, <2>1, <2>2
<1>5. CASE WalkUp(r) /\ ~Refuse(r)
  <2> DEFINE u == StartDepth(t)
             v == StartDepth([t EXCEPT !.kept = KeepOnly(t, t.at)])
             w == [t EXCEPT !.seen = @ \cup {t.at}, !.at = Loaded(t, t.at),
                            !.kept = KeepOnly(t, t.at)]
  <2>1. u.others = t.others /\ v.others = t.others /\ w.others = t.others
        BY <1>1 DEF Shaped, Fields, StartDepth
  <2>2. Step(r, u) \/ Step(r, v) \/ Step(r, w)
        BY <1>5 DEF WalkUp
  <2> HIDE DEF u, v, w
  <2> QED
      BY <1>2, <2>1, <2>2
<1>6. CASE CountLevel(r) /\ ~Refuse(r)
  <2> DEFINE u == [t EXCEPT !.at = Loaded(t, t.at), !.depth = IF TooDeep(t) THEN @ ELSE @ + 1]
             v == [t EXCEPT !.phase = "write"]
  <2>1. u.others = t.others /\ v.others = t.others
        BY <1>1 DEF Shaped, Fields
  <2>2. Step(r, u) \/ Step(r, v)
        BY <1>6 DEF CountLevel
  <2> HIDE DEF u, v
  <2> QED
      BY <1>2, <2>1, <2>2
<1>7. CASE ListChildren(r) /\ ~Refuse(r)
  <2>1. PICK order \in Orders(Children(Head(t.todo))) :
          Step(r, [t EXCEPT !.seen = @ \cup Children(Head(t.todo)),
                            !.todo = order \o Tail(@)])
        BY <1>7 DEF ListChildren
  <2> DEFINE u == [t EXCEPT !.seen = @ \cup Children(Head(t.todo)), !.todo = order \o Tail(@)]
  <2>2. u.others = t.others
        BY <1>1 DEF Shaped, Fields
  <2>3. Step(r, u)
        BY <2>1
  <2> HIDE DEF u
  <2> QED
      BY <1>2, <2>2, <2>3
<1> QED
    BY <1>3, <1>4, <1>5, <1>6, <1>7

\* A patch gives a suite other names only, or is refused.
NoMoves == \A r \in Requests : tx[r].op = "patch" /\ Ends(r) => UNCHANGED tree

\* For any number of suites and of concurrent requests: as long as no request
\* moves a suite, creations and deletions keep the tree free of cycles and
\* within the limit of _validate_suite_parent, although they take no lock.
THEOREM WithoutMovesTreeIsSound ==
  Spec /\ [][NoMoves]_vars => [](NoCycle(tree) /\ WithinLimit(tree))
<1> DEFINE Apart == \A r \in Requests : ~Overlaps(r, "patch")
           Sound == Apart /\ NoCycle(tree) /\ WithinLimit(tree)
<1>1. Init => Sound
      BY DEF Init, ForestInit, Idle, Overlaps
<1>2. ASSUME WalkIInv, Apart, [Next]_vars, [NoMoves]_vars
      PROVE  Apart'
  <2>1. CASE UNCHANGED vars
        BY <1>2, <2>1 DEF vars, Overlaps
  <2>2. CASE Next
    <3>1. ASSUME NEW r \in Requests,
                 FetchParent(r) \/ WalkUp(r) \/ CountLevel(r) \/ ListChildren(r) \/ Refuse(r)
          PROVE  Apart'
          BY <1>2, <3>1, CheckingTellsNothing DEF Overlaps, WalkIInv, TypeIInv, IInv
    <3>2. ASSUME NEW r \in Requests, NEW u, Begin(r, u), u.others = {}
          PROVE  Apart'
          BY <1>2, <3>2 DEF Begin, Overlaps, WalkIInv, TypeIInv, IInv
    <3>3. ASSUME NEW r \in Requests, NEW p, Commit(r, p), tx[r].op # "idle"
          PROVE  Apart'
      <4>1. tx[r].op # "patch" \/ p = tree
        <5>1. Ends(r)
              BY <3>3 DEF Commit, Ends, Idle
        <5> QED
            BY <1>2, <3>3, <5>1 DEF NoMoves, Commit, vars
      <4> QED
          BY <1>2, <3>3, <4>1 DEF Commit, Overlaps, Shaped, Fields, Idle, WalkIInv, TypeIInv, IInv
    <3>4. \A r \in Requests : tx[r].op = "idle" => tx[r] = Idle
          BY <1>2 DEF WalkIInv, Exact, OpFits
    <3>5. ASSUME NEW r \in Requests, WriteDelete(r)
          PROVE  tx[r].op # "idle"
          BY <3>4, <3>5 DEF WriteDelete, Idle
    <3> QED
        BY <2>2, <3>1, <3>2, <3>3, <3>5
        DEF Next, BeginCreate, BeginPatch, BeginDelete, Idle, WriteCreate, WritePatch, WriteDelete
  <2> QED
      BY <1>2, <2>1, <2>2
<1>3. ASSUME WalkIInv, Sound, [Next]_vars, [NoMoves]_vars
      PROVE  NoCycle(tree')
  <2>1. CASE UNCHANGED vars
        BY <1>3, <2>1 DEF vars, NoCycle
  <2>2. CASE Next
        BY <1>3, <2>2, NextStep DEF WalkIInv, TypeIInv
  <2> QED
      BY <1>3, <2>1, <2>2
<1>4. ASSUME WalkIInv, Sound, [Next]_vars, [NoMoves]_vars, NEW s \in Suites, IsRow(tree', s)
      PROVE  Depth(tree', s) <= MAX_SUITE_DEPTH
  <2>1. SUFFICES ASSUME Depth(tree', s) > MAX_SUITE_DEPTH PROVE FALSE
        BY DepthType, DepthIsPositive
  <2>2. tree'[s] = tree[s] /\ Depth(tree', s) <= Depth(tree, s)
    <3>1. CASE tree' = tree
          BY <3>1, DepthType
    <3>2. CASE tree' # tree
      <4>1. \A r \in Requests : ~(tx[r].op = "patch" /\ Ends(r)) /\ ~Overlaps(r, "patch")
            BY <1>4, <3>2 DEF NoMoves, vars
      <4> QED
          BY <1>4, <2>1, <4>1, LimitStep
    <3> QED
        BY <3>1, <3>2
  <2>3. Depth(tree, s) <= MAX_SUITE_DEPTH
        BY <1>4, <2>2 DEF WithinLimit, IsRow
  <2> QED
      BY <2>1, <2>2, <2>3, DepthType, DepthIsPositive
<1>5. ASSUME WalkIInv, Sound, [Next]_vars, [NoMoves]_vars
      PROVE  Sound'
  <2>1. WithinLimit(tree')
        BY <1>4, <1>5 DEF WithinLimit
  <2> QED
      BY <1>2, <1>3, <1>5, <2>1 DEF NoCycle, WithinLimit
<1>6. Sound => NoCycle(tree) /\ WithinLimit(tree)
      OBVIOUS
<1> HIDE DEF Sound
<1> QED
    BY <1>1, <1>5, <1>6, WalkIInvHolds, PTL DEF Spec

-----------------------------------------------------------------------------
(* Requests that do not overlap implement SuiteForest. *)

\* A commit that nothing overlapped is a step of SuiteForest.
LEMMA AloneIsForestStep ==
  ASSUME WalkIInv, [Next]_vars,
         \A r \in Requests : tx[r].op # "idle" => tx[r].others = {}
  PROVE  [ForestNext]_tree
<1>1. CASE tree' = tree
      BY <1>1
<1>2. CASE tree' # tree
  <2>1. PICK r \in Requests :
          \/ WriteCreate(r) /\ ParentExists(tx[r])
             /\ tree' = [tree EXCEPT ![tx[r].suite] = tx[r].target]
          \/ WritePatch(r) /\ Live(tx[r].suite) /\ ParentExists(tx[r])
             /\ tree' = [tree EXCEPT ![tx[r].suite] = tx[r].target]
          \/ WriteDelete(r) /\ tree' = Without(tx[r].seen)
        BY <1>2, OneCommits DEF vars
  <2>2. /\ tx[r].target \in Suites \cup {Root}
        /\ tx[r].op = "create" => tx[r].suite \in Suites
        /\ tx[r].op = "delete" /\ tx[r].others = {} => tx[r].suite \in Suites
        BY DEF WalkIInv, TypeIInv, Typed, IInv, CreateOK, Exact, CollectOK
  <2>3. CASE WriteCreate(r) /\ ParentExists(tx[r])
             /\ tree' = [tree EXCEPT ![tx[r].suite] = tx[r].target]
    <3>1. tx[r].op = "create" /\ tx[r].others = {}
          BY <2>3 DEF WriteCreate
    <3> QED
        BY <2>2, <2>3, <3>1, PlacingIsAtomic DEF ForestNext, Overlaps
  <2>4. CASE WritePatch(r) /\ Live(tx[r].suite) /\ ParentExists(tx[r])
             /\ tree' = [tree EXCEPT ![tx[r].suite] = tx[r].target]
    <3>1. tx[r].others = {} /\ tx[r].suite \in Suites
          BY <2>4 DEF WritePatch, Live
    <3> QED
        BY <2>2, <2>4, <3>1, PlacingIsAtomic DEF ForestNext, Overlaps
  <2>5. CASE WriteDelete(r) /\ tree' = Without(tx[r].seen)
    <3>1. tx[r].op = "delete"
          BY <2>5 DEF WriteDelete, WalkIInv, TypeIInv, InPhase
    <3>2. tx[r].others = {} /\ tx[r].suite \in Suites
          BY <2>2, <3>1
    <3> QED
        BY <2>5, <3>2, DeletionIsAtomic DEF ForestNext
  <2> QED
      BY <2>1, <2>3, <2>4, <2>5
<1> QED
    BY <1>1, <1>2

\* Requests one at a time implement SuiteForest, for any tree and any number of
\* requests: the walks of _validate_suite_parent and of
\* _get_suite_ids_to_delete_order, with the objects a session keeps, compute the
\* lineage, the level and the subtree that the abstract steps speak of.
THEOREM SerialRequestsImplementForest ==
  ASSUME \A a, b \in Requests : a = b
  PROVE  Spec => ForestSpec
<1> DEFINE Alone == \A r \in Requests : tx[r].others = {}
<1>1. Init => ForestInit /\ Alone
      BY DEF Init, Idle
<1>2. ASSUME WalkIInv, Alone, [Next]_vars
      PROVE  Alone'
  <2>1. CASE UNCHANGED vars
        BY <1>2, <2>1 DEF vars
  <2>2. CASE Next
    <3>1. ASSUME NEW r \in Requests, NEW u, Begin(r, u), u.others = {}
          PROVE  Alone'
          BY <1>2, <3>1 DEF Begin, WalkIInv, TypeIInv, IInv
    <3>2. ASSUME NEW r \in Requests,
                 FetchParent(r) \/ WalkUp(r) \/ CountLevel(r) \/ ListChildren(r) \/ Refuse(r)
          PROVE  Alone'
          BY <1>2, <3>2, CheckingTellsNothing DEF WalkIInv, TypeIInv
    <3>3. ASSUME NEW r \in Requests, NEW p, Commit(r, p)
          PROVE  Alone'
          BY <1>2, <3>3 DEF Commit, Idle
    <3> QED
        BY <2>2, <3>1, <3>2, <3>3
        DEF Next, BeginCreate, BeginPatch, BeginDelete, Idle, WriteCreate, WritePatch, WriteDelete
  <2> QED
      BY <1>2, <2>1, <2>2
<1>3. WalkIInv /\ Alone /\ [Next]_vars => [ForestNext]_tree
      BY AloneIsForestStep
<1> HIDE DEF Alone
<1> QED
    BY <1>1, <1>2, <1>3, WalkIInvHolds, PTL DEF Spec, ForestSpec

\* What SuiteForest promises: no suite becomes its own ancestor, and parents
\* are suites that exist.  (The limit it does not promise: see MoveSuite.)
THEOREM ForestIsAForest == ForestSpec => [](NoCycle(tree) /\ ParentsExist(tree))
<1> DEFINE I == /\ tree \in [Suites -> Suites \cup {Root, Unborn, Gone}]
                /\ ParentsExist(tree) /\ NoCycle(tree)
<1>1. ForestInit => I
      BY DEF ForestInit
<1>2. ASSUME I, NEW s \in Suites, DeleteSuite(s)
      PROVE  I'
  <2>1. tree' \in [Suites -> Suites \cup {Root, Unborn, Gone}]
        BY <1>2 DEF DeleteSuite
  <2>2. NoCycle(tree')
        BY <1>2, MarksAreNoSuites, CuttingClosesNoCycle DEF DeleteSuite
  <2>3. ASSUME NEW d \in Suites, tree'[d] \in Suites
        PROVE  IsRow(tree', tree'[d])
    <3>1. d \notin Subtree(tree, s) /\ tree'[d] = tree[d]
          BY <1>2, <2>3, MarksAreNoSuites DEF DeleteSuite
    <3>2. tree[d] \notin Subtree(tree, s)
      <4>1. SUFFICES ASSUME s \in Lineage(tree, tree[d]) PROVE FALSE
            BY DEF Subtree
      <4>2. s \in Lineage(tree, d)
            BY <2>3, <3>1, <4>1, LineageUnfolds
      <4> QED
          BY <2>3, <3>1, <4>2 DEF Subtree, IsRow
    <3>3. IsRow(tree, tree[d])
          BY <1>2, <2>3, <3>1 DEF ParentsExist
    <3> QED
        BY <1>2, <2>3, <3>1, <3>2, <3>3 DEF DeleteSuite, IsRow
  <2> QED
      BY <2>1, <2>2, <2>3 DEF ParentsExist, NoCycle
<1>3. ASSUME I, NEW s \in Suites, NEW target \in Suites \cup {Root},
             CreateSuite(s, target) \/ MoveSuite(s, target)
      PROVE  I'
  <2>1. tree' = [tree EXCEPT ![s] = target] /\ HasRoom(target)
        BY <1>3 DEF CreateSuite, MoveSuite
  <2>2. /\ tree' \in [Suites -> Suites \cup {Root, Unborn, Gone}]
        /\ \A x \in Suites : tree'[x] = IF x = s THEN target ELSE tree[x]
        BY <1>3, <2>1
  <2>3. ParentsExist(tree')
    <3>1. ASSUME NEW x \in Suites, tree'[x] \in Suites
          PROVE  tree'[tree'[x]] \in Suites \cup {Root}
      <4>1. tree'[x] = target \/ tree'[x] = tree[x]
            BY <2>2
      <4>2. tree[tree'[x]] \in Suites \cup {Root}
            BY <1>3, <2>1, <3>1, <4>1, MarksAreNoSuites DEF ParentsExist, IsRow, HasRoom
      <4> QED
          BY <2>2, <3>1, <4>2
    <3> QED
        BY <3>1 DEF ParentsExist, IsRow
  <2>4. NoCycle([tree EXCEPT ![s] = target])
    <3>1. CASE CreateSuite(s, target)
      <4>1. tree[s] = Unborn /\ (target = Root \/ (target \in Suites /\ IsRow(tree, target)))
            BY <3>1 DEF CreateSuite, HasRoom
      <4> QED
          BY <1>3, <4>1, LeafClosesNoCycle
    <3>2. CASE MoveSuite(s, target) /\ target = Root
          BY <1>3, <3>2, MoveToRootClosesNoCycle
    <3>3. CASE MoveSuite(s, target) /\ target # Root
      <4> DEFINE W == Lineage(tree, target)
      <4>1. target \in Suites /\ s \notin W
            BY <3>3 DEF MoveSuite
      <4>2. W \in SUBSET Suites /\ target \in W /\ \A w \in W : tree[w] \in Suites => tree[w] \in W
            BY <4>1, LineageUpward DEF Upward
      <4> HIDE DEF W
      <4> QED
          BY <1>3, <4>1, <4>2, MoveOutsideClosesNoCycle
    <3> QED
        BY <1>3, <3>1, <3>2, <3>3
  <2> QED
      BY <2>1, <2>2, <2>3, <2>4
<1>4. ASSUME I, [ForestNext]_tree
      PROVE  I'
  <2>1. CASE UNCHANGED tree
        BY <1>4, <2>1 DEF ParentsExist, IsRow, NoCycle
  <2>2. CASE ForestNext
        BY <1>2, <1>3, <1>4, <2>2 DEF ForestNext
  <2> QED
      BY <1>4, <2>1, <2>2
<1>5. I => NoCycle(tree) /\ ParentsExist(tree)
      OBVIOUS
<1> HIDE DEF I
<1> QED
    BY <1>1, <1>4, <1>5, PTL DEF ForestSpec
=============================================================================
