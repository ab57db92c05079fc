-------------------------- MODULE QueryCacheProofs --------------------------
(***************************************************************************)
(* A page shows what its own mutations told the cache, for any set of paths *)
(* and queries.                                                              *)
(***************************************************************************)
EXTENDS QueryCache, TLAPS

Told(q) == \A p \in Gets(q) : told[q][p] <= server[p]

\* A fetch waits for requests that are on their way, all of one phase.
Waiting(q) ==
    /\ fetch[q].state = "running" =>
          /\ fetch[q].missing # {}
          /\ fetch[q].missing \subseteq First[q] \/ fetch[q].missing \subseteq Then[q]
          /\ \A p \in fetch[q].missing : wire[p].state # "none"
    /\ fetch[q].state = "asleep" => fetch[q].got = NoGets

\* While the query is clean, no answer older than what it was told can reach it.
Fresh(q) ==
    clean[q] =>
        /\ \A p \in Gets(q) : wire[p].state = "answered" => wire[p].ver >= told[q][p]
        /\ fetch[q].state = "running" =>
              \A p \in Gets(q) : fetch[q].got[p] # None => fetch[q].got[p] >= told[q][p]
        /\ active[q] /\ fetch[q].state = "idle" /\ HasData(q) =>
              \A p \in Gets(q) : data[q][p] >= told[q][p]

CacheIInv == CacheTypeOK /\ \A q \in Queries : Told(q) /\ Waiting(q) /\ Fresh(q)

Gettable == [state : {"none", "sent", "answered", "failed"}, ver : Nat]

-----------------------------------------------------------------------------
LEMMA IdleType == Idle \in FetchType /\ NoGets \in [Paths -> Versions]
BY DEF Idle, NoGets, FetchType, Versions, None

LEMMA GetsArePaths ==
    \A q \in Queries : First[q] \subseteq Paths /\ Then[q] \subseteq Paths /\ Gets(q) \subseteq Paths
                       /\ First[q] # {} /\ First[q] \subseteq Gets(q) /\ Then[q] \subseteq Gets(q)
BY CacheAssumption DEF Gets

LEMMA RequestFacts ==
    ASSUME NEW w \in [Paths -> Gettable], NEW P
    PROVE  /\ Request(w, P) \in [Paths -> Gettable]
           /\ \A p \in Paths :
                 /\ w[p].state # "none" => Request(w, P)[p] = w[p]
                 /\ p \in P => Request(w, P)[p].state # "none"
                 /\ Request(w, P)[p].state = "answered" => Request(w, P)[p] = w[p]
BY DEF Request, Gettable, Sent

LEMMA RetryType ==
    ASSUME NEW f \in FetchType, NEW b \in BOOLEAN
    PROVE  LET g == [f EXCEPT !.retry = b]
           IN  g \in FetchType /\ g.state = f.state /\ g.missing = f.missing /\ g.got = f.got
BY DEF FetchType

LEMMA RunningType ==
    ASSUME NEW f \in FetchType, NEW M \in SUBSET Paths
    PROVE  LET g == [f EXCEPT !.state = "running", !.missing = M]
           IN  g \in FetchType /\ g.state = "running" /\ g.missing = M /\ g.got = f.got
BY DEF FetchType

\* A new fetch starts with nothing received, and waits for what it has requested.
LEMMA BeginFacts ==
    ASSUME CacheTypeOK, NEW q \in Queries, NEW S \in SUBSET SUBSET Paths, Begin(q, S)
    PROVE  /\ fetch' \in [Queries -> FetchType]
           /\ wire' \in [Paths -> Gettable]
           /\ zombies' \in [Queries -> SUBSET SUBSET Paths]
           /\ fetch'[q].state = "running" /\ fetch'[q].missing = First[q] /\ fetch'[q].got = NoGets
           /\ \A r \in Queries \ {q} : fetch'[r] = fetch[r]
           /\ \A p \in Paths :
                 /\ wire[p].state # "none" => wire'[p] = wire[p]
                 /\ wire'[p].state = "answered" => wire'[p] = wire[p]
           /\ \A p \in First[q] : wire'[p].state # "none"
<1>1. wire \in [Paths -> Gettable]
  BY DEF CacheTypeOK, Gettable
<1>2. wire' = Request(wire, First[q])
  BY DEF Begin
<1>3. /\ wire' \in [Paths -> Gettable]
      /\ \A p \in Paths : /\ wire[p].state # "none" => wire'[p] = wire[p]
                          /\ p \in First[q] => wire'[p].state # "none"
                          /\ wire'[p].state = "answered" => wire'[p] = wire[p]
  BY <1>1, <1>2, RequestFacts
<1>4. [Idle EXCEPT !.state = "running", !.missing = First[q]] \in FetchType
  BY IdleType, GetsArePaths DEF FetchType
<1>5. /\ fetch' \in [Queries -> FetchType]
      /\ fetch'[q] = [Idle EXCEPT !.state = "running", !.missing = First[q]]
      /\ \A r \in Queries \ {q} : fetch'[r] = fetch[r]
  BY <1>4 DEF Begin, CacheTypeOK
<1>6. fetch'[q].state = "running" /\ fetch'[q].missing = First[q] /\ fetch'[q].got = NoGets
  BY <1>5 DEF Idle
<1>7. zombies' \in [Queries -> SUBSET SUBSET Paths]
  BY DEF Begin, CacheTypeOK
<1> QED
  BY <1>3, <1>5, <1>6, <1>7, GetsArePaths

LEMMA GivenUpType ==
    ASSUME CacheTypeOK, NEW q \in Queries
    PROVE  GivenUp(q) \in SUBSET SUBSET Paths
BY DEF GivenUp, CacheTypeOK, FetchType

\* A quiet query waits for nothing.
LEMMA QuietFacts ==
    ASSUME CacheIInv, NEW q \in Queries, Quiet(q)
    PROVE  /\ fetch[q].state # "running"
           /\ \A p \in Gets(q) : wire[p].state # "answered"
BY GetsArePaths DEF CacheIInv, Waiting, Quiet

\* A new fetch of q disturbs neither the other queries nor a query that it makes
\* clean; clean and told are free to change for q, to what it has been told.
LEMMA BeginKeeps ==
    ASSUME CacheIInv, NEW q \in Queries, NEW S \in SUBSET SUBSET Paths, Begin(q, S),
           server' = server, data' = data, failed' = failed,
           active' \in [Queries -> BOOLEAN], \A r \in Queries \ {q} : active'[r] = active[r],
           clean' \in [Queries -> BOOLEAN], \A r \in Queries \ {q} : clean'[r] = clean[r],
           told' \in [Queries -> [Paths -> Nat]], \A r \in Queries \ {q} : told'[r] = told[r],
           \A p \in Gets(q) : told'[q][p] <= server[p],
           clean'[q] => Quiet(q) \/ (clean[q] /\ told'[q] = told[q])
    PROVE  CacheIInv'
<1>1. CacheTypeOK'
  BY BeginFacts DEF CacheIInv, CacheTypeOK, Gettable
<1>2. ASSUME NEW r \in Queries PROVE Told(r)' /\ Waiting(r)' /\ Fresh(r)'
  <2>1. Told(r)'
    BY DEF CacheIInv, Told, Gets
  <2>2. Waiting(r)'
    <3>1. CASE r = q
      BY <3>1, BeginFacts, GetsArePaths DEF CacheIInv, Waiting
    <3>2. CASE r # q
      <4>1. fetch'[r] = fetch[r] /\ Waiting(r) /\ fetch[r].missing \subseteq Paths
        BY <3>2, BeginFacts DEF CacheIInv, CacheTypeOK, FetchType
      <4>2. \A p \in Paths : wire[p].state # "none" => wire'[p].state # "none"
        BY BeginFacts DEF CacheIInv
      <4> QED BY <4>1, <4>2 DEF Waiting
    <3> QED BY <3>1, <3>2
  <2>3. Fresh(r)'
    <3>1. CASE r = q
      <4> SUFFICES ASSUME clean'[q] PROVE Fresh(q)'
        BY <3>1 DEF Fresh
      <4>1. \A p \in Gets(q) : wire'[p].state = "answered" => wire'[p].ver >= told'[q][p]
        BY BeginFacts, QuietFacts, GetsArePaths DEF CacheIInv, Fresh
      <4>2. fetch'[q].state = "running" /\ \A p \in Gets(q) : fetch'[q].got[p] = None
        BY BeginFacts, GetsArePaths DEF CacheIInv, NoGets
      <4> QED BY <4>1, <4>2 DEF Fresh, Gets
    <3>2. CASE r # q
      <4>1. fetch'[r] = fetch[r] /\ clean'[r] = clean[r] /\ told'[r] = told[r]
            /\ active'[r] = active[r] /\ Fresh(r)
        BY <3>2, BeginFacts DEF CacheIInv
      <4>2. \A p \in Gets(r) : wire'[p].state = "answered" => wire'[p] = wire[p]
        BY BeginFacts, GetsArePaths DEF CacheIInv
      <4> QED BY <4>1, <4>2 DEF Fresh, Gets, HasData
    <3> QED BY <3>1, <3>2
  <2> QED BY <2>1, <2>2, <2>3
<1> QED BY <1>1, <1>2 DEF CacheIInv

-----------------------------------------------------------------------------
(* One lemma per action                                                     *)
LEMMA MountKeeps == ASSUME CacheIInv, NEW q \in Queries, Mount(q) PROVE CacheIInv'
<1> USE DEF Mount
<1>1. /\ active' \in [Queries -> BOOLEAN]
      /\ \A r \in Queries \ {q} : active'[r] = active[r]
      /\ clean' \in [Queries -> BOOLEAN]
      /\ \A r \in Queries \ {q} : clean'[r] = clean[r]
  BY DEF CacheIInv, CacheTypeOK
<1>2. CASE fetch[q].state = "idle" /\ Begin(q, {}) /\ clean' = [clean EXCEPT ![q] = @ \/ Quiet(q)]
  <2>1. clean'[q] => Quiet(q) \/ clean[q]
    BY <1>2 DEF CacheIInv, CacheTypeOK
  <2>2. told' \in [Queries -> [Paths -> Nat]] /\ \A p \in Gets(q) : told'[q][p] <= server[p]
    BY DEF CacheIInv, CacheTypeOK, Told
  <2> QED BY <1>1, <1>2, <2>1, <2>2, BeginKeeps
<1>3. CASE fetch[q].state # "idle" /\ fetch' = [fetch EXCEPT ![q].retry = TRUE]
           /\ UNCHANGED <<wire, zombies, clean>>
  <2>1. /\ fetch' \in [Queries -> FetchType]
        /\ \A r \in Queries : /\ fetch'[r].state = fetch[r].state
                              /\ fetch'[r].missing = fetch[r].missing
                              /\ fetch'[r].got = fetch[r].got
    <3>1. fetch \in [Queries -> FetchType]
      BY DEF CacheIInv, CacheTypeOK
    <3>2. /\ fetch'[q] = [fetch[q] EXCEPT !.retry = TRUE]
          /\ \A r \in Queries \ {q} : fetch'[r] = fetch[r]
          /\ fetch' = [r \in Queries |-> fetch'[r]]
      BY <1>3, <3>1
    <3>3. \A r \in Queries : /\ fetch'[r] \in FetchType
                              /\ fetch'[r].state = fetch[r].state
                              /\ fetch'[r].missing = fetch[r].missing
                              /\ fetch'[r].got = fetch[r].got
      <4> SUFFICES ASSUME NEW r \in Queries
                   PROVE  /\ fetch'[r] \in FetchType
                          /\ fetch'[r].state = fetch[r].state
                          /\ fetch'[r].missing = fetch[r].missing
                          /\ fetch'[r].got = fetch[r].got
        OBVIOUS
      <4>1. fetch[r] \in FetchType
        BY <3>1
      <4>2. CASE r = q
        BY <3>2, <4>1, <4>2, RetryType
      <4>3. CASE r # q
        BY <3>2, <4>1, <4>3
      <4> QED BY <4>2, <4>3
    <3> QED BY <3>2, <3>3
  <2>2. CacheTypeOK'
    BY <1>1, <1>3, <2>1 DEF CacheIInv, CacheTypeOK
  <2>3. \A r \in Queries : Told(r)' /\ Waiting(r)'
    BY <1>3, <2>1 DEF CacheIInv, Told, Waiting, Gets
  <2>4. \A r \in Queries : Fresh(r)'
    BY <1>1, <1>3, <2>1 DEF CacheIInv, Fresh, Gets, HasData
  <2> QED BY <2>2, <2>3, <2>4 DEF CacheIInv
<1> QED BY <1>2, <1>3

LEMMA UnmountKeeps == ASSUME CacheIInv, NEW q \in Queries, Unmount(q) PROVE CacheIInv'
<1> USE DEF Unmount
<1>1. /\ fetch' \in [Queries -> FetchType]
      /\ \A r \in Queries : /\ fetch'[r].state = fetch[r].state
                            /\ fetch'[r].missing = fetch[r].missing
                            /\ fetch'[r].got = fetch[r].got
                            /\ active'[r] => active[r]
  <2>1. fetch \in [Queries -> FetchType] /\ active \in [Queries -> BOOLEAN]
    BY DEF CacheIInv, CacheTypeOK
  <2>2. /\ fetch'[q] = [fetch[q] EXCEPT !.retry = fetch[q].state = "idle"]
        /\ \A r \in Queries \ {q} : fetch'[r] = fetch[r]
        /\ fetch' = [r \in Queries |-> fetch'[r]]
        /\ \A r \in Queries : active'[r] => active[r]
    BY <2>1
  <2>3. \A r \in Queries : /\ fetch'[r] \in FetchType
                            /\ fetch'[r].state = fetch[r].state
                            /\ fetch'[r].missing = fetch[r].missing
                            /\ fetch'[r].got = fetch[r].got
    <3> SUFFICES ASSUME NEW r \in Queries
                 PROVE  /\ fetch'[r] \in FetchType
                        /\ fetch'[r].state = fetch[r].state
                        /\ fetch'[r].missing = fetch[r].missing
                        /\ fetch'[r].got = fetch[r].got
      OBVIOUS
    <3>1. fetch[r] \in FetchType
      BY <2>1
    <3>2. CASE r = q
      <4>1. PICK b \in BOOLEAN : b = (fetch[q].state = "idle")
        OBVIOUS
      <4>2. fetch'[q] = [fetch[q] EXCEPT !.retry = b]
        BY <2>2, <4>1
      <4> QED BY <3>1, <3>2, <4>2, RetryType
    <3>3. CASE r # q
      BY <2>2, <3>1, <3>3
    <3> QED BY <3>2, <3>3
  <2> QED BY <2>2, <2>3
<1>2. CacheTypeOK'
  BY <1>1 DEF CacheIInv, CacheTypeOK
<1>3. \A r \in Queries : Told(r)' /\ Waiting(r)'
  BY <1>1 DEF CacheIInv, Told, Waiting, Gets
<1>4. \A r \in Queries : Fresh(r)'
  BY <1>1 DEF CacheIInv, Fresh, Gets, HasData
<1> QED BY <1>2, <1>3, <1>4 DEF CacheIInv

LEMMA CollectKeeps == ASSUME CacheIInv, NEW q \in Queries, Collect(q) PROVE CacheIInv'
<1> USE DEF Collect
<1>1. CacheTypeOK'
  BY IdleType DEF CacheIInv, CacheTypeOK
<1>2. \A r \in Queries : Told(r)' /\ Waiting(r)'
  BY DEF CacheIInv, Told, Waiting, Gets
<1>3. \A r \in Queries : active[r] => data'[r] = data[r]
  BY DEF CacheIInv, CacheTypeOK
<1>4. \A r \in Queries : Fresh(r)'
  BY <1>3 DEF CacheIInv, Fresh, Gets, HasData
<1> QED BY <1>1, <1>2, <1>4 DEF CacheIInv

\* What a refetch and an invalidation have in common.
LEMMA RestartKeeps ==
    ASSUME CacheIInv, NEW q \in Queries, Restart(q),
           server' = server, data' = data, failed' = failed, active' = active,
           clean' \in [Queries -> BOOLEAN], \A r \in Queries \ {q} : clean'[r] = clean[r],
           told' \in [Queries -> [Paths -> Nat]], \A r \in Queries \ {q} : told'[r] = told[r],
           \A p \in Gets(q) : told'[q][p] <= server[p],
           clean'[q] => Quiet(q) \/ (clean[q] /\ told'[q] = told[q])
    PROVE  CacheIInv'
<1>1. CASE active[q] /\ (fetch[q].state = "idle" \/ HasData(q))
  <2>1. Begin(q, GivenUp(q))
    BY <1>1 DEF Restart
  <2>2. GivenUp(q) \in SUBSET SUBSET Paths
    BY GivenUpType DEF CacheIInv
  <2>3. active' \in [Queries -> BOOLEAN]
    BY DEF CacheIInv, CacheTypeOK
  <2> QED BY <2>1, <2>2, <2>3, BeginKeeps
<1>2. CASE ~(active[q] /\ (fetch[q].state = "idle" \/ HasData(q)))
  <2>1. UNCHANGED <<fetch, wire, zombies>>
    BY <1>2 DEF Restart
  <2>2. CacheTypeOK'
    BY <2>1 DEF CacheIInv, CacheTypeOK
  <2>3. \A r \in Queries : Told(r)' /\ Waiting(r)'
    BY <2>1 DEF CacheIInv, Told, Waiting, Gets
  <2>4. \A r \in Queries \ {q} : Fresh(r)'
    BY <2>1 DEF CacheIInv, Fresh, Gets, HasData
  <2>5. Fresh(q)'
    <3> SUFFICES ASSUME clean'[q] PROVE Fresh(q)'
      BY DEF Fresh
    <3>1. CASE Quiet(q)
      BY <1>2, <2>1, <3>1, QuietFacts DEF Fresh, Gets, HasData
    <3>2. CASE clean[q] /\ told'[q] = told[q]
      BY <2>1, <3>2 DEF CacheIInv, Fresh, Gets, HasData
    <3> QED BY <3>1, <3>2
  <2> QED BY <2>2, <2>3, <2>4, <2>5 DEF CacheIInv
<1> QED BY <1>1, <1>2

LEMMA RefetchKeeps == ASSUME CacheIInv, NEW q \in Queries, Refetch(q) PROVE CacheIInv'
<1>1. /\ clean' \in [Queries -> BOOLEAN]
      /\ \A r \in Queries \ {q} : clean'[r] = clean[r]
      /\ clean'[q] => Quiet(q) \/ clean[q]
  BY DEF Refetch, CacheIInv, CacheTypeOK
<1>2. told' \in [Queries -> [Paths -> Nat]] /\ \A p \in Gets(q) : told'[q][p] <= server[p]
  BY DEF Refetch, CacheIInv, CacheTypeOK, Told
<1> QED BY <1>1, <1>2, RestartKeeps DEF Refetch

LEMMA InvalidateKeeps ==
    ASSUME CacheIInv, NEW q \in Queries, NEW p \in Gets(q), NEW v \in 0..server[p],
           Invalidate(q, p, v)
    PROVE  CacheIInv'
<1>1. /\ clean' \in [Queries -> BOOLEAN]
      /\ \A r \in Queries \ {q} : clean'[r] = clean[r]
      /\ clean'[q] => Quiet(q)
  BY DEF Invalidate, CacheIInv, CacheTypeOK, Quiet
<1>2. p \in Paths /\ server[p] \in Nat
  BY GetsArePaths DEF CacheIInv, CacheTypeOK
<1>3. /\ told' \in [Queries -> [Paths -> Nat]]
      /\ \A r \in Queries \ {q} : told'[r] = told[r]
      /\ \A x \in Gets(q) : told'[q][x] <= server[x]
  BY <1>2, GetsArePaths DEF Invalidate, CacheIInv, CacheTypeOK, Told
<1> QED BY <1>1, <1>3, RestartKeeps DEF Invalidate

LEMMA SetDataKeeps ==
    ASSUME CacheIInv, NEW q \in Queries, NEW p \in Gets(q), NEW v \in 0..server[p],
           SetData(q, p, v)
    PROVE  CacheIInv'
<1>1. p \in Paths /\ v \in Nat /\ v \in Versions
  BY GetsArePaths DEF CacheIInv, CacheTypeOK, Versions
<1>2. /\ told' \in [Queries -> [Paths -> Nat]]
      /\ \A r \in Queries \ {q} : told'[r] = told[r]
      /\ \A x \in Gets(q) : told'[q][x] <= server[x]
      /\ told'[q][p] = v /\ \A x \in Gets(q) \ {p} : told'[q][x] = told[q][x]
  BY <1>1, GetsArePaths DEF SetData, CacheIInv, CacheTypeOK, Told
<1>3. /\ data' \in [Queries -> [Paths -> Versions]]
      /\ failed' \in [Queries -> BOOLEAN]
      /\ \A r \in Queries \ {q} : data'[r] = data[r]
  <2>1. data \in [Queries -> [Paths -> Versions]] /\ failed \in [Queries -> BOOLEAN]
    BY DEF CacheIInv, CacheTypeOK
  <2>2. CASE HasData(q)
    <3>1. data' = [data EXCEPT ![q] = [data[q] EXCEPT ![p] = v]]
          /\ failed' = [failed EXCEPT ![q] = FALSE]
      BY <2>2 DEF SetData
    <3>2. [data[q] EXCEPT ![p] = v] \in [Paths -> Versions]
      BY <1>1, <2>1
    <3> QED BY <2>1, <3>1, <3>2
  <2>3. CASE ~HasData(q)
    BY <2>1, <2>3 DEF SetData
  <2> QED BY <2>2, <2>3
<1>4. /\ clean' \in [Queries -> BOOLEAN]
      /\ \A r \in Queries \ {q} : clean'[r] = clean[r]
      /\ clean'[q] => clean[q] /\ Quiet(q)
  BY DEF SetData, CacheIInv, CacheTypeOK, Quiet
<1>5. CacheTypeOK'
  BY <1>2, <1>3, <1>4 DEF SetData, CacheIInv, CacheTypeOK
<1>6. \A r \in Queries : Told(r)' /\ Waiting(r)'
  BY <1>2 DEF SetData, CacheIInv, Told, Waiting, Gets
<1>7. \A r \in Queries \ {q} : Fresh(r)'
  BY <1>2, <1>3, <1>4 DEF SetData, CacheIInv, Fresh, Gets, HasData
<1>8. Fresh(q)'
  <2> SUFFICES ASSUME clean'[q] PROVE Fresh(q)'
    BY DEF Fresh
  <2>1. fetch[q].state # "running" /\ \A x \in Gets(q) : wire[x].state # "answered"
    BY <1>4, QuietFacts
  <2>2. ASSUME active[q], fetch[q].state = "idle", HasData(q)'
        PROVE  \A x \in Gets(q) : data'[q][x] >= told'[q][x]
    <3>1. HasData(q)
      BY <2>2 DEF SetData, HasData, Gets
    <3>2. \A x \in Gets(q) : data[q][x] >= told[q][x]
      BY <1>4, <2>2, <3>1 DEF CacheIInv, Fresh
    <3>3. data'[q] = [data[q] EXCEPT ![p] = v]
      BY <3>1 DEF SetData, CacheIInv, CacheTypeOK
    <3>4. data'[q][p] = v /\ \A x \in Gets(q) \ {p} : data'[q][x] = data[q][x]
      BY <1>1, <3>3, GetsArePaths DEF CacheIInv, CacheTypeOK
    <3> QED BY <1>1, <1>2, <3>2, <3>4
  <2> QED BY <2>1, <2>2 DEF SetData, Fresh, Gets
<1> QED BY <1>5, <1>6, <1>7, <1>8 DEF CacheIInv

LEMMA WriteKeeps == ASSUME CacheIInv, NEW p \in Paths, Write(p) PROVE CacheIInv'
<1> USE DEF Write
<1>1. server' \in [Paths -> Nat] /\ \A x \in Paths : server'[x] >= server[x]
  BY DEF CacheIInv, CacheTypeOK
<1>2. CacheTypeOK'
  BY <1>1 DEF CacheIInv, CacheTypeOK
<1>3. ASSUME NEW q \in Queries PROVE Told(q)' /\ Waiting(q)' /\ Fresh(q)'
  <2>1. Told(q)'
    BY <1>1, GetsArePaths DEF CacheIInv, CacheTypeOK, Told, Gets
  <2>2. Waiting(q)' /\ Fresh(q)'
    BY DEF CacheIInv, Waiting, Fresh, Gets, HasData
  <2> QED BY <2>1, <2>2
<1> QED BY <1>2, <1>3 DEF CacheIInv

\* What the server answers is not older than what any query has been told.
LEMMA ServeKeeps == ASSUME CacheIInv, NEW p \in Paths, Serve(p) PROVE CacheIInv'
<1> USE DEF Serve
<1>1. /\ wire' \in [Paths -> Gettable]
      /\ wire'[p] = [state |-> "answered", ver |-> server[p]]
      /\ \A x \in Paths \ {p} : wire'[x] = wire[x]
  BY DEF CacheIInv, CacheTypeOK, Gettable
<1>2. CacheTypeOK'
  BY <1>1 DEF CacheIInv, CacheTypeOK, Gettable
<1>3. ASSUME NEW q \in Queries PROVE Told(q)' /\ Waiting(q)' /\ Fresh(q)'
  <2>1. Told(q)'
    BY DEF CacheIInv, Told, Gets
  <2>2. Waiting(q)'
    <3>1. \A x \in Paths : wire[x].state # "none" => wire'[x].state # "none"
      BY <1>1
    <3>2. fetch[q].missing \subseteq Paths
      BY DEF CacheIInv, CacheTypeOK, FetchType
    <3> QED BY <3>1, <3>2 DEF CacheIInv, Waiting
  <2>3. Fresh(q)'
    <3>1. \A x \in Gets(q) : x \in Paths /\ told[q][x] \in Nat /\ told[q][x] <= server[x]
      BY GetsArePaths DEF CacheIInv, CacheTypeOK, Told
    <3>2. \A x \in Gets(q) : wire'[x] = wire[x] \/ wire'[x].ver >= told[q][x]
      BY <1>1, <3>1 DEF CacheIInv, CacheTypeOK
    <3> QED BY <3>2 DEF CacheIInv, Fresh, Gets, HasData
  <2> QED BY <2>1, <2>2, <2>3
<1> QED BY <1>2, <1>3 DEF CacheIInv

LEMMA LoseKeeps == ASSUME CacheIInv, NEW p \in Paths, Lose(p) PROVE CacheIInv'
<1> USE DEF Lose
<1>1. /\ wire' \in [Paths -> Gettable]
      /\ wire'[p].state = "failed"
      /\ \A x \in Paths \ {p} : wire'[x] = wire[x]
  BY DEF CacheIInv, CacheTypeOK, Gettable
<1>2. CacheTypeOK'
  BY <1>1 DEF CacheIInv, CacheTypeOK, Gettable
<1>3. ASSUME NEW q \in Queries PROVE Told(q)' /\ Waiting(q)' /\ Fresh(q)'
  <2>1. Told(q)'
    BY DEF CacheIInv, Told, Gets
  <2>2. Waiting(q)'
    BY <1>1 DEF CacheIInv, Waiting, CacheTypeOK, FetchType
  <2>3. Fresh(q)'
    BY <1>1, GetsArePaths DEF CacheIInv, Fresh, Gets, HasData
  <2> QED BY <2>1, <2>2, <2>3
<1> QED BY <1>2, <1>3 DEF CacheIInv

LEMMA WakeKeeps == ASSUME CacheIInv, NEW q \in Queries, Wake(q) PROVE CacheIInv'
<1>1. CASE fetch[q].retry
  <2>1. /\ fetch' = [fetch EXCEPT ![q] = [fetch[q] EXCEPT !.state = "running", !.missing = First[q]]]
        /\ wire' = Request(wire, First[q])
        /\ fetch[q].got = NoGets
        /\ UNCHANGED <<server, zombies, data, active, told, failed, clean>>
    BY <1>1 DEF Wake, CacheIInv, CacheTypeOK, Waiting
  <2>2. LET g == [fetch[q] EXCEPT !.state = "running", !.missing = First[q]]
        IN  g \in FetchType /\ g.state = "running" /\ g.missing = First[q] /\ g.got = NoGets
    <3>1. fetch[q] \in FetchType /\ First[q] \in SUBSET Paths /\ fetch[q].got = NoGets
      BY <2>1, GetsArePaths DEF CacheIInv, CacheTypeOK
    <3> QED BY <3>1, RunningType
  <2>3. /\ fetch' \in [Queries -> FetchType]
        /\ fetch'[q].state = "running" /\ fetch'[q].missing = First[q] /\ fetch'[q].got = NoGets
        /\ \A r \in Queries \ {q} : fetch'[r] = fetch[r]
    BY <2>1, <2>2 DEF CacheIInv, CacheTypeOK
  <2>4. wire \in [Paths -> Gettable]
    BY DEF CacheIInv, CacheTypeOK, Gettable
  <2>5. /\ wire' \in [Paths -> Gettable]
        /\ \A p \in Paths : /\ wire[p].state # "none" => wire'[p] = wire[p]
                            /\ p \in First[q] => wire'[p].state # "none"
                            /\ wire'[p].state = "answered" => wire'[p] = wire[p]
    BY <2>1, <2>4, RequestFacts
  <2>6. CacheTypeOK'
    BY <2>1, <2>3, <2>5 DEF CacheIInv, CacheTypeOK, Gettable
  <2>7. ASSUME NEW r \in Queries PROVE Told(r)' /\ Waiting(r)' /\ Fresh(r)'
    <3>1. Told(r)'
      BY <2>1 DEF CacheIInv, Told, Gets
    <3>2. \A p \in Gets(r) : wire'[p].state = "answered" => wire'[p] = wire[p]
      BY <2>5, GetsArePaths
    <3>3. CASE r = q
      <4>1. Waiting(q)'
        BY <2>3, <2>5, GetsArePaths DEF Waiting
      <4>2. \A p \in Gets(q) : fetch'[q].got[p] = None
        BY <2>3, GetsArePaths DEF NoGets
      <4>3. Fresh(q) /\ clean'[q] = clean[q] /\ told'[q] = told[q] /\ fetch'[q].state = "running"
        BY <2>1, <2>3 DEF CacheIInv
      <4>4. Fresh(q)'
        BY <3>2, <3>3, <4>2, <4>3 DEF Fresh, Gets
      <4> QED BY <3>1, <3>3, <4>1, <4>4
    <3>4. CASE r # q
      <4>1. fetch'[r] = fetch[r] /\ Waiting(r) /\ Fresh(r) /\ fetch[r].missing \subseteq Paths
        BY <2>3, <3>4 DEF CacheIInv, CacheTypeOK, FetchType
      <4>2. Waiting(r)'
        BY <2>5, <4>1 DEF Waiting
      <4>3. Fresh(r)'
        BY <2>1, <3>2, <4>1 DEF Fresh, Gets, HasData
      <4> QED BY <3>1, <4>2, <4>3
    <3> QED BY <3>3, <3>4
  <2> QED BY <2>6, <2>7 DEF CacheIInv
<1>2. CASE ~fetch[q].retry
  <2>1. /\ fetch' = [fetch EXCEPT ![q] = Idle]
        /\ failed' = [failed EXCEPT ![q] = TRUE]
        /\ clean' = [clean EXCEPT ![q] = FALSE]
        /\ UNCHANGED <<server, wire, zombies, data, active, told>>
    BY <1>2 DEF Wake
  <2>2. CacheTypeOK'
    BY <2>1, IdleType DEF CacheIInv, CacheTypeOK
  <2>3. ASSUME NEW r \in Queries PROVE Told(r)' /\ Waiting(r)' /\ Fresh(r)'
    <3>1. Told(r)'
      BY <2>1 DEF CacheIInv, Told, Gets
    <3>2. CASE r = q
      <4>1. fetch'[q] = Idle /\ ~clean'[q]
        BY <2>1 DEF CacheIInv, CacheTypeOK
      <4>2. Waiting(q)'
        BY <4>1 DEF Waiting, Idle
      <4> QED BY <3>1, <3>2, <4>1, <4>2 DEF Fresh
    <3>3. CASE r # q
      <4>1. fetch'[r] = fetch[r] /\ clean'[r] = clean[r]
        BY <2>1, <3>3 DEF CacheIInv, CacheTypeOK
      <4> QED BY <2>1, <3>1, <4>1 DEF CacheIInv, Waiting, Fresh, Gets, HasData
    <3> QED BY <3>2, <3>3
  <2> QED BY <2>2, <2>3 DEF CacheIInv
<1> QED BY <1>1, <1>2

LEMMA ReceivedFacts ==
    ASSUME CacheTypeOK, NEW q \in Queries, NEW p \in Paths
    PROVE  /\ Received(q, p) \in FetchType
           /\ Received(q, p).state = fetch[q].state
           /\ Received(q, p).missing = IF fetch[q].missing = {p} THEN Then[q] ELSE fetch[q].missing \ {p}
           /\ Received(q, p).got \in [Paths -> Versions]
           /\ Received(q, p).got[p] = wire[p].ver
           /\ \A x \in Paths \ {p} : Received(q, p).got[x] = fetch[q].got[x]
<1>1. PICK M \in SUBSET Paths :
          M = IF fetch[q].missing = {p} THEN Then[q] ELSE fetch[q].missing \ {p}
  BY GetsArePaths DEF CacheTypeOK, FetchType
<1>2. PICK v \in Versions : v = wire[p].ver
  BY DEF CacheTypeOK, Versions
<1>3. PICK f \in FetchType : f = fetch[q]
  BY DEF CacheTypeOK
<1>4. PICK got \in [Paths -> Versions] : got = [f.got EXCEPT ![p] = v]
  BY DEF FetchType
<1>5. Received(q, p) = [f EXCEPT !.got = got, !.missing = M]
  BY <1>1, <1>2, <1>3, <1>4 DEF Received
<1>6. /\ Received(q, p) \in FetchType
      /\ Received(q, p).state = f.state
      /\ Received(q, p).missing = M
      /\ Received(q, p).got = got
  BY <1>5 DEF FetchType
<1>7. got[p] = v /\ \A x \in Paths \ {p} : got[x] = f.got[x]
  BY <1>4 DEF FetchType
<1> QED BY <1>1, <1>2, <1>3, <1>6, <1>7

LEMMA ArriveKeeps == ASSUME CacheIInv, NEW p \in Paths, Arrive(p) PROVE CacheIInv'
<1>1. wire[p].state = "answered" /\ CacheTypeOK
  BY DEF Arrive, CacheIInv
<1>2. PICK w \in [Paths -> Gettable] : w = [wire EXCEPT ![p] = NoGet]
  BY <1>1 DEF CacheTypeOK, Gettable, NoGet
<1>3. /\ w[p].state = "none"
      /\ \A x \in Paths \ {p} : w[x] = wire[x]
  BY <1>1, <1>2 DEF CacheTypeOK, NoGet
<1>4. PICK U : /\ wire' = Request(w, U)
               /\ \A q \in Queries : FirstPhaseEnds(q, p) => Then[q] \subseteq U
  <2>1. wire' = Request(w, UNION {Then[q] : q \in {r \in Queries : FirstPhaseEnds(r, p)}})
    BY <1>2 DEF Arrive
  <2>2. \A q \in Queries : FirstPhaseEnds(q, p) =>
            Then[q] \subseteq UNION {Then[x] : x \in {r \in Queries : FirstPhaseEnds(r, p)}}
    OBVIOUS
  <2> QED BY <2>1, <2>2
<1>5. /\ wire' \in [Paths -> Gettable]
      /\ \A x \in Paths : wire'[x].state = "answered" => x # p /\ wire'[x] = wire[x]
      /\ \A x \in Paths \ {p} : wire[x].state # "none" => wire'[x].state # "none"
      /\ \A x \in U : x \in Paths => wire'[x].state # "none"
  BY <1>3, <1>4, RequestFacts
<1>6. /\ fetch' = [q \in Queries |-> IF Ends(q, p) THEN Idle
                                     ELSE IF Waits(q, p) THEN Received(q, p) ELSE fetch[q]]
      /\ data' = [q \in Queries |-> IF Ends(q, p) THEN Received(q, p).got ELSE data[q]]
      /\ failed' = [q \in Queries |-> failed[q] /\ ~Ends(q, p)]
      /\ zombies' = [q \in Queries |-> {z \ {p} : z \in zombies[q]} \ {{}}]
      /\ UNCHANGED <<server, active, told, clean>>
  BY DEF Arrive
<1>7. CacheTypeOK'
  <2>1. \A q \in Queries : fetch'[q] \in FetchType
    BY <1>1, <1>6, ReceivedFacts, IdleType DEF CacheTypeOK
  <2>2. fetch' \in [Queries -> FetchType]
    BY <1>6, <2>1
  <2>3. data' \in [Queries -> [Paths -> Versions]]
    BY <1>1, <1>6, ReceivedFacts DEF CacheTypeOK
  <2>4. failed' \in [Queries -> BOOLEAN]
    BY <1>6
  <2>5. zombies' \in [Queries -> SUBSET SUBSET Paths]
    BY <1>1, <1>6 DEF CacheTypeOK
  <2> QED BY <1>1, <1>5, <1>6, <2>2, <2>3, <2>4, <2>5 DEF CacheTypeOK, Gettable
<1>8. ASSUME NEW q \in Queries PROVE Told(q)' /\ Waiting(q)' /\ Fresh(q)'
  <2>1. Told(q) /\ Waiting(q) /\ Fresh(q) /\ fetch[q].missing \subseteq Paths
    BY DEF CacheIInv, CacheTypeOK, FetchType
  <2>2. Told(q)'
    BY <1>6, <2>1 DEF Told, Gets
  <2>3. \A x \in Gets(q) : wire'[x].state = "answered" => wire'[x] = wire[x]
    BY <1>5, GetsArePaths
  <2>4. CASE Ends(q, p)
    <3>1. fetch'[q] = Idle /\ data'[q] = Received(q, p).got /\ Waits(q, p) /\ p \in Gets(q)
      BY <1>6, <2>1, <2>4 DEF Ends, Waits, Waiting, Gets
    <3>9. /\ Received(q, p).state = fetch[q].state
          /\ Received(q, p).missing =
                IF fetch[q].missing = {p} THEN Then[q] ELSE fetch[q].missing \ {p}
          /\ Received(q, p).got[p] = wire[p].ver
          /\ \A x \in Paths \ {p} : Received(q, p).got[x] = fetch[q].got[x]
      BY <1>1, ReceivedFacts
    <3>2. Waiting(q)'
      BY <3>1 DEF Waiting, Idle
    <3>3. ASSUME clean[q], HasData(q)' PROVE \A x \in Gets(q) : data'[q][x] >= told[q][x]
      <4>1. wire[p].ver >= told[q][p]
        BY <1>1, <2>1, <3>1, <3>3 DEF Fresh
      <4>2. \A x \in Gets(q) : fetch[q].got[x] # None => fetch[q].got[x] >= told[q][x]
        BY <2>1, <3>1, <3>3 DEF Fresh, Waits
      <4>3. \A x \in Gets(q) : data'[q][x] # None
        BY <3>3 DEF HasData, Gets
      <4> QED BY <3>1, <3>9, <4>1, <4>2, <4>3, GetsArePaths
    <3>4. Fresh(q)'
      <4>1. fetch'[q].state = "idle"
        BY <3>1 DEF Idle
      <4> QED BY <1>6, <2>1, <2>3, <3>3, <4>1 DEF Fresh, Gets
    <3> QED BY <2>2, <3>2, <3>4
  <2>5. CASE ~Ends(q, p) /\ Waits(q, p)
    <3>1. fetch'[q] = Received(q, p) /\ fetch[q].state = "running" /\ p \in fetch[q].missing
      BY <1>6, <2>5 DEF Waits
    <3>2. p \in Gets(q)
      BY <2>1, <3>1 DEF Waiting, Gets
    <3>9. /\ Received(q, p).state = fetch[q].state
          /\ Received(q, p).missing =
                IF fetch[q].missing = {p} THEN Then[q] ELSE fetch[q].missing \ {p}
          /\ Received(q, p).got[p] = wire[p].ver
          /\ \A x \in Paths \ {p} : Received(q, p).got[x] = fetch[q].got[x]
      BY <1>1, ReceivedFacts
    <3>5. Waiting(q)'
      <4>1. CASE fetch[q].missing = {p}
        <5>1. p \in First[q] /\ Then[q] # {} /\ Then[q] \subseteq U
          BY <1>4, <2>1, <2>5, <3>1, <4>1 DEF Ends, Waits, Waiting, FirstPhaseEnds
        <5>2. fetch'[q].missing = Then[q] /\ fetch'[q].state = "running"
          BY <3>1, <3>9, <4>1
        <5>3. \A x \in Then[q] : wire'[x].state # "none"
          BY <1>5, <5>1, GetsArePaths
        <5> QED BY <5>1, <5>2, <5>3 DEF Waiting
      <4>2. CASE fetch[q].missing # {p}
        <5>1. fetch'[q].missing = fetch[q].missing \ {p} /\ fetch'[q].state = "running"
          BY <3>1, <3>9, <4>2
        <5>2. fetch[q].missing \ {p} # {}
          BY <3>1, <4>2
        <5>3. \A x \in fetch[q].missing \ {p} : wire'[x].state # "none"
          BY <1>5, <2>1, <3>1 DEF Waiting
        <5> QED BY <2>1, <3>1, <5>1, <5>2, <5>3 DEF Waiting
      <4> QED BY <4>1, <4>2
    <3>6. ASSUME clean[q]
          PROVE  \A x \in Gets(q) : fetch'[q].got[x] # None => fetch'[q].got[x] >= told[q][x]
      <4>1. wire[p].ver >= told[q][p]
        BY <1>1, <2>1, <3>2, <3>6 DEF Fresh
      <4>2. \A x \in Gets(q) : fetch[q].got[x] # None => fetch[q].got[x] >= told[q][x]
        BY <2>1, <3>1, <3>6 DEF Fresh
      <4> QED BY <3>1, <3>9, <4>1, <4>2, GetsArePaths
    <3>7. fetch'[q].state = "running"
      BY <3>1, <3>9
    <3>8. Fresh(q)'
      BY <1>6, <2>1, <2>3, <3>6, <3>7 DEF Fresh, Gets
    <3> QED BY <2>2, <3>5, <3>8
  <2>6. CASE ~Ends(q, p) /\ ~Waits(q, p)
    <3>1. fetch'[q] = fetch[q] /\ data'[q] = data[q]
      BY <1>6, <2>6
    <3>2. Waiting(q)'
      BY <1>5, <2>1, <2>6, <3>1 DEF Waiting, Waits
    <3>3. Fresh(q)'
      BY <1>6, <2>1, <2>3, <3>1 DEF Fresh, Gets, HasData
    <3> QED BY <2>2, <3>2, <3>3
  <2> QED BY <2>4, <2>5, <2>6
<1> QED BY <1>7, <1>8 DEF CacheIInv

LEMMA RetriedFacts ==
    ASSUME NEW q \in Queries, fetch[q].tries \in Nat
    PROVE  /\ Retried(q) \in FetchType
           /\ Retried(q).state # "running" /\ Retried(q).got = NoGets
           /\ Retried(q).state = "idle" => Retried(q) = Idle
<1>1. CASE fetch[q].retry /\ fetch[q].tries + 1 < MaxTries
  <2>1. PICK n \in Nat : n = fetch[q].tries + 1
    OBVIOUS
  <2>2. Retried(q) = [state |-> "asleep", missing |-> {}, got |-> NoGets, tries |-> n, retry |-> TRUE]
    BY <1>1, <2>1 DEF Retried, Idle
  <2> QED BY <2>2, IdleType DEF FetchType
<1>2. CASE ~(fetch[q].retry /\ fetch[q].tries + 1 < MaxTries)
  <2>1. Retried(q) = Idle
    BY <1>2 DEF Retried
  <2> QED BY <2>1, IdleType DEF Idle
<1> QED BY <1>1, <1>2

LEMMA ArriveFailedKeeps == ASSUME CacheIInv, NEW p \in Paths, ArriveFailed(p) PROVE CacheIInv'
<1> USE DEF ArriveFailed
<1>1. /\ wire' \in [Paths -> Gettable]
      /\ wire'[p].state = "none"
      /\ \A x \in Paths \ {p} : wire'[x] = wire[x]
  BY DEF CacheIInv, CacheTypeOK, Gettable, NoGet
<1>2. \A q \in Queries : fetch[q] \in FetchType /\ fetch[q].tries \in Nat
                         /\ fetch[q].missing \subseteq Paths
  BY DEF CacheIInv, CacheTypeOK, FetchType
<1>3. \A q \in Queries : fetch'[q] \in FetchType
  BY <1>2, RetriedFacts
<1>4. CacheTypeOK'
  <2>1. fetch' \in [Queries -> FetchType]
    BY <1>3
  <2>2. failed' \in [Queries -> BOOLEAN] /\ clean' \in [Queries -> BOOLEAN]
        /\ zombies' \in [Queries -> SUBSET SUBSET Paths]
    BY DEF CacheIInv, CacheTypeOK
  <2> QED BY <1>1, <2>1, <2>2 DEF CacheIInv, CacheTypeOK, Gettable
<1>5. ASSUME NEW q \in Queries PROVE Told(q)' /\ Waiting(q)' /\ Fresh(q)'
  <2>1. Told(q) /\ Waiting(q) /\ Fresh(q)
    BY DEF CacheIInv
  <2>2. Told(q)'
    BY <2>1 DEF Told, Gets
  <2>3. \A x \in Gets(q) : wire'[x].state = "answered" => wire'[x] = wire[x]
    BY <1>1, GetsArePaths
  <2>4. CASE Waits(q, p)
    <3>1. fetch'[q] = Retried(q) /\ (clean'[q] => clean[q] /\ Retried(q) # Idle)
      BY <2>4
    <3>2. fetch'[q].state # "running" /\ fetch'[q].got = NoGets
          /\ (clean'[q] => fetch'[q].state # "idle")
      BY <1>2, <3>1, RetriedFacts
    <3>3. Waiting(q)'
      BY <3>2 DEF Waiting
    <3>4. Fresh(q)'
      BY <2>1, <2>3, <3>1, <3>2 DEF Fresh, Gets
    <3> QED BY <2>2, <3>3, <3>4
  <2>5. CASE ~Waits(q, p)
    <3>1. fetch'[q] = fetch[q] /\ (clean'[q] => clean[q])
      BY <2>5
    <3>2. Waiting(q)'
      BY <1>1, <1>2, <2>1, <2>5, <3>1 DEF Waiting, Waits
    <3>3. Fresh(q)'
      BY <2>1, <2>3, <3>1 DEF Fresh, Gets, HasData
    <3> QED BY <2>2, <3>2, <3>3
  <2> QED BY <2>4, <2>5
<1> QED BY <1>4, <1>5 DEF CacheIInv

-----------------------------------------------------------------------------
LEMMA InitEstablishes == CacheInit => CacheIInv
<1> SUFFICES ASSUME CacheInit PROVE CacheIInv
  OBVIOUS
<1>1. CacheTypeOK
  BY IdleType DEF CacheInit, CacheTypeOK, NoGet
<1>2. ASSUME NEW q \in Queries PROVE Told(q)
  <2> SUFFICES ASSUME NEW p \in Gets(q) PROVE told[q][p] <= server[p]
    BY DEF Told
  <2>1. p \in Paths
    BY GetsArePaths
  <2>2. server[p] = 0 /\ told[q][p] = 0
    BY <2>1 DEF CacheInit
  <2> QED BY <2>2
<1>3. \A q \in Queries : fetch[q].state = "idle"
  BY DEF CacheInit, Idle
<1>4. \A q \in Queries : Waiting(q) /\ Fresh(q)
  BY <1>3 DEF CacheInit, Waiting, Fresh
<1> QED BY <1>1, <1>2, <1>4 DEF CacheIInv

LEMMA StepKeeps == CacheIInv /\ [CacheNext]_cacheVars => CacheIInv'
<1> SUFFICES ASSUME CacheIInv, [CacheNext]_cacheVars PROVE CacheIInv'
  OBVIOUS
<1>1. ASSUME NEW p \in Paths, Write(p) \/ Network(p) PROVE CacheIInv'
  BY <1>1, WriteKeeps, ServeKeeps, LoseKeeps, ArriveKeeps, ArriveFailedKeeps DEF Network
<1>2. ASSUME NEW q \in Queries, Mount(q) \/ Unmount(q) \/ Collect(q) \/ Refetch(q) \/ Wake(q)
      PROVE  CacheIInv'
  BY <1>2, MountKeeps, UnmountKeeps, CollectKeeps, RefetchKeeps, WakeKeeps
<1>3. ASSUME NEW q \in Queries, NEW p \in Gets(q), NEW v \in 0..server[p],
             Invalidate(q, p, v) \/ SetData(q, p, v)
      PROVE  CacheIInv'
  BY <1>3, InvalidateKeeps, SetDataKeeps
<1>4. CASE UNCHANGED cacheVars
  BY <1>4 DEF cacheVars, CacheIInv, CacheTypeOK, Told, Waiting, Fresh, Gets, HasData
<1> QED BY <1>1, <1>2, <1>3, <1>4 DEF CacheNext

\* The inductive invariant: what is told, what is on its way and what is held
\* agree as long as the query is clean.
THEOREM CacheIInvHolds == CacheSpec => []CacheIInv
<1> QED BY InitEstablishes, StepKeeps, PTL DEF CacheSpec

\* The types of the cache's variables.
THEOREM CacheTypeCorrect == CacheSpec => []CacheTypeOK
<1>1. CacheIInv => CacheTypeOK
  BY DEF CacheIInv
<1> QED BY <1>1, CacheIInvHolds, PTL

\* A page that fetches nothing shows what its own mutations told the cache, unless
\* a GET of the query was on its way when the cache was told.
THEOREM PageReadsOwnWrites == CacheSpec => []ReadsOwnWrites
<1>1. CacheIInv => ReadsOwnWrites
  BY DEF CacheIInv, Fresh, ReadsOwnWrites, Shown
<1> QED BY <1>1, CacheIInvHolds, PTL

-----------------------------------------------------------------------------
(* Versions are those of the server, and what is shown is complete         *)
\* No answer, and nothing made of answers, is ahead of the server.
Known ==
    /\ \A p \in Paths : wire[p].ver <= server[p]
    /\ \A q \in Queries : \A p \in Paths : data[q][p] <= server[p] /\ fetch[q].got[p] <= server[p]

\* A fetch has an answer, waits for one, or has still to ask in its second phase.
Filled(q) ==
    fetch[q].state = "running" =>
        \A p \in Gets(q) : \/ fetch[q].got[p] # None
                           \/ p \in fetch[q].missing
                           \/ p \in Then[q] /\ fetch[q].missing \subseteq First[q]

ReadInv == CacheIInv /\ Known /\ \A q \in Queries : Filled(q)

\* A query keeps its data while a page observes it.
KeepsData(q) == active[q] /\ HasData(q) => HasData(q)'
Reads == Known' /\ \A q \in Queries : Filled(q)' /\ KeepsData(q)

LEMMA NoneIsOld ==
    ASSUME CacheTypeOK
    PROVE  \A p \in Paths : /\ NoGets[p] = None /\ NoGets[p] <= server[p] /\ server[p] \in Nat
                            /\ NoGet.ver <= server[p] /\ Sent.ver <= server[p]
BY DEF CacheTypeOK, NoGets, None, NoGet, Sent

LEMMA RequestReads ==
    ASSUME CacheTypeOK, NEW w, NEW P, \A p \in Paths : w[p].ver <= server[p]
    PROVE  \A p \in Paths : Request(w, P)[p].ver <= server[p]
BY NoneIsOld DEF Request

LEMMA BeginReads ==
    ASSUME ReadInv, NEW q \in Queries, NEW S \in SUBSET SUBSET Paths, Begin(q, S),
           server' = server, data' = data
    PROVE  Reads
<1>1. CacheTypeOK /\ Known
  BY DEF ReadInv, CacheIInv
<1>2. \A p \in Paths : wire'[p].ver <= server'[p]
  BY <1>1, RequestReads DEF Begin, Known
<1>3. /\ fetch'[q].missing = First[q] /\ fetch'[q].got = NoGets
      /\ \A r \in Queries \ {q} : fetch'[r] = fetch[r]
  BY <1>1, BeginFacts
<1>4. Known'
  BY <1>1, <1>2, <1>3, NoneIsOld DEF Known
<1>5. ASSUME NEW r \in Queries PROVE Filled(r)' /\ KeepsData(r)
  <2>1. CASE r = q
    BY <1>3, <2>1 DEF Filled, KeepsData, HasData, Gets
  <2>2. CASE r # q
    BY <1>3, <2>2 DEF ReadInv, Filled, KeepsData, HasData, Gets
  <2> QED BY <2>1, <2>2
<1> QED BY <1>4, <1>5 DEF Reads

\* A step that leaves fetches and answers alone.
LEMMA QuietReads ==
    ASSUME ReadInv, server' = server, wire' = wire, data' = data,
           \A q \in Queries : /\ fetch'[q].state = fetch[q].state
                              /\ fetch'[q].missing = fetch[q].missing
                              /\ fetch'[q].got = fetch[q].got
    PROVE  Reads
<1>1. Known'
  BY DEF ReadInv, Known
<1>2. \A q \in Queries : Filled(q)' /\ KeepsData(q)
  BY DEF ReadInv, Filled, KeepsData, HasData, Gets
<1> QED BY <1>1, <1>2 DEF Reads

LEMMA RetryChange ==
    ASSUME CacheTypeOK, NEW q \in Queries, NEW b \in BOOLEAN,
           fetch' = [fetch EXCEPT ![q].retry = b]
    PROVE  \A r \in Queries : /\ fetch'[r].state = fetch[r].state
                              /\ fetch'[r].missing = fetch[r].missing
                              /\ fetch'[r].got = fetch[r].got
<1> SUFFICES ASSUME NEW r \in Queries
             PROVE  /\ fetch'[r].state = fetch[r].state
                    /\ fetch'[r].missing = fetch[r].missing
                    /\ fetch'[r].got = fetch[r].got
  OBVIOUS
<1>1. fetch[r] \in FetchType
  BY DEF CacheTypeOK
<1>2. fetch'[r] = fetch[r] \/ fetch'[r] = [fetch[r] EXCEPT !.retry = b]
  BY DEF CacheTypeOK
<1> QED BY <1>1, <1>2, RetryType

LEMMA MountReads == ASSUME ReadInv, NEW q \in Queries, Mount(q) \/ Unmount(q) PROVE Reads
<1>1. CASE Mount(q) /\ Begin(q, {})
  BY <1>1, BeginReads DEF Mount
<1>2. CASE Mount(q) /\ fetch' = [fetch EXCEPT ![q].retry = TRUE] /\ wire' = wire
  <2>1. \A r \in Queries : /\ fetch'[r].state = fetch[r].state
                           /\ fetch'[r].missing = fetch[r].missing
                           /\ fetch'[r].got = fetch[r].got
    BY <1>2, RetryChange DEF ReadInv, CacheIInv
  <2> QED BY <1>2, <2>1, QuietReads DEF Mount
<1>3. CASE Unmount(q)
  <2>1. PICK b \in BOOLEAN : b = (fetch[q].state = "idle")
    OBVIOUS
  <2>2. fetch' = [fetch EXCEPT ![q].retry = b]
    BY <1>3, <2>1 DEF Unmount
  <2>3. \A r \in Queries : /\ fetch'[r].state = fetch[r].state
                           /\ fetch'[r].missing = fetch[r].missing
                           /\ fetch'[r].got = fetch[r].got
    BY <2>2, RetryChange DEF ReadInv, CacheIInv
  <2> QED BY <1>3, <2>3, QuietReads DEF Unmount
<1> QED BY <1>1, <1>2, <1>3 DEF Mount

LEMMA CollectReads == ASSUME ReadInv, NEW q \in Queries, Collect(q) PROVE Reads
<1>1. /\ UNCHANGED <<server, wire, fetch>> /\ ~active[q]
      /\ data'[q] = NoGets /\ \A r \in Queries \ {q} : data'[r] = data[r]
  BY DEF Collect, ReadInv, CacheIInv, CacheTypeOK
<1>2. Known'
  BY <1>1, NoneIsOld DEF ReadInv, CacheIInv, Known
<1>3. \A r \in Queries : Filled(r)' /\ KeepsData(r)
  BY <1>1 DEF ReadInv, Filled, KeepsData, HasData, Gets
<1> QED BY <1>2, <1>3 DEF Reads

LEMMA RestartReads ==
    ASSUME ReadInv, NEW q \in Queries, Restart(q), server' = server, data' = data
    PROVE  Reads
<1>1. CASE Begin(q, GivenUp(q))
  BY <1>1, GivenUpType, BeginReads DEF ReadInv, CacheIInv
<1>2. CASE UNCHANGED <<fetch, wire, zombies>>
  BY <1>2, QuietReads
<1> QED BY <1>1, <1>2 DEF Restart

LEMMA SetDataReads ==
    ASSUME ReadInv, NEW q \in Queries, NEW p \in Gets(q), NEW v \in 0..server[p], SetData(q, p, v)
    PROVE  Reads
<1>1. CASE data' = data
  BY <1>1, QuietReads DEF SetData
<1>2. CASE HasData(q) /\ data' = [data EXCEPT ![q][p] = v]
  <2>1. /\ UNCHANGED <<server, wire, fetch>>
        /\ p \in Paths /\ server[p] \in Nat /\ v \in Nat /\ v <= server[p]
        /\ data \in [Queries -> [Paths -> Versions]]
    BY GetsArePaths DEF SetData, ReadInv, CacheIInv, CacheTypeOK
  <2>2. /\ data'[q] = [data[q] EXCEPT ![p] = v]
        /\ \A r \in Queries \ {q} : data'[r] = data[r]
    BY <1>2, <2>1
  <2>3. data'[q][p] = v /\ \A x \in Paths \ {p} : data'[q][x] = data[q][x]
    BY <2>1, <2>2
  <2>4. Known'
    BY <2>1, <2>2, <2>3 DEF ReadInv, Known
  <2>5. ASSUME NEW r \in Queries PROVE Filled(r)' /\ KeepsData(r)
    <3>1. Filled(r)'
      BY <2>1 DEF ReadInv, Filled, Gets
    <3>2. CASE r = q
      BY <2>1, <2>3, <3>1, <3>2, GetsArePaths DEF KeepsData, HasData, Gets, None
    <3>3. CASE r # q
      BY <2>2, <3>1, <3>3 DEF KeepsData, HasData, Gets
    <3> QED BY <3>2, <3>3
  <2> QED BY <2>4, <2>5 DEF Reads
<1> QED BY <1>1, <1>2 DEF SetData

LEMMA WriteReads == ASSUME ReadInv, NEW p \in Paths, Write(p) PROVE Reads
<1>1. /\ UNCHANGED <<wire, fetch, data, active>>
      /\ \A x \in Paths : server[x] \in Nat /\ server'[x] \in Nat /\ server'[x] >= server[x]
  BY DEF Write, ReadInv, CacheIInv, CacheTypeOK
<1>2. /\ \A x \in Paths : wire[x].ver \in Nat
      /\ \A q \in Queries : \A x \in Paths : data[q][x] \in Versions /\ fetch[q].got[x] \in Versions
  BY DEF ReadInv, CacheIInv, CacheTypeOK, FetchType
<1>3. Known'
  BY <1>1, <1>2 DEF ReadInv, Known, Versions, None
<1>4. \A r \in Queries : Filled(r)' /\ KeepsData(r)
  BY <1>1 DEF ReadInv, Filled, KeepsData, HasData, Gets
<1> QED BY <1>3, <1>4 DEF Reads

LEMMA ServeReads == ASSUME ReadInv, NEW p \in Paths, Serve(p) \/ Lose(p) PROVE Reads
<1>1. /\ UNCHANGED <<server, fetch, data, active>>
      /\ \A x \in Paths : server[x] \in Nat /\ (wire'[x].ver = wire[x].ver \/ wire'[x].ver = server[x])
  BY DEF Serve, Lose, ReadInv, CacheIInv, CacheTypeOK
<1>2. Known'
  BY <1>1 DEF ReadInv, Known
<1>3. \A r \in Queries : Filled(r)' /\ KeepsData(r)
  BY <1>1 DEF ReadInv, Filled, KeepsData, HasData, Gets
<1> QED BY <1>2, <1>3 DEF Reads

LEMMA WakeReads == ASSUME ReadInv, NEW q \in Queries, Wake(q) PROVE Reads
<1>1. CacheTypeOK /\ Known /\ fetch[q] \in FetchType
  BY DEF ReadInv, CacheIInv, CacheTypeOK
<1>2. CASE fetch[q].retry
  <2>1. /\ fetch' = [fetch EXCEPT ![q] = [fetch[q] EXCEPT !.state = "running", !.missing = First[q]]]
        /\ wire' = Request(wire, First[q]) /\ fetch[q].got = NoGets
        /\ UNCHANGED <<server, data, active>>
    BY <1>1, <1>2 DEF Wake, ReadInv, CacheIInv, CacheTypeOK, Waiting
  <2>2. LET g == [fetch[q] EXCEPT !.state = "running", !.missing = First[q]]
        IN  g.missing = First[q] /\ g.got = NoGets
    BY <1>1, <2>1, GetsArePaths, RunningType
  <2>3. /\ fetch'[q].missing = First[q] /\ fetch'[q].got = NoGets
        /\ \A r \in Queries \ {q} : fetch'[r] = fetch[r]
    BY <1>1, <2>1, <2>2 DEF CacheTypeOK
  <2>4. Known'
    BY <1>1, <2>1, <2>3, NoneIsOld, RequestReads DEF Known
  <2>5. ASSUME NEW r \in Queries PROVE Filled(r)' /\ KeepsData(r)
    <3>1. CASE r = q
      BY <2>1, <2>3, <3>1 DEF Filled, KeepsData, HasData, Gets
    <3>2. CASE r # q
      BY <2>1, <2>3, <3>2 DEF ReadInv, Filled, KeepsData, HasData, Gets
    <3> QED BY <3>1, <3>2
  <2> QED BY <2>4, <2>5 DEF Reads
<1>3. CASE ~fetch[q].retry
  <2>1. /\ UNCHANGED <<server, wire, data, active>> /\ fetch'[q] = Idle
        /\ \A r \in Queries \ {q} : fetch'[r] = fetch[r]
    BY <1>1, <1>3 DEF Wake, CacheTypeOK
  <2>2. Known'
    BY <1>1, <2>1, NoneIsOld DEF Known, Idle
  <2>3. \A r \in Queries : Filled(r)' /\ KeepsData(r)
    BY <2>1 DEF ReadInv, Filled, KeepsData, HasData, Gets, Idle
  <2> QED BY <2>2, <2>3 DEF Reads
<1> QED BY <1>2, <1>3

LEMMA ArriveReads == ASSUME ReadInv, NEW p \in Paths, Arrive(p) PROVE Reads
<1>1. CacheTypeOK /\ Known /\ wire[p].ver \in Nat /\ wire[p].ver <= server[p]
  BY DEF ReadInv, CacheIInv, CacheTypeOK, Known
<1>2. /\ fetch' = [q \in Queries |-> IF Ends(q, p) THEN Idle
                                     ELSE IF Waits(q, p) THEN Received(q, p) ELSE fetch[q]]
      /\ data' = [q \in Queries |-> IF Ends(q, p) THEN Received(q, p).got ELSE data[q]]
      /\ UNCHANGED <<server, active>>
  BY DEF Arrive
<1>3. \A x \in Paths : wire'[x].ver <= server'[x]
  <2>1. PICK w : w = [wire EXCEPT ![p] = NoGet]
    OBVIOUS
  <2>2. \A x \in Paths : w[x].ver <= server[x]
    BY <1>1, <2>1, NoneIsOld DEF CacheTypeOK, Known
  <2>3. PICK U : wire' = Request(w, U)
    BY <2>1 DEF Arrive
  <2> QED BY <1>1, <1>2, <2>2, <2>3, RequestReads
<1>4. ASSUME NEW q \in Queries
      PROVE  \A x \in Paths : Received(q, p).got[x] <= server[x]
  <2>1. /\ Received(q, p).got[p] = wire[p].ver
        /\ \A x \in Paths \ {p} : Received(q, p).got[x] = fetch[q].got[x]
    BY <1>1, ReceivedFacts
  <2> QED BY <1>1, <2>1 DEF Known
<1>5. Known'
  <2>1. ASSUME NEW q \in Queries, NEW x \in Paths
        PROVE  data'[q][x] <= server'[x] /\ fetch'[q].got[x] <= server'[x]
    <3>1. data'[q] = data[q] \/ data'[q] = Received(q, p).got
      BY <1>2
    <3>2. fetch'[q] = fetch[q] \/ fetch'[q] = Received(q, p) \/ fetch'[q] = Idle
      BY <1>2
    <3>3. Idle.got[x] <= server[x]
      BY <1>1, NoneIsOld DEF Idle
    <3> QED BY <1>1, <1>2, <1>4, <3>1, <3>2, <3>3 DEF Known
  <2> QED BY <1>3, <2>1 DEF Known
<1>6. ASSUME NEW q \in Queries PROVE Filled(q)' /\ KeepsData(q)
  <2>1. Filled(q) /\ Waiting(q) /\ fetch[q].missing \subseteq Paths
    BY DEF ReadInv, CacheIInv, CacheTypeOK, FetchType
  <2>2. /\ Received(q, p).state = fetch[q].state
        /\ Received(q, p).missing =
              IF fetch[q].missing = {p} THEN Then[q] ELSE fetch[q].missing \ {p}
        /\ Received(q, p).got[p] = wire[p].ver
        /\ \A x \in Paths \ {p} : Received(q, p).got[x] = fetch[q].got[x]
    BY <1>1, ReceivedFacts
  <2>3. wire[p].ver # None
    BY <1>1 DEF None
  <2>4. CASE Ends(q, p)
    <3>1. fetch'[q] = Idle /\ data'[q] = Received(q, p).got
      BY <1>2, <2>4
    <3>2. \A x \in Gets(q) : x = p \/ fetch[q].got[x] # None
      BY <2>1, <2>4, CacheAssumption DEF Ends, Waits, Filled, Gets
    <3>3. HasData(q)'
      BY <2>2, <2>3, <3>1, <3>2, GetsArePaths DEF HasData, Gets
    <3> QED BY <3>1, <3>3 DEF Filled, KeepsData, Idle
  <2>5. CASE ~Ends(q, p) /\ Waits(q, p)
    <3>1. fetch'[q] = Received(q, p) /\ data'[q] = data[q]
      BY <1>2, <2>5
    <3>2. fetch[q].state = "running" /\ p \in fetch[q].missing
      BY <2>5 DEF Waits
    <3>3. CASE fetch[q].missing = {p}
      <4>1. \A x \in Gets(q) : x = p \/ fetch[q].got[x] # None \/ x \in Then[q]
        BY <2>1, <3>2, <3>3 DEF Filled
      <4> QED BY <1>2, <2>2, <2>3, <3>1, <3>3, <4>1, GetsArePaths DEF Filled, KeepsData, HasData, Gets
    <3>4. CASE fetch[q].missing # {p}
      <4>1. fetch'[q].missing = fetch[q].missing \ {p}
        BY <2>2, <3>1, <3>4
      <4>2. \A x \in Gets(q) : \/ x = p \/ fetch[q].got[x] # None \/ x \in fetch[q].missing
                               \/ x \in Then[q] /\ fetch[q].missing \subseteq First[q]
        BY <2>1, <3>2 DEF Filled
      <4>3. Filled(q)'
        BY <2>2, <2>3, <3>1, <4>1, <4>2, GetsArePaths DEF Filled, Gets
      <4> QED BY <3>1, <4>3 DEF KeepsData, HasData, Gets
    <3> QED BY <3>3, <3>4
  <2>6. CASE ~Ends(q, p) /\ ~Waits(q, p)
    BY <1>2, <2>1, <2>6 DEF Filled, KeepsData, HasData, Gets
  <2> QED BY <2>4, <2>5, <2>6
<1> QED BY <1>5, <1>6 DEF Reads

LEMMA ArriveFailedReads == ASSUME ReadInv, NEW p \in Paths, ArriveFailed(p) PROVE Reads
<1>1. CacheTypeOK /\ Known
  BY DEF ReadInv, CacheIInv
<1>2. /\ UNCHANGED <<server, data, active>>
      /\ \A x \in Paths : wire'[x] = wire[x] \/ wire'[x] = NoGet
      /\ \A q \in Queries : fetch'[q] = IF Waits(q, p) THEN Retried(q) ELSE fetch[q]
  BY <1>1 DEF ArriveFailed, CacheTypeOK
<1>3. \A q \in Queries : Retried(q).state # "running" /\ Retried(q).got = NoGets
  BY <1>1, RetriedFacts DEF CacheTypeOK, FetchType
<1>4. Known'
  BY <1>1, <1>2, <1>3, NoneIsOld DEF Known
<1>5. \A q \in Queries : Filled(q)' /\ KeepsData(q)
  BY <1>2, <1>3 DEF ReadInv, Filled, KeepsData, HasData, Gets
<1> QED BY <1>4, <1>5 DEF Reads

LEMMA ReadStep ==
    ASSUME ReadInv, [CacheNext]_cacheVars
    PROVE  ReadInv' /\ Reads
<1>1. CacheIInv'
  BY StepKeeps DEF ReadInv
<1>2. ASSUME NEW p \in Paths, Write(p) \/ Network(p) PROVE Reads
  BY <1>2, WriteReads, ServeReads, ArriveReads, ArriveFailedReads DEF Network
<1>3. ASSUME NEW q \in Queries, Mount(q) \/ Unmount(q) \/ Collect(q) \/ Refetch(q) \/ Wake(q)
      PROVE  Reads
  BY <1>3, MountReads, CollectReads, RestartReads, WakeReads DEF Refetch
<1>4. ASSUME NEW q \in Queries, NEW p \in Gets(q), NEW v \in 0..server[p],
             Invalidate(q, p, v) \/ SetData(q, p, v)
      PROVE  Reads
  BY <1>4, RestartReads, SetDataReads DEF Invalidate
<1>5. ASSUME UNCHANGED cacheVars PROVE Reads
  BY <1>5, QuietReads DEF cacheVars
<1>6. Reads
  BY <1>2, <1>3, <1>4, <1>5 DEF CacheNext
<1> QED BY <1>1, <1>6 DEF ReadInv, Reads

LEMMA ReadStarts == CacheInit => ReadInv
<1> SUFFICES ASSUME CacheInit PROVE ReadInv
  OBVIOUS
<1>1. CacheIInv
  BY InitEstablishes
<1>2. Known
  BY DEF CacheInit, Known, NoGet, NoGets, None, Idle
<1>3. \A q \in Queries : Filled(q)
  BY DEF CacheInit, Filled, Idle
<1> QED BY <1>1, <1>2, <1>3 DEF ReadInv
=============================================================================
