----------------------------- MODULE QueryCache -----------------------------
(***************************************************************************)
(* What the web interface knows of the server: queries (React Query) whose  *)
(* functions send GETs through apiRequest, which joins a GET of a path that  *)
(* is already on its way instead of sending another.  Mutations tell the     *)
(* cache what they have written, by invalidating a query or by putting the   *)
(* answer into it.  What a path serves is a version number: only its age     *)
(* matters here.                                                             *)
(***************************************************************************)
EXTENDS Integers

CONSTANTS
    Paths,      \* GET paths of the API
    Queries,    \* query keys that some page observes
    First,      \* [Queries -> SUBSET Paths]: the GETs a query function begins with
    Then,       \* [Queries -> SUBSET Paths]: those it sends when these have arrived
    MaxTries    \* attempts of one fetch (the first one and its retries)

ASSUME CacheAssumption ==
    /\ First \in [Queries -> SUBSET Paths] /\ Then \in [Queries -> SUBSET Paths]
    /\ \A q \in Queries : First[q] # {} /\ First[q] \cap Then[q] = {}
    /\ MaxTries \in Nat \ {0}

VARIABLES
    server,     \* the version each path serves now
    wire,       \* the GET of each path that is on its way (inflightGetRequests)
    fetch,      \* the current fetch of each query
    zombies,    \* abandoned fetches still in their first phase: what each waits for
    data,       \* what each query holds of each path, None before the first load
    active,     \* queries that a page observes
    failed,     \* queries whose last fetch ended in an error (isError)
    told,       \* history: the version of a path a mutation last told the query of
    clean       \* history: since the query was told, nothing older can reach it

cacheVars == <<server, wire, fetch, zombies, data, active, failed, told, clean>>

None == -1
NoGets == [p \in Paths |-> None]
NoGet  == [state |-> "none", ver |-> 0]
Sent   == [state |-> "sent", ver |-> 0]
Idle   == [state |-> "idle", missing |-> {}, got |-> NoGets, tries |-> 0, retry |-> TRUE]

Gets(q)    == First[q] \cup Then[q]
HasData(q) == \A p \in Gets(q) : data[q][p] # None
Quiet(q)   == \A p \in Gets(q) : wire[p].state = "none"

CacheInit ==
    /\ server = [p \in Paths |-> 0]
    /\ wire = [p \in Paths |-> NoGet]
    /\ fetch = [q \in Queries |-> Idle]
    /\ zombies = [q \in Queries |-> {}]
    /\ data = [q \in Queries |-> NoGets]
    /\ active = [q \in Queries |-> FALSE]
    /\ failed = [q \in Queries |-> FALSE]
    /\ told = [q \in Queries |-> [p \in Paths |-> 0]]
    /\ clean = [q \in Queries |-> FALSE]

\* apiRequest for the paths of P: a GET that is on its way is joined.
Request(w, P) == [p \in Paths |-> IF p \in P /\ w[p].state = "none" THEN Sent ELSE w[p]]

\* The query function is called; a fetch given up (S: what it waited for) goes on.
Begin(q, S) ==
    /\ fetch' = [fetch EXCEPT ![q] = [Idle EXCEPT !.state = "running", !.missing = First[q]]]
    /\ wire' = Request(wire, First[q])
    /\ zombies' = [zombies EXCEPT ![q] = @ \cup S]

GivenUp(q) ==
    IF fetch[q].state = "running" /\ fetch[q].missing \subseteq First[q] /\ Then[q] # {}
    THEN {fetch[q].missing} ELSE {}

-----------------------------------------------------------------------------
\* A page that uses the query appears: nothing is fresh for longer than the call
\* (staleTime 0), so it fetches, or waits for the fetch that is on its way.
Mount(q) ==
    /\ ~active[q]
    /\ active' = [active EXCEPT ![q] = TRUE]
    /\ \/ /\ fetch[q].state = "idle"
          /\ Begin(q, {})
          /\ clean' = [clean EXCEPT ![q] = @ \/ Quiet(q)]
       \/ /\ fetch[q].state # "idle"
          /\ fetch' = [fetch EXCEPT ![q].retry = TRUE]
          /\ UNCHANGED <<wire, zombies, clean>>
    /\ UNCHANGED <<server, data, failed, told>>

\* The page goes; a fetch on its way goes on without retries.
Unmount(q) ==
    /\ active[q]
    /\ active' = [active EXCEPT ![q] = FALSE]
    /\ fetch' = [fetch EXCEPT ![q].retry = fetch[q].state = "idle"]
    /\ UNCHANGED <<server, wire, zombies, data, failed, told, clean>>

\* gcTime has passed for a query nobody observes.
Collect(q) ==
    /\ ~active[q] /\ fetch[q].state = "idle" /\ data[q] # NoGets
    /\ data' = [data EXCEPT ![q] = NoGets]
    /\ failed' = [failed EXCEPT ![q] = FALSE]
    /\ UNCHANGED <<server, wire, fetch, zombies, active, told, clean>>

\* Mutant: the query is only marked as stale.
Restart_MarksStale(q) == UNCHANGED <<fetch, wire, zombies>>

\* refetch of an observed query: a fetch on its way is given up if there are data
\* to show, and is taken for the answer if there are none.
Restart(q) ==
    IF active[q] /\ (fetch[q].state = "idle" \/ HasData(q))
    THEN Begin(q, GivenUp(q))
    ELSE UNCHANGED <<fetch, wire, zombies>>

Refetch(q) ==
    /\ active[q]
    /\ Restart(q)
    /\ clean' = [clean EXCEPT ![q] = @ \/ Quiet(q)]
    /\ UNCHANGED <<server, data, active, failed, told>>

\* invalidateQueries after a mutation that wrote version v of path p.
Invalidate(q, p, v) ==
    /\ told' = [told EXCEPT ![q][p] = v]
    /\ clean' = [clean EXCEPT ![q] = Quiet(q)]
    /\ Restart(q)
    /\ UNCHANGED <<server, data, active, failed>>

\* setQueryData with the answer of a mutation; it does not stop a fetch.
SetData(q, p, v) ==
    /\ told' = [told EXCEPT ![q][p] = v]
    /\ clean' = [clean EXCEPT ![q] = @ /\ Quiet(q)]
    /\ IF HasData(q)
       THEN /\ data' = [data EXCEPT ![q][p] = v]
            /\ failed' = [failed EXCEPT ![q] = FALSE]
       ELSE UNCHANGED <<data, failed>>
    /\ UNCHANGED <<server, wire, fetch, zombies, active>>

-----------------------------------------------------------------------------
\* Somebody writes what the path serves.
Write(p) ==
    /\ server' = [server EXCEPT ![p] = @ + 1]
    /\ UNCHANGED <<wire, fetch, zombies, data, active, failed, told, clean>>

Serve(p) ==
    /\ wire[p].state = "sent"
    /\ wire' = [wire EXCEPT ![p] = [state |-> "answered", ver |-> server[p]]]
    /\ UNCHANGED <<server, fetch, zombies, data, active, failed, told, clean>>

Lose(p) ==
    /\ wire[p].state = "sent"
    /\ wire' = [wire EXCEPT ![p].state = "failed"]
    /\ UNCHANGED <<server, fetch, zombies, data, active, failed, told, clean>>

Waits(q, p) == fetch[q].state = "running" /\ p \in fetch[q].missing

\* The answer arrives: the entry is deleted (finally), then everybody who joined
\* goes on, with the second phase or to the end.
FirstPhaseEnds(q, p) ==
    \/ Waits(q, p) /\ fetch[q].missing = {p} /\ p \in First[q]
    \/ {p} \in zombies[q]

Ends(q, p) == Waits(q, p) /\ fetch[q].missing = {p} /\ (p \in Then[q] \/ Then[q] = {})

Received(q, p) ==
    LET got == [fetch[q].got EXCEPT ![p] = wire[p].ver]
    IN  [fetch[q] EXCEPT !.got = got,
                         !.missing = IF @ = {p} THEN Then[q] ELSE @ \ {p}]

Arrive(p) ==
    /\ wire[p].state = "answered"
    /\ fetch' = [q \in Queries |-> IF Ends(q, p) THEN Idle
                                   ELSE IF Waits(q, p) THEN Received(q, p) ELSE fetch[q]]
    /\ data' = [q \in Queries |-> IF Ends(q, p) THEN Received(q, p).got ELSE data[q]]
    /\ failed' = [q \in Queries |-> failed[q] /\ ~Ends(q, p)]
    /\ zombies' = [q \in Queries |-> {z \ {p} : z \in zombies[q]} \ {{}}]
    /\ wire' = Request([wire EXCEPT ![p] = NoGet],
                       UNION {Then[q] : q \in {r \in Queries : FirstPhaseEnds(r, p)}})
    /\ UNCHANGED <<server, active, told, clean>>

\* An error reaches all who joined; the query waits and tries again while it may.
Retried(q) ==
    IF fetch[q].retry /\ fetch[q].tries + 1 < MaxTries
    THEN [Idle EXCEPT !.state = "asleep", !.tries = fetch[q].tries + 1]
    ELSE Idle

ArriveFailed(p) ==
    /\ wire[p].state = "failed"
    /\ wire' = [wire EXCEPT ![p] = NoGet]
    /\ fetch' = [q \in Queries |-> IF Waits(q, p) THEN Retried(q) ELSE fetch[q]]
    /\ failed' = [q \in Queries |-> failed[q] \/ (Waits(q, p) /\ Retried(q) = Idle)]
    /\ clean' = [q \in Queries |-> clean[q] /\ ~(Waits(q, p) /\ Retried(q) = Idle)]
    /\ zombies' = [q \in Queries |-> {z \in zombies[q] : p \notin z}]
    /\ UNCHANGED <<server, data, active, told>>

\* The delay before a retry is over; the whole query function runs again, unless
\* the page has gone meanwhile.
Wake(q) ==
    /\ fetch[q].state = "asleep"
    /\ IF fetch[q].retry
       THEN /\ fetch' = [fetch EXCEPT ![q].state = "running", ![q].missing = First[q]]
            /\ wire' = Request(wire, First[q])
            /\ UNCHANGED <<failed, clean>>
       ELSE /\ fetch' = [fetch EXCEPT ![q] = Idle]
            /\ failed' = [failed EXCEPT ![q] = TRUE]
            /\ clean' = [clean EXCEPT ![q] = FALSE]
            /\ UNCHANGED wire
    /\ UNCHANGED <<server, zombies, data, active, told>>

-----------------------------------------------------------------------------
Network(p) == Serve(p) \/ Lose(p) \/ Arrive(p) \/ ArriveFailed(p)

CacheNext ==
    \/ \E p \in Paths : Write(p) \/ Network(p)
    \/ \E q \in Queries : Mount(q) \/ Unmount(q) \/ Collect(q) \/ Refetch(q) \/ Wake(q)
    \/ \E q \in Queries : \E p \in Gets(q) : \E v \in 0..server[p] :
          Invalidate(q, p, v) \/ SetData(q, p, v)

CacheSpec == CacheInit /\ [][CacheNext]_cacheVars

-----------------------------------------------------------------------------
Versions == Nat \cup {None}

FetchType == [state : {"idle", "running", "asleep"}, missing : SUBSET Paths,
              got : [Paths -> Versions], tries : Nat, retry : BOOLEAN]

CacheTypeOK ==
    /\ server \in [Paths -> Nat]
    /\ wire \in [Paths -> [state : {"none", "sent", "answered", "failed"}, ver : Nat]]
    /\ fetch \in [Queries -> FetchType]
    /\ zombies \in [Queries -> SUBSET SUBSET Paths]
    /\ data \in [Queries -> [Paths -> Versions]]
    /\ active \in [Queries -> BOOLEAN]
    /\ failed \in [Queries -> BOOLEAN]
    /\ told \in [Queries -> [Paths -> Nat]]
    /\ clean \in [Queries -> BOOLEAN]

Shown(q) == active[q] /\ fetch[q].state = "idle" /\ HasData(q) /\ ~failed[q]

\* Once a page shows a query and fetches nothing for it, it shows at least what
\* the last mutation told the cache of - provided that no GET of the query was on
\* its way when the cache was told.  Such a GET may have read the old version;
\* apiRequest joins it and the refetch takes its answer for a fresh one, and
\* setQueryData is overwritten by it.
ReadsOwnWrites ==
    \A q \in Queries : Shown(q) /\ clean[q] => \A p \in Gets(q) : data[q][p] >= told[q][p]
=============================================================================
