-------------------------- MODULE JobQueueProofs --------------------------
(***************************************************************************)
(* The inductive invariant of the queue, and that every step of JobQueue   *)
(* keeps it, for any number of rows, workers, jobs and attempts.  The      *)
(* proofs of the two queues add their own work steps.                      *)
(***************************************************************************)
EXTENDS JobQueue, TLAPS

\* What the queue steps need of each other: types, one worker for a claimed
\* row, the row's status as its holder left it, and an attempt left for every
\* row that can still be worked on.
QueueInv ==
    /\ QueueTypeOK
    /\ ClaimsAreExclusive
    /\ HolderMatchesRow
    /\ AttemptsWithinBudget
    /\ ClaimedIsDue

\* The back-off of a row is a number of ticks, for every attempt it can reach.
LEMMA BackoffIsNat == \A n \in 1..MaxAttempts : Backoff(n) \in Nat
  BY JobQueueAssumption DEF Backoff, Least

LEMMA RetryDelayIsNat ==
  \A left \in Nat : TicksPerSecond * RetrySeconds(left) \in Nat
  BY JobQueueAssumption DEF RetrySeconds, Greatest

\* A job that is enqueued for an entry is a well-formed job.
LEMMA DeferType ==
  ASSUME jobs \subseteq [id : JobIds, entry : Entries, delay : Nat],
         NEW e \in Entries, NEW d \in Nat, Defer(e, d)
  PROVE  jobs' \subseteq [id : JobIds, entry : Entries, delay : Nat]
  BY DEF Defer

LEMMA QueueInitInv == QueueInit => QueueInv
  <1> SUFFICES ASSUME QueueInit PROVE QueueInv
    OBVIOUS
  <1>1. QueueTypeOK
    BY JobQueueAssumption DEF QueueInit, QueueTypeOK, NoRow, RowStatus, IdleWorker, WorkerPc
  <1>2. ClaimsAreExclusive /\ HolderMatchesRow
    BY DEF QueueInit, ClaimsAreExclusive, HolderMatchesRow, Holding, HasClaim, IdleWorker
  <1>3. AttemptsWithinBudget /\ ClaimedIsDue
    BY JobQueueAssumption DEF QueueInit, AttemptsWithinBudget, ClaimedIsDue, NoRow
  <1> QED BY <1>1, <1>2, <1>3 DEF QueueInv

\* Steps that leave rows and workers alone only have to keep the types of the
\* triggers.
LEMMA TriggersOnly ==
  ASSUME QueueInv, UNCHANGED <<row, worker>>, QueueTypeOK'
  PROVE  QueueInv'
  BY DEF QueueInv, ClaimsAreExclusive, HolderMatchesRow, AttemptsWithinBudget, ClaimedIsDue,
         Holding, HasClaim

LEMMA CommitRequestInv ==
  ASSUME QueueInv, NEW S \in SUBSET Entries, NEW loops \in SUBSET (SUBSET Entries),
         CommitRequest(S, loops)
  PROVE  QueueInv'
  <1>1. QueueTypeOK'
    BY JobQueueAssumption DEF QueueInv, QueueTypeOK, CommitRequest, NewRow, RowStatus
  <1>2. ClaimsAreExclusive'
    BY DEF QueueInv, ClaimsAreExclusive, Holding, CommitRequest
  <1>3. HolderMatchesRow'
    BY DEF QueueInv, QueueTypeOK, HolderMatchesRow, HasClaim, CommitRequest, WorkerPc
  <1>4. AttemptsWithinBudget' /\ ClaimedIsDue'
    BY JobQueueAssumption
       DEF QueueInv, QueueTypeOK, AttemptsWithinBudget, ClaimedIsDue, CommitRequest, NewRow
  <1> QED BY <1>1, <1>2, <1>3, <1>4 DEF QueueInv

\* The API process: its callbacks, its startup, and its end.
LEMMA ApiInv ==
  ASSUME QueueInv,
         \/ \E loop \in callbacks : \E e \in loop : RunCallback(loop, e)
         \/ \E loop \in callbacks : CallbackFails(loop)
         \/ \E e \in recovering : RecoverEntry(e)
         \/ RecoveryDone
         \/ ApiStops
         \/ ApiStarts
  PROVE  QueueInv'
  <1>1. ASSUME NEW loop \in callbacks, NEW e \in loop, RunCallback(loop, e)
        PROVE  QueueInv'
    <2>1. e \in Entries /\ TicksPerSecond \in Nat
      BY JobQueueAssumption DEF QueueInv, QueueTypeOK
    <2>2. jobs' \subseteq [id : JobIds, entry : Entries, delay : Nat]
      BY <1>1, <2>1, DeferType DEF QueueInv, QueueTypeOK, RunCallback
    <2>3. callbacks' \subseteq SUBSET Entries
      BY <1>1 DEF QueueInv, QueueTypeOK, RunCallback
    <2> QED BY <1>1, <2>2, <2>3, TriggersOnly DEF QueueInv, QueueTypeOK, RunCallback
  <1>2. ASSUME NEW loop \in callbacks, CallbackFails(loop) PROVE QueueInv'
    BY <1>2, TriggersOnly DEF QueueInv, QueueTypeOK, CallbackFails
  <1>3. ASSUME NEW e \in recovering, RecoverEntry(e) PROVE QueueInv'
    <2>1. e \in Entries
      BY DEF QueueInv, QueueTypeOK
    <2>2. jobs' \subseteq [id : JobIds, entry : Entries, delay : Nat]
      BY <1>3, <2>1, DeferType DEF QueueInv, QueueTypeOK, RecoverEntry
    <2> QED BY <1>3, <2>2, TriggersOnly DEF QueueInv, QueueTypeOK, RecoverEntry
  <1>4. CASE RecoveryDone
    BY <1>4, TriggersOnly DEF QueueInv, QueueTypeOK, RecoveryDone
  <1>5. CASE ApiStops
    BY <1>5, TriggersOnly DEF QueueInv, QueueTypeOK, ApiStops
  <1>6. CASE ApiStarts
    BY <1>6, TriggersOnly DEF QueueInv, QueueTypeOK, ApiStarts, Pending
  <1> QED BY <1>1, <1>2, <1>3, <1>4, <1>5, <1>6

\* A job starts: it takes the row lock only when no other worker holds it.
LEMMA StartInv ==
  ASSUME QueueInv, NEW w \in Workers, NEW j \in jobs, LockEntry(w, j) \/ SkipEntry(w, j)
  PROVE  QueueInv'
  <1>1. CASE SkipEntry(w, j)
    BY <1>1, TriggersOnly DEF QueueInv, QueueTypeOK, SkipEntry
  <1>2. CASE LockEntry(w, j)
    <2>1. j.entry \in Entries
      BY DEF QueueInv, QueueTypeOK
    <2>2. worker' = [worker EXCEPT ![w] = [pc |-> "locked", entry |-> j.entry, left |-> 0]]
      BY <1>2 DEF LockEntry
    <2>3. QueueTypeOK'
      BY <1>2, <2>1, <2>2 DEF QueueInv, QueueTypeOK, LockEntry, WorkerPc
    <2>4. \A v \in Workers : Holding(v) => worker[v].entry # j.entry
      BY <1>2 DEF LockEntry, Claimable, Locked, Holding, HasClaim, QueueInv, HolderMatchesRow
    <2>5. ClaimsAreExclusive'
      BY <2>2, <2>4 DEF QueueInv, QueueTypeOK, ClaimsAreExclusive, Holding
    <2>6. HolderMatchesRow' /\ AttemptsWithinBudget' /\ ClaimedIsDue'
      BY <1>2, <2>2 DEF QueueInv, QueueTypeOK, HolderMatchesRow, HasClaim,
                       AttemptsWithinBudget, ClaimedIsDue, LockEntry, Claimable
    <2> QED BY <2>3, <2>5, <2>6 DEF QueueInv
  <1> QED BY <1>1, <1>2

\* The holder of a row writes a new row and lets it go, or holds on to it.
LEMMA HolderWrites ==
  ASSUME QueueInv, NEW w \in Workers, Holding(w),
         NEW e \in Entries, e = worker[w].entry,
         NEW r \in [status : RowStatus, attempts : 0..MaxAttempts, wait : Nat],
         r.status \in {"pending", "processing"} => r.attempts < MaxAttempts,
         r.status = "dead" <=> r.attempts = MaxAttempts,
         r.status # "absent",
         NEW s \in [pc : WorkerPc, entry : Entries \cup {None}, left : Nat],
         s.pc # "idle" => s.entry = e,
         s.pc # "locked",
         r.status = "processing" => r.wait = 0,
         s.pc \in {"claimed", "worked", "failed"} => r.status = "processing",
         row' = [row EXCEPT ![e] = r],
         worker' = [worker EXCEPT ![w] = s],
         UNCHANGED <<jobs, api, callbacks, recovering>>
  PROVE  QueueInv'
  <1>1. QueueTypeOK'
    BY DEF QueueInv, QueueTypeOK
  <1>2. \A v \in Workers \ {w} : Holding(v) => worker[v].entry # e
    BY DEF QueueInv, ClaimsAreExclusive
  <1>3. ClaimsAreExclusive'
    BY <1>2 DEF QueueInv, QueueTypeOK, ClaimsAreExclusive, Holding
  <1>4. HolderMatchesRow'
    BY <1>2 DEF QueueInv, QueueTypeOK, HolderMatchesRow, Holding, HasClaim
  <1>5. AttemptsWithinBudget' /\ ClaimedIsDue'
    BY DEF QueueInv, QueueTypeOK, AttemptsWithinBudget, ClaimedIsDue
  <1> QED BY <1>1, <1>3, <1>4, <1>5 DEF QueueInv

\* The worker of a holding slot works on one of the entries.
LEMMA HolderEntry ==
  ASSUME QueueInv, NEW w \in Workers, worker[w].pc # "idle"
  PROVE  worker[w].entry \in Entries
  BY DEF QueueInv, QueueTypeOK

LEMMA CommitClaimInv ==
  ASSUME QueueInv, NEW w \in Workers, CommitClaim(w)
  PROVE  QueueInv'
  <1> DEFINE e == worker[w].entry
             r == [row[e] EXCEPT !.status = "processing"]
             s == [worker[w] EXCEPT !.pc = "claimed"]
  <1>1. Holding(w) /\ e \in Entries
    BY HolderEntry DEF CommitClaim, Holding
  <1>2. row[e].status = "pending" /\ row[e].wait = 0
    BY <1>1 DEF CommitClaim, QueueInv, HolderMatchesRow
  <1>3. /\ r \in [status : RowStatus, attempts : 0..MaxAttempts, wait : Nat]
        /\ r.status = "processing" /\ r.attempts = row[e].attempts
        /\ r.wait = row[e].wait
        /\ s \in [pc : WorkerPc, entry : Entries \cup {None}, left : Nat]
        /\ s.pc = "claimed" /\ s.entry = e
    BY <1>1 DEF QueueInv, QueueTypeOK, RowStatus, WorkerPc
  <1>4. r.attempts < MaxAttempts /\ (r.status = "dead" <=> r.attempts = MaxAttempts)
    BY <1>1, <1>2, <1>3, JobQueueAssumption DEF QueueInv, QueueTypeOK, AttemptsWithinBudget
  <1>5. /\ row' = [row EXCEPT ![e] = r]
        /\ worker' = [worker EXCEPT ![w] = s]
        /\ UNCHANGED <<jobs, api, callbacks, recovering>>
    BY DEF CommitClaim
  <1> HIDE DEF r, s
  <1> QED BY <1>1, <1>2, <1>3, <1>4, <1>5, HolderWrites

LEMMA MarkFailedInv ==
  ASSUME QueueInv, NEW w \in Workers, MarkFailed(w)
  PROVE  QueueInv'
  <1> DEFINE e == worker[w].entry
             n == row[e].attempts + 1
             dead == n >= MaxAttempts
             r == [status |-> IF dead THEN "dead" ELSE "pending",
                   attempts |-> n, wait |-> Backoff(n)]
             s == IF dead THEN IdleWorker
                  ELSE [pc |-> "retry", entry |-> e, left |-> Backoff(n)]
  <1>1. Holding(w) /\ e \in Entries
    BY HolderEntry DEF MarkFailed, Holding
  <1>2. row[e].status = "processing"
    BY <1>1 DEF MarkFailed, QueueInv, HolderMatchesRow, HasClaim
  <1>3. n \in 1..MaxAttempts
    BY <1>1, <1>2, JobQueueAssumption DEF QueueInv, QueueTypeOK, AttemptsWithinBudget
  <1>4. Backoff(n) \in Nat
    BY <1>3, BackoffIsNat
  <1>5. /\ r \in [status : RowStatus, attempts : 0..MaxAttempts, wait : Nat]
        /\ r.status \in {"pending", "dead"}
        /\ r.status = "pending" => r.attempts < MaxAttempts
        /\ r.status = "dead" <=> r.attempts = MaxAttempts
    BY <1>3, <1>4, JobQueueAssumption DEF RowStatus
  <1>6. /\ s \in [pc : WorkerPc, entry : Entries \cup {None}, left : Nat]
        /\ s.pc \in {"idle", "retry"}
        /\ s.pc # "idle" => s.entry = e
    BY <1>1, <1>4 DEF IdleWorker, WorkerPc
  <1>7. /\ row' = [row EXCEPT ![e] = r]
        /\ worker' = [worker EXCEPT ![w] = s]
        /\ UNCHANGED <<jobs, api, callbacks, recovering>>
    BY DEF MarkFailed
  <1> HIDE DEF r, s
  <1> QED BY <1>1, <1>5, <1>6, <1>7, HolderWrites

\* A worker that lets go without writing the row.
LEMMA LetGo ==
  ASSUME QueueInv, NEW w \in Workers, worker' = [worker EXCEPT ![w] = IdleWorker],
         UNCHANGED <<row, api, callbacks, recovering>>,
         jobs' \subseteq [id : JobIds, entry : Entries, delay : Nat]
  PROVE  QueueInv'
  <1>1. QueueTypeOK'
    BY DEF QueueInv, QueueTypeOK, IdleWorker, WorkerPc
  <1>2. ClaimsAreExclusive' /\ HolderMatchesRow'
    BY DEF QueueInv, QueueTypeOK, ClaimsAreExclusive, HolderMatchesRow, Holding, HasClaim, IdleWorker
  <1>3. AttemptsWithinBudget' /\ ClaimedIsDue'
    BY DEF QueueInv, AttemptsWithinBudget, ClaimedIsDue
  <1> QED BY <1>1, <1>2, <1>3 DEF QueueInv

LEMMA ScheduleRetryInv ==
  ASSUME QueueInv, NEW w \in Workers, ScheduleRetry(w)
  PROVE  QueueInv'
  <1>1. worker[w].entry \in Entries /\ worker[w].left \in Nat
    BY HolderEntry DEF ScheduleRetry, QueueInv, QueueTypeOK
  <1>2. jobs' \subseteq [id : JobIds, entry : Entries, delay : Nat]
    BY <1>1, RetryDelayIsNat, DeferType DEF ScheduleRetry, QueueInv, QueueTypeOK
  <1> QED BY <1>2, LetGo DEF ScheduleRetry

LEMMA AbortJobInv ==
  ASSUME QueueInv, NEW w \in Workers, AbortJob(w)
  PROVE  QueueInv'
  BY LetGo DEF AbortJob, QueueInv, QueueTypeOK

LEMMA TickInv ==
  ASSUME QueueInv, Tick
  PROVE  QueueInv'
  <1>1. \A n \in Nat : Elapsed(n) \in Nat
    BY DEF Elapsed
  <1>2. /\ \A e \in Entries : /\ row'[e].status = row[e].status
                              /\ row'[e].attempts = row[e].attempts
        /\ \A w \in Workers : /\ worker'[w].pc = worker[w].pc
                              /\ worker'[w].entry = worker[w].entry
    BY DEF Tick, QueueInv, QueueTypeOK
  <1>3. row' \in [Entries -> [status : RowStatus, attempts : 0..MaxAttempts, wait : Nat]]
    BY <1>1 DEF Tick, QueueInv, QueueTypeOK
  <1>4. worker' \in [Workers -> [pc : WorkerPc, entry : Entries \cup {None}, left : Nat]]
    BY <1>1 DEF Tick, QueueInv, QueueTypeOK
  <1>5. jobs' \subseteq [id : JobIds, entry : Entries, delay : Nat]
    BY <1>1 DEF Tick, QueueInv, QueueTypeOK
  <1>6. QueueTypeOK'
    BY <1>2, <1>3, <1>4, <1>5 DEF Tick, QueueInv, QueueTypeOK
  <1>7. ClaimsAreExclusive'
    BY <1>2 DEF QueueInv, ClaimsAreExclusive, Holding
  <1>8. HolderMatchesRow' /\ ClaimedIsDue'
    <2>1. \A e \in Entries : row[e].wait = 0 => row'[e].wait = 0
      BY DEF Tick, Elapsed, QueueInv, QueueTypeOK
    <2> QED BY <1>2, <2>1, HolderEntry
            DEF QueueInv, QueueTypeOK, HolderMatchesRow, ClaimedIsDue, HasClaim
  <1>9. AttemptsWithinBudget'
    BY <1>2 DEF QueueInv, AttemptsWithinBudget
  <1> QED BY <1>6, <1>7, <1>8, <1>9 DEF QueueInv

\* Every step that the two queues share keeps the invariant.
LEMMA QueueStepInv ==
  ASSUME QueueInv, QueueStep \/ ApiLifecycle \/ QueueFault
  PROVE  QueueInv'
  <1>1. CASE QueueStep
    BY <1>1, ApiInv, StartInv, CommitClaimInv, MarkFailedInv, ScheduleRetryInv, TickInv DEF QueueStep
  <1>2. CASE ApiLifecycle
    BY <1>2, ApiInv DEF ApiLifecycle
  <1>3. CASE QueueFault
    BY <1>3, ApiInv, AbortJobInv DEF QueueFault
  <1> QED BY <1>1, <1>2, <1>3

-----------------------------------------------------------------------------
\* A step that leaves an entry's row pending, adds to its triggers and to what
\* is about to enqueue one, does not make it forgotten.
LEMMA KeepsRemembered ==
  ASSUME NEW e, Forgotten(e)', row[e].status = "pending",
         \A j \in jobs : j.entry = e => \E k \in jobs' : k.entry = e,
         \A w \in Workers :
             worker[w].pc \in {"locked", "retry"} /\ worker[w].entry = e =>
                 worker'[w].pc \in {"locked", "retry"} /\ worker'[w].entry = e,
         \A loop \in callbacks : e \in loop => \E l \in callbacks' : e \in l,
         e \in recovering => e \in recovering'
  PROVE  Forgotten(e)
  BY DEF Forgotten

\* What enqueues a trigger of x adds a job for it and takes none away.
LEMMA DeferAdds ==
  ASSUME NEW x, NEW d, Defer(x, d)
  PROVE  jobs \subseteq jobs' /\ \E k \in jobs' : k.entry = x
  <1>1. PICK i \in JobIds : jobs' = jobs \cup {[id |-> i, entry |-> x, delay |-> d]}
    BY DEF Defer
  <1>2. [id |-> i, entry |-> x, delay |-> d] \in jobs'
    BY <1>1
  <1>3. [id |-> i, entry |-> x, delay |-> d].entry = x
    OBVIOUS
  <1> QED BY <1>1, <1>2, <1>3

\* Of the steps that the queues share, only a trigger that finds its row not due
\* makes a row forgotten.
LEMMA QueueStepForgets ==
  ASSUME QueueInv, QueueStep, NEW e \in Entries, ~Forgotten(e), Forgotten(e)'
  PROVE  row[e].wait > 0
  <1> SUFFICES ASSUME row[e].wait = 0 PROVE FALSE
    BY DEF QueueInv, QueueTypeOK
  <1>1. row'[e].status = "pending"
    BY DEF Forgotten
  <1>2. ASSUME NEW loop \in callbacks, NEW x \in loop, RunCallback(loop, x) PROVE FALSE
    <2>1. x # e
      BY <1>2, DeferAdds DEF RunCallback, Forgotten
    <2>2. \A l \in callbacks : e \in l => \E m \in callbacks' : e \in m
      <3> SUFFICES ASSUME NEW l \in callbacks, e \in l
                   PROVE  \E m \in callbacks' : e \in m
        OBVIOUS
      <3>1. l # loop => l \in callbacks'
        BY <1>2 DEF RunCallback
      <3>2. l = loop => loop \ {x} \in callbacks' /\ e \in loop \ {x}
        BY <1>2, <2>1 DEF RunCallback
      <3> QED BY <3>1, <3>2
    <2>3. \A j \in jobs : j \in jobs'
      BY <1>2, DeferAdds DEF RunCallback
    <2> QED BY <1>1, <1>2, <2>2, <2>3, KeepsRemembered DEF RunCallback
  <1>3. ASSUME NEW x \in recovering, RecoverEntry(x) PROVE FALSE
    <2>1. x # e
      BY <1>3, DeferAdds DEF RecoverEntry, Forgotten
    <2>2. \A j \in jobs : j \in jobs'
      BY <1>3, DeferAdds DEF RecoverEntry
    <2> QED BY <1>1, <1>3, <2>1, <2>2, KeepsRemembered DEF RecoverEntry
  <1>4. CASE RecoveryDone
    BY <1>1, <1>4, KeepsRemembered DEF RecoveryDone
  <1>5. ASSUME NEW w \in Workers, NEW j \in jobs, LockEntry(w, j) PROVE FALSE
    <2>1. /\ worker'[w].pc = "locked" /\ worker'[w].entry = j.entry
          /\ \A v \in Workers \ {w} : worker'[v] = worker[v]
      BY <1>5 DEF LockEntry, QueueInv, QueueTypeOK
    <2>2. j.entry # e
      BY <2>1 DEF Forgotten
    <2>3. \A k \in jobs : k.entry = e => k \in jobs'
      BY <1>5, <2>2 DEF LockEntry
    <2>4. \A v \in Workers :
            worker[v].pc \in {"locked", "retry"} /\ worker[v].entry = e =>
                worker'[v].pc \in {"locked", "retry"} /\ worker'[v].entry = e
      BY <1>5, <2>1 DEF LockEntry
    <2> QED BY <1>1, <1>5, <2>3, <2>4, KeepsRemembered DEF LockEntry
  <1>6. ASSUME NEW w \in Workers, NEW j \in jobs, SkipEntry(w, j) PROVE FALSE
    <2>1. j.entry # e
      <3> SUFFICES ASSUME j.entry = e PROVE FALSE
        OBVIOUS
      <3>1. row[e].status = "pending" /\ Locked(e)
        BY <1>1, <1>6 DEF SkipEntry, Claimable
      <3> QED BY <1>6, <3>1 DEF SkipEntry, Locked, Forgotten
    <2>2. \A k \in jobs : k.entry = e => k \in jobs'
      BY <1>6, <2>1 DEF SkipEntry
    <2> QED BY <1>1, <1>6, <2>2, KeepsRemembered DEF SkipEntry
  <1>7. ASSUME NEW w \in Workers, CommitClaim(w) PROVE FALSE
    <2>1. worker[w].entry # e
      BY <1>1, <1>7 DEF CommitClaim, QueueInv, QueueTypeOK
    <2>2. row'[e] = row[e] /\ \A v \in Workers \ {w} : worker'[v] = worker[v]
      BY <1>7, <2>1 DEF CommitClaim, QueueInv, QueueTypeOK
    <2> QED BY <1>1, <1>7, <2>1, <2>2, KeepsRemembered DEF CommitClaim
  <1>8. ASSUME NEW w \in Workers, MarkFailed(w) PROVE FALSE
    <2> DEFINE n == row[worker[w].entry].attempts + 1
               dead == n >= MaxAttempts
    <2>1. CASE worker[w].entry = e
      <3>1. row'[e].status = IF dead THEN "dead" ELSE "pending"
        BY <1>8, <2>1 DEF MarkFailed, QueueInv, QueueTypeOK
      <3>2. ~dead
        BY <1>1, <3>1
      <3>3. worker'[w].pc = "retry" /\ worker'[w].entry = e
        BY <1>8, <2>1, <3>2 DEF MarkFailed, QueueInv, QueueTypeOK
      <3> QED BY <3>3 DEF Forgotten
    <2>2. CASE worker[w].entry # e
      <3>1. row'[e] = row[e] /\ \A v \in Workers \ {w} : worker'[v] = worker[v]
        BY <1>8, <2>2 DEF MarkFailed, QueueInv, QueueTypeOK
      <3> QED BY <1>1, <1>8, <2>2, <3>1, KeepsRemembered DEF MarkFailed
    <2> QED BY <2>1, <2>2
  <1>9. ASSUME NEW w \in Workers, ScheduleRetry(w) PROVE FALSE
    <2>1. worker[w].entry # e
      BY <1>9, DeferAdds DEF ScheduleRetry, Forgotten
    <2>2. \A j \in jobs : j \in jobs'
      BY <1>9, DeferAdds DEF ScheduleRetry
    <2>3. \A v \in Workers \ {w} : worker'[v] = worker[v]
      BY <1>9 DEF ScheduleRetry, QueueInv, QueueTypeOK
    <2> QED BY <1>1, <1>9, <2>1, <2>2, <2>3, KeepsRemembered DEF ScheduleRetry
  <1>10. CASE Tick
    <2>1. row'[e].status = row[e].status
      BY <1>10 DEF Tick, QueueInv, QueueTypeOK
    <2>2. \A w \in Workers : worker'[w].pc = worker[w].pc /\ worker'[w].entry = worker[w].entry
      BY <1>10 DEF Tick, QueueInv, QueueTypeOK
    <2>3. \A j \in jobs : \E k \in jobs' : k.entry = j.entry
      <3> SUFFICES ASSUME NEW j \in jobs PROVE \E k \in jobs' : k.entry = j.entry
        OBVIOUS
      <3>1. [j EXCEPT !.delay = Elapsed(@)] \in jobs'
        BY <1>10 DEF Tick
      <3>2. [j EXCEPT !.delay = Elapsed(@)].entry = j.entry
        BY DEF QueueInv, QueueTypeOK
      <3> QED BY <3>1, <3>2
    <2> QED BY <1>1, <1>10, <2>1, <2>2, <2>3, KeepsRemembered DEF Tick
  <1> QED BY <1>2, <1>3, <1>4, <1>5, <1>6, <1>7, <1>8, <1>9, <1>10 DEF QueueStep
===========================================================================
