----------------------------- MODULE JobQueue -----------------------------
(***************************************************************************)
(* The durable job queue that the audit log and the notifications share.   *)
(*                                                                         *)
(* A row of audit_log_queue / notification_queue says that work is to be   *)
(* done; a procrastinate job is only the trigger that wakes a worker.      *)
(* Three processes meet here: the API, whose requests commit rows and      *)
(* enqueue triggers in after-commit callbacks; the API startup, which      *)
(* enqueues a trigger again for every pending row; and the workers, which  *)
(* claim a row with SELECT ... FOR UPDATE SKIP LOCKED, work on it, and     *)
(* write the outcome.                                                      *)
(*                                                                         *)
(* This module has the state and the steps that do not depend on the kind  *)
(* of work; AuditQueue and NotificationQueue add the work itself.  Points  *)
(* in time (next_retry_at, a job's scheduled_at) are kept as the number of *)
(* ticks left until then, so the state needs no clock.                     *)
(***************************************************************************)
EXTENDS Integers, FiniteSets

CONSTANTS
    Entries,          \* queue rows that requests may create
    Workers,          \* job slots of the procrastinate worker processes
    JobIds,           \* bound: jobs that may be outstanding at one time
    MaxAttempts,      \* max_attempts of a row
    RetryMaxSeconds,  \* cap of the back-off, in seconds
    TicksPerSecond,   \* resolution of the model's time
    None              \* "no entry"

ASSUME JobQueueAssumption ==
    /\ MaxAttempts \in Nat \ {0}
    /\ TicksPerSecond \in Nat \ {0}
    /\ RetryMaxSeconds \in Nat \ {0}
    /\ None \notin Entries
    /\ \A n \in 1..MaxAttempts : 2^n \in Nat \ {0}

VARIABLES
    row,        \* the queue table
    jobs,       \* procrastinate's jobs that are waiting to be fetched
    worker,     \* what each worker slot is doing
    api,        \* the API process: down, in its lifespan startup, or serving
    callbacks,  \* after-commit loops of the API: the entry ids still to enqueue
    recovering  \* entry ids that the startup recovery has still to enqueue

queueVars == <<row, jobs, worker, api, callbacks, recovering>>

-----------------------------------------------------------------------------
Least(a, b) == IF a <= b THEN a ELSE b
Greatest(a, b) == IF a >= b THEN a ELSE b

\* Ticks that a row waits after its n-th failure.
Backoff(n) == TicksPerSecond * Least(2^n, RetryMaxSeconds)

\* A row that no transaction has inserted, and a row as it is inserted.
NoRow  == [status |-> "absent", attempts |-> 0, wait |-> 0]
NewRow == [status |-> "pending", attempts |-> 0, wait |-> 0]

\* "done" is processed in the audit queue and sent in the notification queue;
\* "deleted" is a row that the retention cleanup has removed.
RowStatus == {"absent", "pending", "processing", "done", "dead", "deleted"}

(* A worker slot: "locked" holds the row lock of its claim, not committed   *)
(* yet; "claimed" has committed the claim and is about to do the work;      *)
(* "worked" has done it and is about to commit the outcome; "failed" is in  *)
(* the except branch; "retry" has put the row back and is about to enqueue  *)
(* its next trigger.  left is the worker's own copy of the row's wait.      *)
WorkerPc == {"idle", "locked", "claimed", "worked", "failed", "retry"}
IdleWorker == [pc |-> "idle", entry |-> None, left |-> 0]

Pending == {e \in Entries : row[e].status = "pending"}
Holding(w) == worker[w].pc \in {"locked", "claimed", "worked", "failed"}
HasClaim(w) == worker[w].pc \in {"claimed", "worked", "failed"}
Locked(e) == \E w \in Workers : worker[w].pc = "locked" /\ worker[w].entry = e

QueueInit ==
    /\ row = [e \in Entries |-> NoRow]
    /\ jobs = {}
    /\ worker = [w \in Workers |-> IdleWorker]
    /\ api = "down"
    /\ callbacks = {}
    /\ recovering = {}

\* Insert a job that a worker may fetch in delay ticks.
Defer(e, delay) ==
    \E i \in JobIds \ {j.id : j \in jobs} :
        jobs' = jobs \cup {[id |-> i, entry |-> e, delay |-> delay]}

-----------------------------------------------------------------------------
(* The API process.                                                        *)

\* A request commits with the new rows S.  loops says how its after-commit
\* callbacks will enqueue them: one callback for all, or one for each.
CommitRequest(S, loops) ==
    /\ api = "serving"
    /\ S # {} /\ \A e \in S : row[e].status = "absent"
    /\ row' = [e \in Entries |-> IF e \in S THEN NewRow ELSE row[e]]
    /\ callbacks' = callbacks \cup loops
    /\ UNCHANGED <<jobs, worker, api, recovering>>

\* A callback enqueues the trigger of one of its entries, a second ahead.
RunCallback(loop, e) ==
    /\ loop \in callbacks /\ e \in loop
    /\ Defer(e, TicksPerSecond)
    /\ callbacks' = (callbacks \ {loop}) \cup ({loop \ {e}} \ {{}})
    /\ UNCHANGED <<row, worker, api, recovering>>

\* Enqueueing raises: the exception is logged and the rest of this callback's
\* entries get no trigger; the other callbacks still run.
CallbackFails(loop) ==
    /\ loop \in callbacks
    /\ callbacks' = callbacks \ {loop}
    /\ UNCHANGED <<row, jobs, worker, api, recovering>>

\* The API process ends, at any point of a request or of its startup.
ApiStops ==
    /\ api # "down"
    /\ api' = "down"
    /\ callbacks' = {}
    /\ recovering' = {}
    /\ UNCHANGED <<row, jobs, worker>>

\* Mutant: only rows that have never been tried are recovered.
ApiStarts_FreshOnly ==
    /\ api = "down"
    /\ api' = "starting"
    /\ recovering' = {e \in Pending : row[e].attempts = 0}
    /\ UNCHANGED <<row, jobs, worker, callbacks>>

\* lifespan: the ids of the pending rows are read once ...
ApiStarts ==
    /\ api = "down"
    /\ api' = "starting"
    /\ recovering' = Pending
    /\ UNCHANGED <<row, jobs, worker, callbacks>>

\* ... and each is enqueued for immediate execution, whatever it is by then.
RecoverEntry(e) ==
    /\ api = "starting" /\ e \in recovering
    /\ Defer(e, 0)
    /\ recovering' = recovering \ {e}
    /\ UNCHANGED <<row, worker, api, callbacks>>

RecoveryDone ==
    /\ api = "starting" /\ recovering = {}
    /\ api' = "serving"
    /\ UNCHANGED <<row, jobs, worker, callbacks, recovering>>

-----------------------------------------------------------------------------
(* The workers.                                                            *)

\* Mutants: without FOR UPDATE SKIP LOCKED; taking up "processing" rows too.
Claimable_Unlocked(e) == row[e].status = "pending" /\ row[e].wait = 0
Claimable_Processing(e) ==
    row[e].status \in {"pending", "processing"} /\ row[e].wait = 0 /\ ~Locked(e)

\* Mutant: a row that has failed before is not claimed again.
Claimable_NeverTried(e) == row[e].status = "pending" /\ row[e].attempts = 0 /\ ~Locked(e)

Claimable(e) == row[e].status = "pending" /\ row[e].wait = 0 /\ ~Locked(e)

\* A job starts and its SELECT ... FOR UPDATE SKIP LOCKED finds the row.
LockEntry(w, j) ==
    /\ worker[w].pc = "idle" /\ j \in jobs /\ j.delay = 0
    /\ Claimable(j.entry)
    /\ jobs' = jobs \ {j}
    /\ worker' = [worker EXCEPT ![w] = [pc |-> "locked", entry |-> j.entry, left |-> 0]]
    /\ UNCHANGED <<row, api, callbacks, recovering>>

\* A job starts and finds no row: not pending, not due yet, or locked.  The
\* job ends there and nothing takes its place.
SkipEntry(w, j) ==
    /\ worker[w].pc = "idle" /\ j \in jobs /\ j.delay = 0
    /\ ~Claimable(j.entry)
    /\ jobs' = jobs \ {j}
    /\ UNCHANGED <<row, worker, api, callbacks, recovering>>

CommitClaim(w) ==
    /\ worker[w].pc = "locked"
    /\ row' = [row EXCEPT ![worker[w].entry].status = "processing"]
    /\ worker' = [worker EXCEPT ![w].pc = "claimed"]
    /\ UNCHANGED <<jobs, api, callbacks, recovering>>

\* Mutants: one attempt too many; the attempt is not counted.
MarkFailed_OneMore(w) ==
    LET e == worker[w].entry
        n == row[e].attempts + 1
        dead == n > MaxAttempts
    IN  /\ worker[w].pc = "failed"
        /\ row' = [row EXCEPT ![e] =
                     [status |-> IF dead THEN "dead" ELSE "pending",
                      attempts |-> n, wait |-> Backoff(n)]]
        /\ worker' = [worker EXCEPT ![w] =
                        IF dead THEN IdleWorker
                        ELSE [pc |-> "retry", entry |-> e, left |-> Backoff(n)]]
        /\ UNCHANGED <<jobs, api, callbacks, recovering>>
MarkFailed_NotCounted(w) ==
    LET e == worker[w].entry
    IN  /\ worker[w].pc = "failed"
        /\ row' = [row EXCEPT ![e].status = "pending", ![e].wait = Backoff(1)]
        /\ worker' = [worker EXCEPT ![w] = [pc |-> "retry", entry |-> e, left |-> Backoff(1)]]
        /\ UNCHANGED <<jobs, api, callbacks, recovering>>

\* mark_queue_failed and its commit: one more attempt, and the row goes back
\* to pending with a longer wait, or is dead.
MarkFailed(w) ==
    LET e == worker[w].entry
        n == row[e].attempts + 1
        dead == n >= MaxAttempts
    IN  /\ worker[w].pc = "failed"
        /\ row' = [row EXCEPT ![e] =
                     [status |-> IF dead THEN "dead" ELSE "pending",
                      attempts |-> n, wait |-> Backoff(n)]]
        /\ worker' = [worker EXCEPT ![w] =
                        IF dead THEN IdleWorker
                        ELSE [pc |-> "retry", entry |-> e, left |-> Backoff(n)]]
        /\ UNCHANGED <<jobs, api, callbacks, recovering>>

\* retry_seconds = max(1, int(seconds until next_retry_at)): truncated.
RetrySeconds(left) == Greatest(1, left \div TicksPerSecond)

ScheduleRetry(w) ==
    /\ worker[w].pc = "retry"
    /\ Defer(worker[w].entry, TicksPerSecond * RetrySeconds(worker[w].left))
    /\ worker' = [worker EXCEPT ![w] = IdleWorker]
    /\ UNCHANGED <<row, api, callbacks, recovering>>

\* The job ends without its next step: the worker process dies, an exception
\* leaves the handler, or enqueueing the retry raises and is only logged.  An
\* open transaction rolls back; the row stays as it was last committed.
AbortJob(w) ==
    /\ worker[w].pc # "idle"
    /\ worker' = [worker EXCEPT ![w] = IdleWorker]
    /\ UNCHANGED <<row, jobs, api, callbacks, recovering>>

-----------------------------------------------------------------------------
\* A tick of time: everything that waits is one tick nearer.
Elapsed(n) == IF n > 0 THEN n - 1 ELSE 0

Waiting ==
    \/ \E e \in Entries : row[e].wait > 0
    \/ \E j \in jobs : j.delay > 0
    \/ \E w \in Workers : worker[w].left > 0

Tick ==
    /\ Waiting
    /\ row' = [e \in Entries |-> [row[e] EXCEPT !.wait = Elapsed(@)]]
    /\ jobs' = {[j EXCEPT !.delay = Elapsed(@)] : j \in jobs}
    /\ worker' = [w \in Workers |-> [worker[w] EXCEPT !.left = Elapsed(@)]]
    /\ UNCHANGED <<api, callbacks, recovering>>

\* The steps that both queues take in the same way.
QueueStep ==
    \/ \E loop \in callbacks : \E e \in loop : RunCallback(loop, e)
    \/ \E e \in recovering : RecoverEntry(e)
    \/ RecoveryDone
    \/ \E w \in Workers, j \in jobs : LockEntry(w, j) \/ SkipEntry(w, j)
    \/ \E w \in Workers : CommitClaim(w) \/ MarkFailed(w) \/ ScheduleRetry(w)
    \/ Tick

\* What goes wrong around it, and the API process coming and going.
ApiLifecycle == ApiStops \/ ApiStarts
QueueFault ==
    \/ \E loop \in callbacks : CallbackFails(loop)
    \/ \E w \in Workers : AbortJob(w)

-----------------------------------------------------------------------------
QueueTypeOK ==
    /\ row \in [Entries -> [status : RowStatus, attempts : 0..MaxAttempts, wait : Nat]]
    /\ jobs \subseteq [id : JobIds, entry : Entries, delay : Nat]
    /\ worker \in [Workers -> [pc : WorkerPc, entry : Entries \cup {None}, left : Nat]]
    /\ \A w \in Workers : worker[w].pc # "idle" => worker[w].entry \in Entries
    /\ api \in {"down", "starting", "serving"}
    /\ callbacks \subseteq SUBSET Entries
    /\ recovering \subseteq Entries

\* A worker that has claimed a row is the only one at work on it, whatever
\* duplicates of the trigger exist: claim_queue_entry locks the row, and the
\* committed "processing" keeps others away until the outcome is written.
ClaimsAreExclusive ==
    \A v, w \in Workers :
        Holding(v) /\ Holding(w) /\ worker[v].entry = worker[w].entry => v = w

\* The row agrees with the worker that holds it.
HolderMatchesRow ==
    \A w \in Workers :
        LET s == row[worker[w].entry].status
        IN  /\ worker[w].pc = "locked" => s = "pending" /\ row[worker[w].entry].wait = 0
            /\ HasClaim(w) => s = "processing"

\* A row is claimed when its wait is over.
ClaimedIsDue == \A e \in Entries : row[e].status = "processing" => row[e].wait = 0

\* A row that may still be worked on has an attempt left, and a row is dead
\* exactly when it has used all of them.
AttemptsWithinBudget ==
    \A e \in Entries :
        /\ row[e].status \in {"pending", "processing"} => row[e].attempts < MaxAttempts
        /\ row[e].status = "dead" <=> row[e].attempts = MaxAttempts
        /\ row[e].status = "absent" => row[e].attempts = 0

\* A row that was claimed and whose worker is gone: nothing in the code reads
\* a "processing" row again.
Stranded(e) ==
    /\ row[e].status = "processing"
    /\ \A w \in Workers : ~(HasClaim(w) /\ worker[w].entry = e)

\* What a row's status means to those who queued it (see WorkContract).
ContractState ==
    [absent |-> "none", pending |-> "queued", processing |-> "active",
     done |-> "done", deleted |-> "done", dead |-> "dead"]

\* A pending row that nothing is going to look at before the next startup.
Forgotten(e) ==
    /\ row[e].status = "pending"
    /\ \A j \in jobs : j.entry # e
    /\ \A w \in Workers : worker[w].pc \in {"locked", "retry"} => worker[w].entry # e
    /\ \A loop \in callbacks : e \notin loop
    /\ e \notin recovering
=============================================================================
