---------------------------- MODULE AuditQueue ----------------------------
(***************************************************************************)
(* The audit queue: a request that changes something queues its audit      *)
(* events in its own transaction, and a worker moves each of them to the   *)
(* audit log.  Unlike a notification, the effect is a row of the same      *)
(* database: it commits together with the queue row.                       *)
(***************************************************************************)
EXTENDS JobQueue

VARIABLE
    log     \* the event of each entry in audit_logs

vars == <<row, jobs, worker, api, callbacks, recovering, log>>

Init == QueueInit /\ log = [e \in Entries |-> "none"]

-----------------------------------------------------------------------------
\* A request queues an event for each of its changes, with an after-commit
\* callback of its own for each.
QueueEvents(S) == CommitRequest(S, {{e} : e \in S}) /\ UNCHANGED log

\* Mutant: the log row is committed before the queue row.
ProcessEvent_TwoCommits(w) ==
    LET e == worker[w].entry
    IN  /\ worker[w].pc = "claimed"
        /\ log' = [log EXCEPT ![e] = IF @ = "none" THEN "kept" ELSE @]
        /\ IF log[e] = "none"
           THEN UNCHANGED <<row, worker>>
           ELSE /\ row' = [row EXCEPT ![e].status = "done"]
                /\ worker' = [worker EXCEPT ![w] = IdleWorker]
        /\ UNCHANGED <<jobs, api, callbacks, recovering>>

\* The log row, unless it is there already, and "processed": one commit.
ProcessEvent(w) ==
    LET e == worker[w].entry
    IN  /\ worker[w].pc = "claimed"
        /\ log' = [log EXCEPT ![e] = IF @ = "none" THEN "kept" ELSE @]
        /\ row' = [row EXCEPT ![e].status = "done"]
        /\ worker' = [worker EXCEPT ![w] = IdleWorker]
        /\ UNCHANGED <<jobs, api, callbacks, recovering>>

\* The insert or the commit raises; the handler rolls back.
ProcessFails(w) ==
    /\ worker[w].pc = "claimed"
    /\ worker' = [worker EXCEPT ![w].pc = "failed"]
    /\ UNCHANGED <<row, jobs, api, callbacks, recovering, log>>

\* Mutant: old queue rows go whatever their status.
RetentionCleanup_AnyStatus(old, rows) ==
    /\ old \cup rows # {}
    /\ \A e \in old : log[e] = "kept"
    /\ log' = [e \in Entries |-> IF e \in old THEN "expired" ELSE log[e]]
    /\ row' = [e \in Entries |->
                IF e \in rows THEN [row[e] EXCEPT !.status = "deleted"] ELSE row[e]]
    /\ UNCHANGED <<jobs, worker, api, callbacks, recovering>>

\* A worker ends a job with the retention cleanup: log rows older than the
\* cutoff go, and queue rows that were processed before it.  An event is older
\* than its processing, so a queue row goes no sooner than its log row.
RetentionCleanup(old, rows) ==
    /\ old \cup rows # {}
    /\ \A e \in old : log[e] = "kept"
    /\ \A e \in rows : row[e].status = "done" /\ (log[e] = "expired" \/ e \in old)
    /\ log' = [e \in Entries |-> IF e \in old THEN "expired" ELSE log[e]]
    /\ row' = [e \in Entries |->
                IF e \in rows THEN [row[e] EXCEPT !.status = "deleted"] ELSE row[e]]
    /\ UNCHANGED <<jobs, worker, api, callbacks, recovering>>

Request == \E S \in SUBSET Entries : QueueEvents(S)

Work ==
    \/ QueueStep /\ UNCHANGED log
    \/ \E w \in Workers : ProcessEvent(w) \/ ProcessFails(w)

Cleanup == \E old, rows \in SUBSET Entries : RetentionCleanup(old, rows)

Fault == QueueFault /\ UNCHANGED log
Lifecycle == ApiLifecycle /\ UNCHANGED log

Next == Request \/ Work \/ Cleanup \/ Fault \/ Lifecycle

Spec == Init /\ [][Next]_vars

-----------------------------------------------------------------------------
TypeOK == QueueTypeOK /\ log \in [Entries -> {"none", "kept", "expired"}]

\* An event is in the audit log exactly when its queue row says so: no crash
\* between the two and no duplicate trigger leaves one without the other.
LoggedIffProcessed ==
    \A e \in Entries : log[e] # "none" <=> row[e].status \in {"done", "deleted"}

\* The cleanup removes a queue row only with or after its log row, and it
\* never removes one that still has work in it or has died.
CleanupKeepsWork ==
    /\ \A e \in Entries : row[e].status = "deleted" => log[e] = "expired"
    /\ [][\A e \in Entries :
            row'[e].status = "deleted" => row[e].status \in {"done", "deleted"}]_vars

\* What a dead worker leaves behind stays: no step touches a "processing" row
\* without the worker that claimed it, and its event never reaches the log.
StrandedStays ==
    [][\A e \in Entries : Stranded(e) => row'[e] = row[e] /\ log'[e] = log[e]]_vars

\* The queue keeps its contract; the effect is the insertion of the log row.
Contract == INSTANCE WorkContract WITH
    Items <- Entries,
    state <- [e \in Entries |-> ContractState[row[e].status]],
    tries <- [e \in Entries |-> row[e].attempts],
    effects <- [e \in Entries |-> IF log[e] = "none" THEN 0 ELSE 1]

KeepsContract == Contract!Spec
===========================================================================
