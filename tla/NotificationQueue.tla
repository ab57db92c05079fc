------------------------- MODULE NotificationQueue -------------------------
(***************************************************************************)
(* The notification queue: a test run that completes queues one row for    *)
(* every enabled channel (e-mail, Slack, Mattermost), and a worker sends   *)
(* each of them.  Sending is an effect outside the database: it can        *)
(* neither be rolled back nor be committed together with the row.          *)
(***************************************************************************)
EXTENDS JobQueue

VARIABLE
    sends   \* how often a message of this entry has left the program

vars == <<row, jobs, worker, api, callbacks, recovering, sends>>

Init == QueueInit /\ sends = [e \in Entries |-> 0]

-----------------------------------------------------------------------------
\* A request completes a test run whose report rule has the channels of S: one
\* after-commit callback loops over all of them.
QueueTestRunReport(S) == CommitRequest(S, {S}) /\ UNCHANGED sends

\* SMTP or the webhook has accepted the message.
Deliver(w) ==
    /\ worker[w].pc = "claimed"
    /\ sends' = [sends EXCEPT ![worker[w].entry] = @ + 1]
    /\ worker' = [worker EXCEPT ![w].pc = "worked"]
    /\ UNCHANGED <<row, jobs, api, callbacks, recovering>>

\* Sending raises: the SMTP settings are missing, the server refuses, or the
\* answer is lost after the message has been accepted (accepted = 1).
DeliveryFails(w) ==
    \E accepted \in 0..1 :
        /\ worker[w].pc = "claimed"
        /\ sends' = [sends EXCEPT ![worker[w].entry] = @ + accepted]
        /\ worker' = [worker EXCEPT ![w].pc = "failed"]
        /\ UNCHANGED <<row, jobs, api, callbacks, recovering>>

CommitSent(w) ==
    /\ worker[w].pc = "worked"
    /\ row' = [row EXCEPT ![worker[w].entry].status = "done"]
    /\ worker' = [worker EXCEPT ![w] = IdleWorker]
    /\ UNCHANGED <<jobs, api, callbacks, recovering, sends>>

\* The message is out, the commit of "sent" raises: the same except branch.
CommitSentFails(w) ==
    /\ worker[w].pc = "worked"
    /\ worker' = [worker EXCEPT ![w].pc = "failed"]
    /\ UNCHANGED <<row, jobs, api, callbacks, recovering, sends>>

Request == \E S \in SUBSET Entries : QueueTestRunReport(S)

Work ==
    \/ QueueStep /\ UNCHANGED sends
    \/ \E w \in Workers : Deliver(w) \/ DeliveryFails(w) \/ CommitSent(w)

Fault ==
    \/ QueueFault /\ UNCHANGED sends
    \/ \E w \in Workers : CommitSentFails(w)

Lifecycle == ApiLifecycle /\ UNCHANGED sends

Next == Request \/ Work \/ Fault \/ Lifecycle

Spec == Init /\ [][Next]_vars

-----------------------------------------------------------------------------
(* Fairness.  A worker that runs goes on, procrastinate starts a due job    *)
(* when a slot is free (it fetches in order of insertion, so no job is      *)
(* passed over for ever), the API runs its callbacks and its startup, and   *)
(* time passes.  The strong fairness of the steps that enqueue only makes   *)
(* up for the bound JobIds: the table itself is never full.                 *)
StartJob(i) ==
    \E w \in Workers : \E j \in jobs :
        j.id = i /\ (LockEntry(w, j) \/ SkipEntry(w, j)) /\ UNCHANGED sends

GoOn(w) ==
    \/ (CommitClaim(w) \/ MarkFailed(w) \/ ScheduleRetry(w)) /\ UNCHANGED sends
    \/ Deliver(w) \/ DeliveryFails(w) \/ CommitSent(w)

Fairness ==
    /\ \A i \in JobIds : SF_vars(StartJob(i))
    /\ \A w \in Workers : SF_vars(GoOn(w))
    /\ \A e \in Entries :
        SF_vars(UNCHANGED sends /\ (\/ RecoverEntry(e)
                                    \/ \E loop \in callbacks : RunCallback(loop, e)))
    /\ WF_vars(RecoveryDone /\ UNCHANGED sends)
    /\ WF_vars(Tick /\ UNCHANGED sends)

\* Everything may go wrong and the API may come and go.
FairSpec == Spec /\ Fairness

\* Things go wrong only while the API is down.
OutageSpec ==
    /\ Init /\ [][Request \/ Work \/ Lifecycle \/ (api = "down" /\ Fault)]_vars
    /\ Fairness

-----------------------------------------------------------------------------
TypeOK == QueueTypeOK /\ sends \in [Entries -> Nat]

\* A notification never leaves more often than max_attempts, whatever crashes,
\* duplicate triggers and restarts do between sending and committing.
SendsWithinBudget == \A e \in Entries : sends[e] <= MaxAttempts

\* What a dead worker leaves behind stays: no step touches a "processing" row
\* without the worker that claimed it, so nothing is sent twice after a crash
\* and nothing is sent later either.
StrandedStays ==
    [][\A e \in Entries : Stranded(e) => row'[e] = row[e] /\ sends'[e] = sends[e]]_vars

\* A pending row loses its last trigger in two ways only: something goes wrong
\* around it, or the trigger comes before the row is due.  A fresh row is due
\* at once and its callback is there with its commit, so it keeps its trigger;
\* a row that failed may not, since retry_seconds is truncated.
TriggerLostOnlyByComingEarly ==
    [][\A e \in Entries :
         ~Forgotten(e) /\ Forgotten(e)' => row[e].wait > 0 \/ Fault \/ Lifecycle]_vars

\* If faults end and the API still completes a startup again and again, every
\* pending row is settled in the end, unless a dead worker has stranded it.
RestartsRecover ==
    (/\ <>[][~Fault]_vars
     /\ []<>(api = "starting") /\ []<>(api = "serving"))
    => \A e \in Entries :
        row[e].status = "pending" ~> (row[e].status \in {"done", "dead"} \/ Stranded(e))

\* What the recovery's documentation promises, in the mildest environment: a
\* row that a startup finds pending is worked on, if nothing goes wrong after.
RecoveryIsAutomatic ==
    \A e \in Entries :
        e \in recovering ~> (row[e].status # "pending" \/ api = "down")

\* The queue keeps its contract; the effect is a message that leaves.
Contract == INSTANCE WorkContract WITH
    Items <- Entries,
    state <- [e \in Entries |-> ContractState[row[e].status]],
    tries <- [e \in Entries |-> row[e].attempts],
    effects <- sends

KeepsContract == Contract!Spec
=============================================================================
