------------------------- MODULE AuditQueueProofs -------------------------
(***************************************************************************)
(* The audit queue for every number of entries, workers, jobs and          *)
(* attempts: an event is in the audit log exactly when its queue row says  *)
(* that it has been processed, the cleanup spares work that is not done,   *)
(* and the queue implements the contract.                                  *)
(***************************************************************************)
EXTENDS AuditQueue, JobQueueProofs

IInv == QueueInv /\ TypeOK /\ LoggedIffProcessed

LEMMA InitIInv == Init => IInv
  <1> SUFFICES ASSUME Init PROVE IInv
    OBVIOUS
  <1>1. QueueInv
    BY QueueInitInv DEF Init
  <1>2. LoggedIffProcessed /\ log \in [Entries -> {"none", "kept", "expired"}]
    BY DEF Init, QueueInit, LoggedIffProcessed, NoRow
  <1> QED BY <1>1, <1>2 DEF IInv, TypeOK, QueueInv

\* The steps that do not write the log move no row into or out of "done" and
\* "deleted".
LEMMA LogKept ==
  ASSUME IInv, UNCHANGED log,
         \A e \in Entries : row'[e].status \in {"done", "deleted"} <=>
                            row[e].status \in {"done", "deleted"}
  PROVE  LoggedIffProcessed'
  BY DEF IInv, LoggedIffProcessed

LEMMA SharedStep ==
  ASSUME IInv, QueueStep \/ ApiLifecycle \/ QueueFault, UNCHANGED log
  PROVE  IInv'
  <1>1. QueueInv'
    BY QueueStepInv DEF IInv
  <1>2. CASE UNCHANGED row
    BY <1>1, <1>2, LogKept DEF IInv, TypeOK, QueueInv
  <1>3. CASE Tick
    <2>1. \A e \in Entries : row'[e].status = row[e].status
      BY <1>3 DEF Tick, IInv, QueueInv, QueueTypeOK
    <2> QED BY <1>1, <2>1, LogKept DEF IInv, TypeOK, QueueInv
  <1>4. ASSUME NEW w \in Workers, CommitClaim(w) \/ MarkFailed(w) PROVE IInv'
    <2> DEFINE e == worker[w].entry
    <2>1. e \in Entries /\ row[e].status \in {"pending", "processing"}
      BY <1>4, HolderEntry
         DEF CommitClaim, MarkFailed, IInv, QueueInv, HolderMatchesRow, HasClaim
    <2>2. /\ row'[e].status \in {"pending", "processing", "dead"}
          /\ \A x \in Entries \ {e} : row'[x] = row[x]
      BY <1>4, <2>1 DEF CommitClaim, MarkFailed, IInv, QueueInv, QueueTypeOK
    <2> QED BY <1>1, <2>1, <2>2, LogKept DEF IInv, TypeOK, QueueInv
  <1>5. CASE QueueStep
    BY <1>2, <1>3, <1>4, <1>5
       DEF QueueStep, RunCallback, RecoverEntry, RecoveryDone, LockEntry, SkipEntry, ScheduleRetry
  <1>6. CASE ApiLifecycle \/ QueueFault
    BY <1>2, <1>6 DEF ApiLifecycle, QueueFault, ApiStops, ApiStarts, CallbackFails, AbortJob
  <1> QED BY <1>5, <1>6

LEMMA QueueEventsStep ==
  ASSUME IInv, NEW S \in SUBSET Entries, QueueEvents(S)
  PROVE  IInv'
  <1>1. CommitRequest(S, {{e} : e \in S}) /\ UNCHANGED log
    BY DEF QueueEvents
  <1>2. QueueInv'
    BY <1>1, CommitRequestInv DEF IInv
  <1>3. \A e \in Entries : row'[e] = row[e] \/ (row[e].status = "absent" /\ row'[e] = NewRow)
    BY <1>1 DEF CommitRequest
  <1>4. LoggedIffProcessed'
    BY <1>1, <1>3, LogKept DEF NewRow
  <1> QED BY <1>1, <1>2, <1>4 DEF IInv, TypeOK, QueueInv

\* The log row and "processed" are one commit.
LEMMA ProcessEventStep ==
  ASSUME IInv, NEW w \in Workers, ProcessEvent(w)
  PROVE  IInv'
  <1> DEFINE e == worker[w].entry
             r == [row[e] EXCEPT !.status = "done"]
  <1>1. Holding(w) /\ e \in Entries /\ row[e].status = "processing"
    BY HolderEntry DEF ProcessEvent, Holding, HasClaim, IInv, QueueInv, HolderMatchesRow
  <1>2. /\ r \in [status : RowStatus, attempts : 0..MaxAttempts, wait : Nat]
        /\ r.status = "done" /\ r.attempts = row[e].attempts
        /\ r.attempts # MaxAttempts
    BY <1>1, JobQueueAssumption DEF IInv, QueueInv, QueueTypeOK, AttemptsWithinBudget, RowStatus
  <1>3. /\ row' = [row EXCEPT ![e] = r]
        /\ worker' = [worker EXCEPT ![w] = IdleWorker]
        /\ UNCHANGED <<jobs, api, callbacks, recovering>>
    BY DEF ProcessEvent
  <1>4. /\ IdleWorker \in [pc : WorkerPc, entry : Entries \cup {None}, left : Nat]
        /\ IdleWorker.pc = "idle"
    BY DEF IdleWorker, WorkerPc
  <1>5. /\ log' \in [Entries -> {"none", "kept", "expired"}]
        /\ log'[e] # "none"
        /\ \A x \in Entries \ {e} : log'[x] = log[x]
    BY <1>1 DEF ProcessEvent, IInv, TypeOK
  <1> HIDE DEF r
  <1>6. QueueInv'
    BY <1>1, <1>2, <1>3, <1>4, HolderWrites DEF IInv
  <1>7. LoggedIffProcessed'
    BY <1>1, <1>2, <1>3, <1>5 DEF IInv, LoggedIffProcessed, QueueInv, QueueTypeOK
  <1> QED BY <1>5, <1>6, <1>7 DEF IInv, TypeOK, QueueInv

LEMMA ProcessFailsStep ==
  ASSUME IInv, NEW w \in Workers, ProcessFails(w)
  PROVE  IInv'
  <1>1. UNCHANGED <<row, jobs, api, callbacks, recovering, log>>
    BY DEF ProcessFails
  <1>2. /\ worker' \in [Workers -> [pc : WorkerPc, entry : Entries \cup {None}, left : Nat]]
        /\ HasClaim(w) /\ worker'[w].pc = "failed"
        /\ \A v \in Workers : worker'[v].entry = worker[v].entry
        /\ \A v \in Workers \ {w} : worker'[v] = worker[v]
    BY DEF ProcessFails, HasClaim, WorkerPc, IInv, QueueInv, QueueTypeOK
  <1>3. QueueTypeOK'
    BY <1>1, <1>2 DEF IInv, QueueInv, QueueTypeOK, HasClaim
  <1>4. ClaimsAreExclusive'
    BY <1>2 DEF IInv, QueueInv, ClaimsAreExclusive, Holding, HasClaim
  <1>5. HolderMatchesRow'
    BY <1>1, <1>2 DEF IInv, QueueInv, HolderMatchesRow, HasClaim
  <1> QED BY <1>1, <1>3, <1>4, <1>5
          DEF IInv, TypeOK, QueueInv, LoggedIffProcessed, AttemptsWithinBudget, ClaimedIsDue

LEMMA RetentionCleanupStep ==
  ASSUME IInv, NEW old \in SUBSET Entries, NEW rows \in SUBSET Entries,
         RetentionCleanup(old, rows)
  PROVE  IInv'
  <1>1. UNCHANGED <<jobs, worker, api, callbacks, recovering>>
    BY DEF RetentionCleanup
  <1>2. /\ row' \in [Entries -> [status : RowStatus, attempts : 0..MaxAttempts, wait : Nat]]
        /\ \A e \in Entries : row'[e].attempts = row[e].attempts
        /\ \A e \in rows : row[e].status = "done" /\ row'[e].status = "deleted"
        /\ \A e \in Entries \ rows : row'[e] = row[e]
    BY DEF RetentionCleanup, RowStatus, IInv, QueueInv, QueueTypeOK
  <1>3. /\ log' \in [Entries -> {"none", "kept", "expired"}]
        /\ \A e \in Entries : log'[e] = "none" <=> log[e] = "none"
    BY DEF RetentionCleanup, IInv, TypeOK
  <1>4. QueueTypeOK'
    BY <1>1, <1>2 DEF IInv, QueueInv, QueueTypeOK
  <1>5. ClaimsAreExclusive'
    BY <1>1 DEF IInv, QueueInv, ClaimsAreExclusive, Holding
  <1>6. HolderMatchesRow'
    BY <1>1, <1>2, HolderEntry DEF IInv, QueueInv, HolderMatchesRow, HasClaim
  <1>7. AttemptsWithinBudget' /\ ClaimedIsDue'
    BY <1>2 DEF IInv, QueueInv, AttemptsWithinBudget, ClaimedIsDue
  <1>8. LoggedIffProcessed'
    BY <1>2, <1>3 DEF IInv, LoggedIffProcessed
  <1> QED BY <1>3, <1>4, <1>5, <1>6, <1>7, <1>8 DEF IInv, TypeOK, QueueInv

LEMMA IInvHolds == Spec => []IInv
  <1>1. Init => IInv
    BY InitIInv
  <1>2. IInv /\ [Next]_vars => IInv'
    <2> SUFFICES ASSUME IInv, [Next]_vars PROVE IInv'
      OBVIOUS
    <2>1. CASE Request
      BY <2>1, QueueEventsStep DEF Request
    <2>2. CASE (QueueStep \/ ApiLifecycle \/ QueueFault) /\ UNCHANGED log
      BY <2>2, SharedStep
    <2>3. ASSUME NEW w \in Workers, ProcessEvent(w) \/ ProcessFails(w) PROVE IInv'
      BY <2>3, ProcessEventStep, ProcessFailsStep
    <2>4. CASE Cleanup
      BY <2>4, RetentionCleanupStep DEF Cleanup
    <2>5. CASE UNCHANGED vars
      BY <2>5 DEF vars, IInv, TypeOK, LoggedIffProcessed, QueueInv, QueueTypeOK, ClaimsAreExclusive,
                  HolderMatchesRow, AttemptsWithinBudget, ClaimedIsDue, Holding, HasClaim
    <2> QED BY <2>1, <2>2, <2>3, <2>4, <2>5 DEF Next, Work, Fault, Lifecycle
  <1> QED BY <1>1, <1>2, PTL DEF Spec

-----------------------------------------------------------------------------
\* An audit event is neither lost nor written for a row that says otherwise:
\* the log row and the row's "processed" stand or fall together.
THEOREM LogFollowsQueue == Spec => []LoggedIffProcessed
  <1>1. IInv => LoggedIffProcessed
    BY DEF IInv
  <1> QED BY <1>1, IInvHolds, PTL

\* Every reachable state of the audit queue is well typed.
THEOREM TypeCorrect == Spec => []TypeOK
  <1>1. IInv => TypeOK
    BY DEF IInv
  <1> QED BY <1>1, IInvHolds, PTL

-----------------------------------------------------------------------------
\* A step that writes a row or its event is a step of the worker that holds the
\* row, the commit that creates it or a cleanup after it was processed.
LEMMA StrandedStep ==
  ASSUME IInv, Next, NEW e \in Entries, Stranded(e)
  PROVE  row'[e] = row[e] /\ log'[e] = log[e]
  <1>1. /\ row[e].status = "processing" /\ row[e].wait = 0 /\ log[e] = "none"
        /\ row \in [Entries -> [status : RowStatus, attempts : 0..MaxAttempts, wait : Nat]]
    BY DEF Stranded, IInv, QueueInv, QueueTypeOK, ClaimedIsDue, LoggedIffProcessed
  <1>2. CASE Request
    BY <1>1, <1>2 DEF Request, QueueEvents, CommitRequest
  <1>3. CASE Cleanup
    BY <1>1, <1>3 DEF Cleanup, RetentionCleanup
  <1>4. CASE Tick /\ UNCHANGED log
    <2>1. row'[e] = [row[e] EXCEPT !.wait = Elapsed(@)]
      BY <1>4 DEF Tick
    <2>2. Elapsed(row[e].wait) = row[e].wait
      BY <1>1 DEF Elapsed
    <2> QED BY <1>1, <1>4, <2>1, <2>2
  <1>5. ASSUME NEW w \in Workers,
               \/ (CommitClaim(w) \/ MarkFailed(w)) /\ UNCHANGED log
               \/ ProcessEvent(w)
        PROVE  row'[e] = row[e] /\ log'[e] = log[e]
    <2>1. worker[w].entry # e
      BY <1>1, <1>5 DEF CommitClaim, MarkFailed, ProcessEvent, Stranded, HasClaim,
                        IInv, QueueInv, HolderMatchesRow
    <2> QED BY <1>1, <1>5, <2>1 DEF CommitClaim, MarkFailed, ProcessEvent, IInv, TypeOK
  <1>6. CASE UNCHANGED <<row, log>>
    BY <1>6
  <1>7. CASE Work
    BY <1>4, <1>5, <1>6, <1>7
       DEF Work, QueueStep, RunCallback, RecoverEntry, RecoveryDone, LockEntry, SkipEntry,
           ScheduleRetry, ProcessFails
  <1>8. CASE Fault \/ Lifecycle
    BY <1>6, <1>8 DEF Fault, Lifecycle, QueueFault, ApiLifecycle, CallbackFails, AbortJob,
                      ApiStops, ApiStarts
  <1> QED BY <1>2, <1>3, <1>7, <1>8 DEF Next

\* For any number of events and workers: an event whose worker is gone is not
\* logged, retried or removed by anybody else.
THEOREM StrandedLeftAlone == Spec => StrandedStays
  <1>1. IInv /\ [Next]_vars =>
          [\A e \in Entries : Stranded(e) => row'[e] = row[e] /\ log'[e] = log[e]]_vars
    BY StrandedStep
  <1> QED BY <1>1, IInvHolds, PTL DEF Spec, StrandedStays

-----------------------------------------------------------------------------
\* A queue row that is gone has no log row any more.
DeletedIsExpired == \A e \in Entries : row[e].status = "deleted" => log[e] = "expired"

\* A row is removed only after it was processed, with or after its log row.
RemovesOnlyDone ==
    \A e \in Entries : row'[e].status = "deleted" =>
        /\ row[e].status \in {"done", "deleted"}
        /\ log'[e] = "expired" \/ (row[e].status = "deleted" /\ log'[e] = log[e])

LEMMA SharedRemovesNothing ==
  ASSUME IInv, (QueueStep \/ ApiLifecycle \/ QueueFault) /\ UNCHANGED log
  PROVE  RemovesOnlyDone
  <1>1. CASE UNCHANGED row
    BY <1>1 DEF RemovesOnlyDone
  <1>2. ASSUME NEW w \in Workers, CommitClaim(w) \/ MarkFailed(w) PROVE RemovesOnlyDone
    <2> SUFFICES ASSUME NEW e \in Entries, row'[e].status = "deleted"
                 PROVE  row'[e] = row[e]
      BY DEF RemovesOnlyDone
    <2> QED BY <1>2 DEF CommitClaim, MarkFailed, IInv, QueueInv, QueueTypeOK
  <1>3. CASE Tick
    BY <1>3 DEF Tick, RemovesOnlyDone, IInv, QueueInv, QueueTypeOK
  <1> QED BY <1>1, <1>2, <1>3 DEF QueueStep, ApiLifecycle, QueueFault, RunCallback, RecoverEntry,
             RecoveryDone, LockEntry, SkipEntry, ScheduleRetry, CallbackFails, AbortJob,
             ApiStops, ApiStarts

LEMMA NextRemovesOnlyDone ==
  ASSUME IInv, [Next]_vars
  PROVE  RemovesOnlyDone
  <1>1. CASE Request
    BY <1>1 DEF Request, QueueEvents, CommitRequest, NewRow, RemovesOnlyDone
  <1>2. CASE (QueueStep \/ ApiLifecycle \/ QueueFault) /\ UNCHANGED log
    BY <1>2, SharedRemovesNothing
  <1>3. ASSUME NEW w \in Workers, ProcessEvent(w) PROVE RemovesOnlyDone
    <2> SUFFICES ASSUME NEW e \in Entries, row'[e].status = "deleted"
                 PROVE  row'[e] = row[e] /\ log'[e] = log[e]
      BY DEF RemovesOnlyDone
    <2> QED BY <1>3 DEF ProcessEvent, IInv, TypeOK, QueueInv, QueueTypeOK
  <1>4. ASSUME NEW w \in Workers, ProcessFails(w) PROVE RemovesOnlyDone
    BY <1>4 DEF ProcessFails, RemovesOnlyDone
  <1>5. CASE Cleanup
    <2> PICK old \in SUBSET Entries, rows \in SUBSET Entries : RetentionCleanup(old, rows)
      BY <1>5 DEF Cleanup
    <2> SUFFICES ASSUME NEW e \in Entries, row'[e].status = "deleted"
                 PROVE  /\ row[e].status \in {"done", "deleted"}
                        /\ log'[e] = "expired" \/ (row[e].status = "deleted" /\ log'[e] = log[e])
      BY DEF RemovesOnlyDone
    <2>1. CASE e \in rows
      BY <2>1 DEF RetentionCleanup
    <2>2. CASE e \notin rows
      BY <2>2 DEF RetentionCleanup
    <2> QED BY <2>1, <2>2
  <1>6. CASE UNCHANGED vars
    BY <1>6 DEF vars, RemovesOnlyDone
  <1> QED BY <1>1, <1>2, <1>3, <1>4, <1>5, <1>6 DEF Next, Work, Fault, Lifecycle

\* For any number of events, workers and cleanups: the retention cleanup removes
\* a queue row only when it was processed and its log row is gone.
THEOREM CleanupSparesWork == Spec => CleanupKeepsWork
  <1>1. Init => DeletedIsExpired
    BY DEF Init, QueueInit, NoRow, DeletedIsExpired
  <1>2. IInv /\ DeletedIsExpired /\ [Next]_vars => DeletedIsExpired'
    BY NextRemovesOnlyDone DEF DeletedIsExpired, RemovesOnlyDone
  <1>3. DeletedIsExpired <=> \A e \in Entries : row[e].status = "deleted" => log[e] = "expired"
    BY DEF DeletedIsExpired
  <1>4. ASSUME IInv, [Next]_vars
        PROVE  [\A e \in Entries :
                  row'[e].status = "deleted" => row[e].status \in {"done", "deleted"}]_vars
    BY <1>4, NextRemovesOnlyDone DEF RemovesOnlyDone
  <1> QED BY <1>1, <1>2, <1>3, <1>4, IInvHolds, PTL DEF Spec, CleanupKeepsWork

-----------------------------------------------------------------------------
\* The contract sees of an entry only its status, its attempts and whether it
\* has been logged.
LEMMA UnseenStep ==
  ASSUME IInv, \A e \in Entries : /\ ContractState[row'[e].status] = ContractState[row[e].status]
                                  /\ row'[e].attempts = row[e].attempts
                                  /\ (log'[e] = "none" <=> log[e] = "none")
  PROVE  UNCHANGED Contract!contractVars
  BY DEF Contract!contractVars

LEMMA SubmitStep ==
  ASSUME IInv, NEW S \in SUBSET Entries, QueueEvents(S)
  PROVE  Contract!Submit(S)
  <1>1. /\ S # {} /\ \A e \in S : row[e].status = "absent"
        /\ row' = [e \in Entries |-> IF e \in S THEN NewRow ELSE row[e]]
        /\ UNCHANGED log
    BY DEF QueueEvents, CommitRequest
  <1>2. \A e \in S : row[e].attempts = 0
    BY <1>1 DEF IInv, QueueInv, AttemptsWithinBudget
  <1>3. \A e \in S : ContractState[row[e].status] = "none"
    BY <1>1 DEF ContractState
  <1>4. [e \in Entries |-> ContractState[row[e].status]]' =
          [e \in Entries |-> IF e \in S THEN "queued" ELSE ContractState[row[e].status]]
    BY <1>1 DEF NewRow, ContractState
  <1>5. [e \in Entries |-> row[e].attempts]' = [e \in Entries |-> row[e].attempts]
    BY <1>1, <1>2 DEF NewRow
  <1> QED BY <1>1, <1>3, <1>4, <1>5 DEF Contract!Submit

LEMMA TakeStep ==
  ASSUME IInv, NEW w \in Workers, NEW e \in Entries, e = worker[w].entry,
         CommitClaim(w), UNCHANGED log
  PROVE  Contract!Take(e)
  <1>1. row[e].status = "pending"
    BY HolderEntry DEF CommitClaim, IInv, QueueInv, HolderMatchesRow
  <1>2. /\ row'[e].status = "processing" /\ row'[e].attempts = row[e].attempts
        /\ \A x \in Entries \ {e} : row'[x] = row[x]
    BY <1>1 DEF CommitClaim, IInv, QueueInv, QueueTypeOK
  <1>3. [x \in Entries |-> ContractState[row[x].status]]' =
          [[x \in Entries |-> ContractState[row[x].status]] EXCEPT ![e] = "active"]
    <2>1. \A x \in Entries :
            ContractState[row'[x].status] =
              IF x = e THEN "active" ELSE ContractState[row[x].status]
      BY <1>2 DEF ContractState
    <2> QED BY <2>1
  <1>4. [x \in Entries |-> row[x].attempts]' = [x \in Entries |-> row[x].attempts]
    BY <1>2
  <1> QED BY <1>1, <1>3, <1>4 DEF Contract!Take, ContractState

LEMMA FailStep ==
  ASSUME IInv, NEW w \in Workers, NEW e \in Entries, e = worker[w].entry,
         MarkFailed(w), UNCHANGED log
  PROVE  Contract!Fail(e)
  <1>1. row[e].status = "processing"
    BY HolderEntry DEF MarkFailed, IInv, QueueInv, HolderMatchesRow, HasClaim
  <1>2. row[e].attempts \in Nat /\ MaxAttempts \in Nat
    BY <1>1, JobQueueAssumption DEF IInv, QueueInv, QueueTypeOK
  <1>3. /\ row'[e].status = IF row[e].attempts + 1 < MaxAttempts THEN "pending" ELSE "dead"
        /\ row'[e].attempts = row[e].attempts + 1
        /\ \A x \in Entries \ {e} : row'[x] = row[x]
    BY <1>1, <1>2 DEF MarkFailed, IInv, QueueInv, QueueTypeOK
  <1>4. [x \in Entries |-> ContractState[row[x].status]]' =
          [[x \in Entries |-> ContractState[row[x].status]] EXCEPT
             ![e] = IF row[e].attempts + 1 < MaxAttempts THEN "queued" ELSE "dead"]
    <2>1. \A x \in Entries :
            ContractState[row'[x].status] =
              IF x = e THEN IF row[e].attempts + 1 < MaxAttempts THEN "queued" ELSE "dead"
                       ELSE ContractState[row[x].status]
      BY <1>3 DEF ContractState
    <2> QED BY <2>1
  <1>5. [x \in Entries |-> row[x].attempts]' =
          [[x \in Entries |-> row[x].attempts] EXCEPT ![e] = row[e].attempts + 1]
    BY <1>3
  <1>6. /\ [x \in Entries |-> ContractState[row[x].status]][e] = "active"
        /\ [x \in Entries |-> row[x].attempts][e] = row[e].attempts
    BY <1>1 DEF ContractState
  <1> QED BY <1>4, <1>5, <1>6 DEF Contract!Fail

\* A row that is being processed has not been logged, so the log row is the
\* effect of this try.
LEMMA PerformStep ==
  ASSUME IInv, NEW w \in Workers, NEW e \in Entries, e = worker[w].entry, ProcessEvent(w)
  PROVE  Contract!PerformAndFinish(e)
  <1>1. row[e].status = "processing" /\ row[e].attempts \in Nat
    BY HolderEntry DEF ProcessEvent, HasClaim, IInv, QueueInv, QueueTypeOK, HolderMatchesRow
  <1>2. log[e] = "none"
    BY <1>1 DEF IInv, LoggedIffProcessed
  <1>3. /\ row'[e].status = "done" /\ row'[e].attempts = row[e].attempts
        /\ \A x \in Entries \ {e} : row'[x] = row[x]
    BY DEF ProcessEvent, IInv, QueueInv, QueueTypeOK
  <1>4. log'[e] = "kept" /\ \A x \in Entries \ {e} : log'[x] = log[x]
    BY <1>2 DEF ProcessEvent, IInv, TypeOK
  <1>5. [x \in Entries |-> ContractState[row[x].status]]' =
          [[x \in Entries |-> ContractState[row[x].status]] EXCEPT ![e] = "done"]
    <2>1. \A x \in Entries :
            ContractState[row'[x].status] =
              IF x = e THEN "done" ELSE ContractState[row[x].status]
      BY <1>3 DEF ContractState
    <2> QED BY <2>1
  <1>6. [x \in Entries |-> row[x].attempts]' = [x \in Entries |-> row[x].attempts]
    BY <1>3
  <1>7. /\ [x \in Entries |-> ContractState[row[x].status]][e] = "active"
        /\ [x \in Entries |-> row[x].attempts][e] = row[e].attempts
        /\ [x \in Entries |-> IF log[x] = "none" THEN 0 ELSE 1][e] = 0
    BY <1>1, <1>2 DEF ContractState
  <1>8. [x \in Entries |-> IF log[x] = "none" THEN 0 ELSE 1][e]
          <= [x \in Entries |-> row[x].attempts][e]
    BY <1>1, <1>7
  <1>9. [x \in Entries |-> IF log[x] = "none" THEN 0 ELSE 1]' =
          [[x \in Entries |-> IF log[x] = "none" THEN 0 ELSE 1] EXCEPT
             ![e] = [x \in Entries |-> IF log[x] = "none" THEN 0 ELSE 1][e] + 1]
    <2>1. [x \in Entries |-> IF log[x] = "none" THEN 0 ELSE 1][e] + 1 = 1
      BY <1>7
    <2>2. \A x \in Entries :
            (IF log'[x] = "none" THEN 0 ELSE 1) =
              IF x = e THEN 1 ELSE IF log[x] = "none" THEN 0 ELSE 1
      BY <1>4
    <2>3. [x \in Entries |-> IF log[x] = "none" THEN 0 ELSE 1]' =
            [[x \in Entries |-> IF log[x] = "none" THEN 0 ELSE 1] EXCEPT ![e] = 1]
      BY <2>2
    <2> QED BY <2>1, <2>3, Zenon
  <1> QED BY <1>5, <1>6, <1>7, <1>8, <1>9, Zenon DEF Contract!PerformAndFinish

\* To the contract a row that the cleanup removes is as done as before.
LEMMA CleanupUnseen ==
  ASSUME IInv, Cleanup
  PROVE  UNCHANGED Contract!contractVars
  <1> PICK old \in SUBSET Entries, rows \in SUBSET Entries : RetentionCleanup(old, rows)
    BY DEF Cleanup
  <1>1. ASSUME NEW e \in Entries
        PROVE  /\ ContractState[row'[e].status] = ContractState[row[e].status]
               /\ row'[e].attempts = row[e].attempts
    <2>1. CASE e \in rows
      <3>1. row'[e] = [row[e] EXCEPT !.status = "deleted"] /\ row[e].status = "done"
        BY <2>1 DEF RetentionCleanup
      <3> QED BY <3>1 DEF ContractState, IInv, QueueInv, QueueTypeOK
    <2>2. CASE e \notin rows
      BY <2>2 DEF RetentionCleanup
    <2> QED BY <2>1, <2>2
  <1>2. \A e \in Entries : log'[e] = "none" <=> log[e] = "none"
    BY DEF RetentionCleanup
  <1> QED BY <1>1, <1>2, UnseenStep

LEMMA ContractInit == Init => Contract!Init
  BY DEF Init, QueueInit, NoRow, ContractState, Contract!Init

LEMMA ContractNext == IInv /\ [Next]_vars => [Contract!Next]_(Contract!contractVars)
  <1> SUFFICES ASSUME IInv, [Next]_vars PROVE [Contract!Next]_(Contract!contractVars)
    OBVIOUS
  <1>1. CASE Request
    BY <1>1, SubmitStep DEF Request, Contract!Next
  <1>2. ASSUME NEW w \in Workers,
               \/ (CommitClaim(w) \/ MarkFailed(w)) /\ UNCHANGED log
               \/ ProcessEvent(w)
        PROVE  [Contract!Next]_(Contract!contractVars)
    <2>1. PICK e \in Entries : e = worker[w].entry
      BY <1>2, HolderEntry DEF CommitClaim, MarkFailed, ProcessEvent, IInv
    <2>2. CASE CommitClaim(w) /\ UNCHANGED log
      <3>1. Contract!Take(e)
        BY <2>1, <2>2, TakeStep
      <3> QED BY <3>1 DEF Contract!Next
    <2>3. CASE MarkFailed(w) /\ UNCHANGED log
      <3>1. Contract!Fail(e)
        BY <2>1, <2>3, FailStep
      <3> QED BY <3>1 DEF Contract!Next
    <2>4. CASE ProcessEvent(w)
      <3>1. Contract!PerformAndFinish(e)
        BY <2>1, <2>4, PerformStep
      <3> QED BY <3>1 DEF Contract!Next
    <2> QED BY <1>2, <2>2, <2>3, <2>4
  <1>3. CASE Tick /\ UNCHANGED log
    <2>1. \A e \in Entries : row'[e].status = row[e].status /\ row'[e].attempts = row[e].attempts
      BY <1>3 DEF Tick, IInv, QueueInv, QueueTypeOK
    <2> QED BY <1>3, <2>1, UnseenStep
  <1>4. CASE UNCHANGED <<row, log>>
    BY <1>4, UnseenStep
  <1>5. CASE Work
    BY <1>2, <1>3, <1>4, <1>5
       DEF Work, QueueStep, RunCallback, RecoverEntry, RecoveryDone, LockEntry, SkipEntry,
           ScheduleRetry, ProcessFails
  <1>6. CASE Cleanup
    BY <1>6, CleanupUnseen
  <1>7. CASE Fault \/ Lifecycle \/ UNCHANGED vars
    BY <1>4, <1>7 DEF Fault, Lifecycle, QueueFault, ApiLifecycle, CallbackFails, AbortJob,
                      ApiStops, ApiStarts, vars
  <1> QED BY <1>1, <1>5, <1>6, <1>7 DEF Next

\* The audit queue does what the contract says: an event is logged once, by the
\* try that finishes it, and a row the cleanup removes was finished.
THEOREM KeepsTheContract == Spec => KeepsContract
  <1>1. Init => Contract!Init
    BY ContractInit
  <1>2. IInv /\ [Next]_vars => [Contract!Next]_(Contract!contractVars)
    BY ContractNext
  <1> QED BY <1>1, <1>2, IInvHolds, PTL DEF Spec, KeepsContract, Contract!Spec
===========================================================================
