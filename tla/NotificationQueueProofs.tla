---------------------- MODULE NotificationQueueProofs ----------------------
(***************************************************************************)
(* The notification queue for every number of entries, workers, jobs and   *)
(* attempts: types, exclusive claims, the bound on what is sent, and that  *)
(* a stranded row is left alone.                                           *)
(***************************************************************************)
EXTENDS NotificationQueue, JobQueueProofs

\* How much an entry has been sent, told from its row: at most once for each
\* failed attempt, and once more for an attempt that is running or has ended
\* well; a worker that is about to send has not sent in this attempt.
SendsInv ==
    /\ sends \in [Entries -> Nat]
    /\ \A e \in Entries :
        /\ row[e].status \in {"processing", "done"} => sends[e] <= row[e].attempts + 1
        /\ row[e].status \notin {"processing", "done"} => sends[e] <= row[e].attempts
        /\ row[e].status = "absent" => sends[e] = 0
    /\ \A w \in Workers :
        /\ worker[w].pc = "claimed" =>
             sends[worker[w].entry] <= row[worker[w].entry].attempts
        /\ worker[w].pc = "worked" => sends[worker[w].entry] > 0

IInv == QueueInv /\ SendsInv

LEMMA InitIInv == Init => IInv
  <1> SUFFICES ASSUME Init PROVE IInv
    OBVIOUS
  <1>1. QueueInv
    BY QueueInitInv DEF Init
  <1>2. SendsInv
    BY DEF Init, QueueInit, SendsInv, NoRow, IdleWorker
  <1> QED BY <1>1, <1>2 DEF IInv

\* Only a worker's own steps move a row out of "pending" or into it, so a step
\* of the queue that sends nothing keeps what is known of the sends.
LEMMA SendsKept ==
  ASSUME IInv, QueueStep \/ ApiLifecycle \/ QueueFault, UNCHANGED sends
  PROVE  SendsInv'
  <1>0. QueueInv'
    BY QueueStepInv DEF IInv
  <1>1. CASE UNCHANGED <<row, worker>>
    BY <1>1 DEF IInv, SendsInv
  <1>2. CASE Tick
    <2>1. /\ \A e \in Entries : /\ row'[e].status = row[e].status
                                /\ row'[e].attempts = row[e].attempts
          /\ \A w \in Workers : /\ worker'[w].pc = worker[w].pc
                                /\ worker'[w].entry = worker[w].entry
      BY <1>2 DEF Tick, IInv, QueueInv, QueueTypeOK
    <2> QED BY <2>1 DEF IInv, SendsInv, QueueInv, QueueTypeOK
  <1>3. ASSUME NEW w \in Workers, NEW j \in jobs, LockEntry(w, j) PROVE SendsInv'
    BY <1>3 DEF LockEntry, IInv, SendsInv, QueueInv, QueueTypeOK
  <1>4. ASSUME NEW w \in Workers, CommitClaim(w) PROVE SendsInv'
    <2> DEFINE e == worker[w].entry
    <2>1. e \in Entries /\ row[e].status = "pending"
      BY <1>4, HolderEntry DEF CommitClaim, IInv, QueueInv, HolderMatchesRow
    <2>2. \A v \in Workers \ {w} : Holding(v) => worker[v].entry # e
      BY <1>4 DEF CommitClaim, IInv, QueueInv, ClaimsAreExclusive, Holding
    <2>3. row' = [row EXCEPT ![e].status = "processing"]
      BY <1>4 DEF CommitClaim
    <2>4. worker' = [worker EXCEPT ![w].pc = "claimed"]
      BY <1>4 DEF CommitClaim
    <2>5. /\ row'[e].attempts = row[e].attempts /\ row'[e].status = "processing"
          /\ \A x \in Entries \ {e} : row'[x] = row[x]
      BY <2>1, <2>3 DEF IInv, QueueInv, QueueTypeOK
    <2>6. \A x \in Entries :
            /\ row'[x].status \in {"processing", "done"} => sends[x] <= row'[x].attempts + 1
            /\ row'[x].status \notin {"processing", "done"} => sends[x] <= row'[x].attempts
            /\ row'[x].status = "absent" => sends[x] = 0
      BY <2>1, <2>5 DEF IInv, SendsInv, QueueInv, QueueTypeOK
    <2>7. ASSUME NEW v \in Workers
          PROVE  /\ worker'[v].pc = "claimed" =>
                      sends[worker'[v].entry] <= row'[worker'[v].entry].attempts
                 /\ worker'[v].pc = "worked" => sends[worker'[v].entry] > 0
      BY <2>1, <2>2, <2>4, <2>5, HolderEntry DEF IInv, SendsInv, QueueInv, QueueTypeOK, Holding
    <2> QED BY <2>6, <2>7 DEF IInv, SendsInv
  <1>5. ASSUME NEW w \in Workers, MarkFailed(w) PROVE SendsInv'
    <2> DEFINE e == worker[w].entry
    <2>1. e \in Entries /\ row[e].status = "processing"
      BY <1>5, HolderEntry DEF MarkFailed, IInv, QueueInv, HolderMatchesRow, HasClaim
    <2>2. \A v \in Workers \ {w} : Holding(v) => worker[v].entry # e
      BY <1>5 DEF MarkFailed, IInv, QueueInv, ClaimsAreExclusive, Holding
    <2>3. /\ row'[e].attempts = row[e].attempts + 1
          /\ row'[e].status \in {"dead", "pending"}
          /\ \A x \in Entries \ {e} : row'[x] = row[x]
      BY <1>5, <2>1 DEF MarkFailed, IInv, QueueInv, QueueTypeOK
    <2>4. /\ worker'[w].pc \notin {"claimed", "worked"}
          /\ \A v \in Workers \ {w} : worker'[v] = worker[v]
      BY <1>5 DEF MarkFailed, IInv, QueueInv, QueueTypeOK, IdleWorker
    <2>5. \A x \in Entries :
            /\ row'[x].status \in {"processing", "done"} => sends[x] <= row'[x].attempts + 1
            /\ row'[x].status \notin {"processing", "done"} => sends[x] <= row'[x].attempts
            /\ row'[x].status = "absent" => sends[x] = 0
      BY <2>1, <2>3 DEF IInv, SendsInv, QueueInv, QueueTypeOK
    <2>6. ASSUME NEW v \in Workers
          PROVE  /\ worker'[v].pc = "claimed" =>
                      sends[worker'[v].entry] <= row'[worker'[v].entry].attempts
                 /\ worker'[v].pc = "worked" => sends[worker'[v].entry] > 0
      BY <2>2, <2>3, <2>4, HolderEntry DEF IInv, SendsInv, QueueInv, QueueTypeOK, Holding
    <2> QED BY <2>5, <2>6 DEF IInv, SendsInv
  <1>6. ASSUME NEW w \in Workers, UNCHANGED row, worker' = [worker EXCEPT ![w] = IdleWorker]
        PROVE  SendsInv'
    BY <1>6 DEF IInv, SendsInv, QueueInv, QueueTypeOK, IdleWorker
  <1>7. CASE QueueStep
    BY <1>7, <1>1, <1>2, <1>3, <1>4, <1>5, <1>6
       DEF QueueStep, RunCallback, RecoverEntry, RecoveryDone, SkipEntry, ScheduleRetry
  <1>8. CASE ApiLifecycle
    BY <1>8, <1>1 DEF ApiLifecycle, ApiStops, ApiStarts
  <1>9. CASE QueueFault
    BY <1>9, <1>1, <1>6 DEF QueueFault, CallbackFails, AbortJob
  <1> QED BY <1>7, <1>8, <1>9

\* The worker moves on to pc with a claim it keeps; rows are not touched.
LEMMA KeepsClaim ==
  ASSUME QueueInv, NEW w \in Workers, HasClaim(w), NEW pc \in {"worked", "failed"},
         worker' = [worker EXCEPT ![w].pc = pc],
         UNCHANGED <<row, jobs, api, callbacks, recovering>>
  PROVE  QueueInv'
  <1>1. /\ \A v \in Workers : worker'[v].entry = worker[v].entry
        /\ \A v \in Workers \ {w} : worker'[v] = worker[v]
        /\ worker'[w].pc = pc
    BY DEF QueueInv, QueueTypeOK
  <1>2. QueueTypeOK'
    BY DEF QueueInv, QueueTypeOK, WorkerPc, HasClaim
  <1>3. ClaimsAreExclusive'
    BY <1>1 DEF QueueInv, ClaimsAreExclusive, Holding, HasClaim
  <1>4. HolderMatchesRow'
    BY <1>1 DEF QueueInv, HolderMatchesRow, HasClaim
  <1>5. AttemptsWithinBudget' /\ ClaimedIsDue'
    BY DEF QueueInv, AttemptsWithinBudget, ClaimedIsDue
  <1> QED BY <1>2, <1>3, <1>4, <1>5 DEF QueueInv

LEMMA DeliverInv ==
  ASSUME IInv, NEW w \in Workers, Deliver(w) \/ DeliveryFails(w)
  PROVE  IInv'
  <1> DEFINE e == worker[w].entry
  <1>1. HasClaim(w) /\ e \in Entries /\ row[e].status = "processing"
    BY HolderEntry DEF Deliver, DeliveryFails, HasClaim, IInv, QueueInv, HolderMatchesRow
  <1>2. PICK pc \in {"worked", "failed"} :
          /\ worker' = [worker EXCEPT ![w].pc = pc]
          /\ \E n \in 0..1 : /\ sends' = [sends EXCEPT ![e] = @ + n]
                             /\ pc = "worked" => n = 1
    BY DEF Deliver, DeliveryFails
  <1>3. QueueInv'
    BY <1>1, <1>2, KeepsClaim DEF Deliver, DeliveryFails, IInv
  <1>4. \A v \in Workers \ {w} : Holding(v) => worker[v].entry # e
    BY <1>1 DEF IInv, QueueInv, ClaimsAreExclusive, Holding, HasClaim
  <1>5. PICK n \in 0..1 : /\ sends' = [sends EXCEPT ![e] = @ + n]
                          /\ pc = "worked" => n = 1
    BY <1>2
  <1>6. sends[e] <= row[e].attempts /\ UNCHANGED row
    BY DEF Deliver, DeliveryFails, IInv, SendsInv
  <1>7. /\ sends' \in [Entries -> Nat]
        /\ sends'[e] = sends[e] + n
        /\ \A x \in Entries \ {e} : sends'[x] = sends[x]
    BY <1>1, <1>5 DEF IInv, SendsInv
  <1>8. \A x \in Entries :
          /\ row[x].status \in {"processing", "done"} => sends'[x] <= row[x].attempts + 1
          /\ row[x].status \notin {"processing", "done"} => sends'[x] <= row[x].attempts
          /\ row[x].status = "absent" => sends'[x] = 0
    BY <1>1, <1>6, <1>7 DEF IInv, SendsInv, QueueInv, QueueTypeOK
  <1>9. ASSUME NEW v \in Workers
        PROVE  /\ worker'[v].pc = "claimed" =>
                    sends'[worker'[v].entry] <= row[worker'[v].entry].attempts
               /\ worker'[v].pc = "worked" => sends'[worker'[v].entry] > 0
    BY <1>1, <1>2, <1>4, <1>5, <1>7, HolderEntry DEF IInv, SendsInv, QueueInv, QueueTypeOK, Holding
  <1> QED BY <1>3, <1>6, <1>7, <1>8, <1>9 DEF IInv, SendsInv

LEMMA CommitSentInv ==
  ASSUME IInv, NEW w \in Workers, CommitSent(w)
  PROVE  IInv'
  <1> DEFINE e == worker[w].entry
             r == [row[e] EXCEPT !.status = "done"]
  <1>1. Holding(w) /\ e \in Entries /\ row[e].status = "processing"
    BY HolderEntry DEF CommitSent, Holding, HasClaim, IInv, QueueInv, HolderMatchesRow
  <1>2. /\ r \in [status : RowStatus, attempts : 0..MaxAttempts, wait : Nat]
        /\ r.status = "done" /\ r.attempts = row[e].attempts
        /\ r.attempts # MaxAttempts
    BY <1>1, JobQueueAssumption DEF IInv, QueueInv, QueueTypeOK, AttemptsWithinBudget, RowStatus
  <1>3. /\ row' = [row EXCEPT ![e] = r]
        /\ worker' = [worker EXCEPT ![w] = IdleWorker]
        /\ UNCHANGED <<jobs, api, callbacks, recovering, sends>>
    BY DEF CommitSent
  <1>4. /\ IdleWorker \in [pc : WorkerPc, entry : Entries \cup {None}, left : Nat]
        /\ IdleWorker.pc = "idle"
    BY DEF IdleWorker, WorkerPc
  <1> HIDE DEF r
  <1>5. QueueInv'
    BY <1>1, <1>2, <1>3, <1>4, HolderWrites DEF IInv
  <1>6. \A v \in Workers \ {w} : Holding(v) => worker[v].entry # e
    BY <1>1 DEF IInv, QueueInv, ClaimsAreExclusive
  <1>7. \A x \in Entries :
          /\ row'[x].status \in {"processing", "done"} => sends[x] <= row'[x].attempts + 1
          /\ row'[x].status \notin {"processing", "done"} => sends[x] <= row'[x].attempts
          /\ row'[x].status = "absent" => sends[x] = 0
    BY <1>1, <1>2, <1>3 DEF IInv, SendsInv, QueueInv, QueueTypeOK
  <1>8. ASSUME NEW v \in Workers
        PROVE  /\ worker'[v].pc = "claimed" =>
                    sends[worker'[v].entry] <= row'[worker'[v].entry].attempts
               /\ worker'[v].pc = "worked" => sends[worker'[v].entry] > 0
    BY <1>1, <1>3, <1>4, <1>6, HolderEntry DEF IInv, SendsInv, QueueInv, QueueTypeOK, Holding
  <1> QED BY <1>3, <1>5, <1>7, <1>8 DEF IInv, SendsInv

LEMMA CommitSentFailsInv ==
  ASSUME IInv, NEW w \in Workers, CommitSentFails(w)
  PROVE  IInv'
  <1>1. QueueInv'
    BY KeepsClaim DEF CommitSentFails, HasClaim, IInv
  <1>2. SendsInv'
    BY DEF CommitSentFails, IInv, SendsInv, QueueInv, QueueTypeOK
  <1> QED BY <1>1, <1>2 DEF IInv

LEMMA QueueTestRunReportInv ==
  ASSUME IInv, NEW S \in SUBSET Entries, QueueTestRunReport(S)
  PROVE  IInv'
  <1>1. CommitRequest(S, {S}) /\ UNCHANGED <<sends, worker>>
    BY DEF QueueTestRunReport, CommitRequest
  <1>2. QueueInv'
    BY <1>1, CommitRequestInv DEF IInv
  <1>3. \A x \in Entries :
          /\ x \in S => row[x].status = "absent" /\ row'[x] = NewRow /\ sends[x] = 0
          /\ x \notin S => row'[x] = row[x]
    BY <1>1 DEF CommitRequest, IInv, SendsInv
  <1>4. NewRow.status = "pending" /\ NewRow.attempts = 0
    BY DEF NewRow
  <1>5. \A x \in Entries :
          /\ row'[x].status \in {"processing", "done"} => sends[x] <= row'[x].attempts + 1
          /\ row'[x].status \notin {"processing", "done"} => sends[x] <= row'[x].attempts
          /\ row'[x].status = "absent" => sends[x] = 0
    BY <1>3, <1>4 DEF IInv, SendsInv
  <1>6. ASSUME NEW v \in Workers
        PROVE  /\ worker'[v].pc = "claimed" =>
                    sends[worker'[v].entry] <= row'[worker'[v].entry].attempts
               /\ worker'[v].pc = "worked" => sends[worker'[v].entry] > 0
    <2>1. HasClaim(v) => worker[v].entry \in Entries \ S
      BY <1>3, HolderEntry DEF HasClaim, IInv, QueueInv, HolderMatchesRow
    <2> QED BY <1>1, <1>3, <2>1 DEF IInv, SendsInv, HasClaim
  <1> QED BY <1>1, <1>2, <1>5, <1>6 DEF IInv, SendsInv

LEMMA NextIInv == IInv /\ [Next]_vars => IInv'
  <1> SUFFICES ASSUME IInv, [Next]_vars PROVE IInv'
    OBVIOUS
  <1>1. CASE Request
    BY <1>1, QueueTestRunReportInv DEF Request
  <1>2. CASE (QueueStep \/ ApiLifecycle \/ QueueFault) /\ UNCHANGED sends
    BY <1>2, QueueStepInv, SendsKept DEF IInv
  <1>3. ASSUME NEW w \in Workers,
               Deliver(w) \/ DeliveryFails(w) \/ CommitSent(w) \/ CommitSentFails(w)
        PROVE  IInv'
    BY <1>3, DeliverInv, CommitSentInv, CommitSentFailsInv
  <1>4. CASE UNCHANGED vars
    BY <1>4 DEF vars, IInv, SendsInv, QueueInv, QueueTypeOK, ClaimsAreExclusive,
                HolderMatchesRow, AttemptsWithinBudget, ClaimedIsDue, Holding, HasClaim
  <1> QED BY <1>1, <1>2, <1>3, <1>4 DEF Next, Work, Fault, Lifecycle

LEMMA IInvHolds == Spec => []IInv
  <1>1. Init => IInv
    BY InitIInv
  <1>2. IInv /\ [Next]_vars => IInv'
    BY NextIInv
  <1> QED BY <1>1, <1>2, PTL DEF Spec

-----------------------------------------------------------------------------
\* Every reachable state is well typed: in particular no row ever counts more
\* than max_attempts attempts.
THEOREM TypeCorrect == Spec => []TypeOK
  <1>1. IInv => TypeOK
    BY DEF IInv, QueueInv, SendsInv, TypeOK
  <1> QED BY <1>1, IInvHolds, PTL

\* However many duplicates of a trigger there are, one worker at most is at
\* work on a row.
THEOREM ExclusiveClaims == Spec => []ClaimsAreExclusive
  <1>1. IInv => ClaimsAreExclusive
    BY DEF IInv, QueueInv
  <1> QED BY <1>1, IInvHolds, PTL

\* A notification leaves at most max_attempts times, through every crash,
\* failed commit, duplicate trigger and restart.
THEOREM BoundedSends == Spec => []SendsWithinBudget
  <1>1. ASSUME IInv PROVE SendsWithinBudget
    <2> SUFFICES ASSUME NEW e \in Entries PROVE sends[e] <= MaxAttempts
      BY DEF SendsWithinBudget
    <2>1. /\ sends[e] \in Nat /\ MaxAttempts \in Nat
          /\ row[e].attempts \in 0..MaxAttempts
      BY <1>1, JobQueueAssumption DEF IInv, SendsInv, QueueInv, QueueTypeOK
    <2>2. CASE row[e].status \in {"processing", "done"}
      <3>1. row[e].attempts # MaxAttempts
        BY <1>1, <2>2 DEF IInv, QueueInv, AttemptsWithinBudget
      <3> QED BY <1>1, <2>1, <2>2, <3>1 DEF IInv, SendsInv
    <2>3. CASE row[e].status \notin {"processing", "done"}
      BY <1>1, <2>1, <2>3 DEF IInv, SendsInv
    <2> QED BY <2>2, <2>3
  <1> QED BY <1>1, IInvHolds, PTL

-----------------------------------------------------------------------------
\* A step that writes a row or sends for it is a step of the worker that holds
\* it, or the commit that creates it.
LEMMA StrandedStep ==
  ASSUME IInv, Next, NEW e \in Entries, Stranded(e)
  PROVE  row'[e] = row[e] /\ sends'[e] = sends[e]
  <1>0. /\ row[e].status = "processing" /\ row[e].wait = 0
        /\ row \in [Entries -> [status : RowStatus, attempts : 0..MaxAttempts, wait : Nat]]
    BY DEF Stranded, IInv, QueueInv, QueueTypeOK, ClaimedIsDue
  <1>1. ASSUME NEW S \in SUBSET Entries, QueueTestRunReport(S)
        PROVE  row'[e] = row[e] /\ sends'[e] = sends[e]
    BY <1>0, <1>1 DEF QueueTestRunReport, CommitRequest
  <1>2. CASE Tick /\ UNCHANGED sends
    <2>1. row'[e] = [row[e] EXCEPT !.wait = Elapsed(@)]
      BY <1>2 DEF Tick
    <2>2. Elapsed(row[e].wait) = row[e].wait
      BY <1>0 DEF Elapsed
    <2> QED BY <1>0, <1>2, <2>1, <2>2
  <1>3. ASSUME NEW w \in Workers,
               \/ CommitClaim(w) \/ MarkFailed(w)
               \/ Deliver(w) \/ DeliveryFails(w) \/ CommitSent(w)
        PROVE  row'[e] = row[e] /\ (sends' = sends => sends'[e] = sends[e])
    <2>1. worker[w].entry # e
      BY <1>0, <1>3 DEF CommitClaim, MarkFailed, Deliver, DeliveryFails, CommitSent, Stranded,
                        HasClaim, IInv, QueueInv, HolderMatchesRow
    <2> QED BY <1>0, <1>3, <2>1 DEF CommitClaim, MarkFailed, Deliver, DeliveryFails, CommitSent
  <1>4. ASSUME NEW w \in Workers, Deliver(w) \/ DeliveryFails(w)
        PROVE  sends'[e] = sends[e]
    <2>1. worker[w].entry # e
      BY <1>4 DEF Deliver, DeliveryFails, Stranded, HasClaim
    <2> QED BY <1>4, <2>1 DEF Deliver, DeliveryFails, IInv, SendsInv
  <1>5. CASE UNCHANGED <<row, sends>>
    BY <1>5
  <1>6. CASE Request
    BY <1>1, <1>6 DEF Request
  <1>7. CASE Work
    BY <1>2, <1>3, <1>4, <1>5, <1>7
       DEF Work, QueueStep, RunCallback, RecoverEntry, RecoveryDone, LockEntry, SkipEntry,
           ScheduleRetry, CommitSent
  <1>8. CASE Fault \/ Lifecycle
    BY <1>5, <1>8 DEF Fault, Lifecycle, QueueFault, ApiLifecycle, CallbackFails, AbortJob,
                      CommitSentFails, ApiStops, ApiStarts
  <1> QED BY <1>6, <1>7, <1>8 DEF Next

\* What a dead worker leaves in "processing" is never sent, retried or settled
\* by anybody else.
THEOREM StrandedLeftAlone == Spec => StrandedStays
  <1>1. IInv /\ [Next]_vars =>
          [\A e \in Entries : Stranded(e) => row'[e] = row[e] /\ sends'[e] = sends[e]]_vars
    BY StrandedStep
  <1> QED BY <1>1, IInvHolds, PTL DEF Spec, StrandedStays

-----------------------------------------------------------------------------
\* The contract sees of an entry only its status, its attempts and its sends.
ContractRow(e) == ContractState[row[e].status]

\* A step that shows the contract nothing new is a stuttering step of it.
LEMMA UnseenStep ==
  ASSUME IInv, UNCHANGED sends,
         \A e \in Entries : row'[e].status = row[e].status /\ row'[e].attempts = row[e].attempts
  PROVE  UNCHANGED Contract!contractVars
  BY DEF Contract!contractVars

LEMMA SubmitStep ==
  ASSUME IInv, NEW S \in SUBSET Entries, QueueTestRunReport(S)
  PROVE  Contract!Submit(S)
  <1>1. /\ S # {} /\ \A e \in S : row[e].status = "absent"
        /\ row' = [e \in Entries |-> IF e \in S THEN NewRow ELSE row[e]]
        /\ UNCHANGED sends
    BY DEF QueueTestRunReport, CommitRequest
  <1>2. \A e \in S : row[e].attempts = 0
    BY <1>1 DEF IInv, QueueInv, AttemptsWithinBudget
  <1>3. \A e \in S : ContractState[row[e].status] = "none"
    BY <1>1 DEF ContractState
  <1>4. [e \in Entries |-> ContractState[row[e].status]]' =
          [e \in Entries |-> IF e \in S THEN "queued" ELSE ContractState[row[e].status]]
    BY <1>1 DEF NewRow, ContractState
  <1>5. [e \in Entries |-> row[e].attempts]' = [e \in Entries |-> row[e].attempts]
    BY <1>1, <1>2 DEF NewRow
  <1> QED BY <1>1, <1>3, <1>4, <1>5 DEF Contract!Submit

LEMMA TakeStep ==
  ASSUME IInv, NEW w \in Workers, NEW e \in Entries, e = worker[w].entry,
         CommitClaim(w), UNCHANGED sends
  PROVE  Contract!Take(e)
  <1>1. row[e].status = "pending"
    BY HolderEntry DEF CommitClaim, IInv, QueueInv, HolderMatchesRow
  <1>2. /\ row'[e].status = "processing" /\ row'[e].attempts = row[e].attempts
        /\ \A x \in Entries \ {e} : row'[x] = row[x]
    BY <1>1 DEF CommitClaim, IInv, QueueInv, QueueTypeOK
  <1>3. [x \in Entries |-> ContractState[row[x].status]]' =
          [[x \in Entries |-> ContractState[row[x].status]] EXCEPT ![e] = "active"]
    <2>1. \A x \in Entries :
            ContractState[row'[x].status] =
              IF x = e THEN "active" ELSE ContractState[row[x].status]
      BY <1>2 DEF ContractState
    <2> QED BY <2>1
  <1>4. [x \in Entries |-> row[x].attempts]' = [x \in Entries |-> row[x].attempts]
    BY <1>2
  <1> QED BY <1>1, <1>3, <1>4 DEF Contract!Take, ContractState

LEMMA FailStep ==
  ASSUME IInv, NEW w \in Workers, NEW e \in Entries, e = worker[w].entry,
         MarkFailed(w), UNCHANGED sends
  PROVE  Contract!Fail(e)
  <1>1. row[e].status = "processing"
    BY HolderEntry DEF MarkFailed, IInv, QueueInv, HolderMatchesRow, HasClaim
  <1>2. row[e].attempts \in Nat /\ MaxAttempts \in Nat
    BY <1>1, JobQueueAssumption DEF IInv, QueueInv, QueueTypeOK
  <1>3. /\ row'[e].status = IF row[e].attempts + 1 < MaxAttempts THEN "pending" ELSE "dead"
        /\ row'[e].attempts = row[e].attempts + 1
        /\ \A x \in Entries \ {e} : row'[x] = row[x]
    BY <1>1, <1>2 DEF MarkFailed, IInv, QueueInv, QueueTypeOK
  <1>4. [x \in Entries |-> ContractState[row[x].status]]' =
          [[x \in Entries |-> ContractState[row[x].status]] EXCEPT
             ![e] = IF row[e].attempts + 1 < MaxAttempts THEN "queued" ELSE "dead"]
    <2>1. \A x \in Entries :
            ContractState[row'[x].status] =
              IF x = e THEN IF row[e].attempts + 1 < MaxAttempts THEN "queued" ELSE "dead"
                       ELSE ContractState[row[x].status]
      BY <1>3 DEF ContractState
    <2> QED BY <2>1
  <1>5. [x \in Entries |-> row[x].attempts]' =
          [[x \in Entries |-> row[x].attempts] EXCEPT ![e] = row[e].attempts + 1]
    BY <1>3
  <1>6. /\ [x \in Entries |-> ContractState[row[x].status]][e] = "active"
        /\ [x \in Entries |-> row[x].attempts][e] = row[e].attempts
    BY <1>1 DEF ContractState
  <1> QED BY <1>4, <1>5, <1>6 DEF Contract!Fail

\* A message that leaves is the effect of this try: none has left before.
LEMMA PerformStep ==
  ASSUME IInv, NEW w \in Workers, NEW e \in Entries, e = worker[w].entry,
         Deliver(w) \/ DeliveryFails(w)
  PROVE  Contract!Perform(e) \/ UNCHANGED Contract!contractVars
  <1>1. row[e].status = "processing" /\ UNCHANGED row
    BY HolderEntry DEF Deliver, DeliveryFails, HasClaim, IInv, QueueInv, HolderMatchesRow
  <1>2. sends[e] <= row[e].attempts /\ sends \in [Entries -> Nat]
    BY DEF Deliver, DeliveryFails, IInv, SendsInv
  <1>3. sends' = [sends EXCEPT ![e] = @ + 1] \/ sends' = sends
    BY <1>1, <1>2 DEF Deliver, DeliveryFails
  <1> QED BY <1>1, <1>2, <1>3 DEF Contract!Perform, Contract!contractVars, ContractState

LEMMA FinishStep ==
  ASSUME IInv, NEW w \in Workers, NEW e \in Entries, e = worker[w].entry,
         CommitSent(w)
  PROVE  Contract!Finish(e)
  <1>1. row[e].status = "processing" /\ sends[e] > 0 /\ UNCHANGED sends
    BY HolderEntry DEF CommitSent, HasClaim, IInv, SendsInv, QueueInv, HolderMatchesRow
  <1>2. /\ row'[e].status = "done" /\ row'[e].attempts = row[e].attempts
        /\ \A x \in Entries \ {e} : row'[x] = row[x]
    BY <1>1 DEF CommitSent, IInv, QueueInv, QueueTypeOK
  <1>3. [x \in Entries |-> ContractState[row[x].status]]' =
          [[x \in Entries |-> ContractState[row[x].status]] EXCEPT ![e] = "done"]
    <2>1. \A x \in Entries :
            ContractState[row'[x].status] =
              IF x = e THEN "done" ELSE ContractState[row[x].status]
      BY <1>2 DEF ContractState
    <2> QED BY <2>1
  <1>4. [x \in Entries |-> row[x].attempts]' = [x \in Entries |-> row[x].attempts]
    BY <1>2
  <1> QED BY <1>1, <1>3, <1>4 DEF Contract!Finish, ContractState

LEMMA ContractInit == Init => Contract!Init
  BY DEF Init, QueueInit, NoRow, ContractState, Contract!Init

LEMMA ContractNext == IInv /\ [Next]_vars => [Contract!Next]_(Contract!contractVars)
  <1> SUFFICES ASSUME IInv, [Next]_vars PROVE [Contract!Next]_(Contract!contractVars)
    OBVIOUS
  <1>1. CASE Request
    BY <1>1, SubmitStep DEF Request, Contract!Next
  <1>2. ASSUME NEW w \in Workers,
               \/ (CommitClaim(w) \/ MarkFailed(w)) /\ UNCHANGED sends
               \/ Deliver(w) \/ DeliveryFails(w) \/ CommitSent(w)
        PROVE  [Contract!Next]_(Contract!contractVars)
    <2>1. PICK e \in Entries : e = worker[w].entry
      BY <1>2, HolderEntry DEF CommitClaim, MarkFailed, Deliver, DeliveryFails, CommitSent, IInv
    <2>2. CASE CommitClaim(w) /\ UNCHANGED sends
      <3>1. Contract!Take(e)
        BY <2>1, <2>2, TakeStep
      <3> QED BY <3>1 DEF Contract!Next
    <2>3. CASE MarkFailed(w) /\ UNCHANGED sends
      <3>1. Contract!Fail(e)
        BY <2>1, <2>3, FailStep
      <3> QED BY <3>1 DEF Contract!Next
    <2>4. CASE Deliver(w) \/ DeliveryFails(w)
      BY <2>1, <2>4, PerformStep DEF Contract!Next
    <2>5. CASE CommitSent(w)
      <3>1. Contract!Finish(e)
        BY <2>1, <2>5, FinishStep
      <3> QED BY <3>1 DEF Contract!Next
    <2> QED BY <1>2, <2>2, <2>3, <2>4, <2>5
  <1>3. CASE Tick /\ UNCHANGED sends
    <2>1. \A e \in Entries : row'[e].status = row[e].status /\ row'[e].attempts = row[e].attempts
      BY <1>3 DEF Tick, IInv, QueueInv, QueueTypeOK
    <2> QED BY <1>3, <2>1, UnseenStep
  <1>4. CASE UNCHANGED <<row, sends>>
    BY <1>4, UnseenStep
  <1>5. CASE Work
    BY <1>2, <1>3, <1>4, <1>5
       DEF Work, QueueStep, RunCallback, RecoverEntry, RecoveryDone, LockEntry, SkipEntry,
           ScheduleRetry
  <1>6. CASE Fault \/ Lifecycle \/ UNCHANGED vars
    BY <1>4, <1>6 DEF Fault, Lifecycle, QueueFault, ApiLifecycle, CallbackFails, AbortJob,
                      CommitSentFails, ApiStops, ApiStarts, vars
  <1> QED BY <1>1, <1>5, <1>6 DEF Next

\* With all its triggers, locks, restarts and back-offs, the queue does what
\* the contract says: one effect a try, and no step after an item is settled.
THEOREM KeepsTheContract == Spec => KeepsContract
  <1>1. Init => Contract!Init
    BY ContractInit
  <1>2. IInv /\ [Next]_vars => [Contract!Next]_(Contract!contractVars)
    BY ContractNext
  <1> QED BY <1>1, <1>2, IInvHolds, PTL DEF Spec, KeepsContract, Contract!Spec

-----------------------------------------------------------------------------
\* The steps of sending leave triggers alone, and a new row has its callback.
LEMMA SendingForgetsNothing ==
  ASSUME IInv, NEW e \in Entries, ~Forgotten(e), Forgotten(e)'
  PROVE  ~Request /\ \A w \in Workers : ~(Deliver(w) \/ DeliveryFails(w) \/ CommitSent(w))
  <1>1. row'[e].status = "pending"
    BY DEF Forgotten
  <1>2. ASSUME NEW S \in SUBSET Entries, QueueTestRunReport(S) PROVE FALSE
    <2>1. S \in callbacks' /\ callbacks \subseteq callbacks' /\ UNCHANGED <<jobs, worker, recovering>>
      BY <1>2 DEF QueueTestRunReport, CommitRequest
    <2>2. e \notin S
      BY <2>1 DEF Forgotten
    <2>3. row'[e] = row[e]
      BY <1>2, <2>2 DEF QueueTestRunReport, CommitRequest
    <2> QED BY <1>1, <2>1, <2>3, KeepsRemembered
  <1>3. ASSUME NEW w \in Workers, Deliver(w) \/ DeliveryFails(w) PROVE FALSE
    <2>1. /\ worker[w].pc = "claimed" /\ \A v \in Workers \ {w} : worker'[v] = worker[v]
          /\ UNCHANGED <<row, jobs, callbacks, recovering>>
      BY <1>3 DEF Deliver, DeliveryFails, IInv, QueueInv, QueueTypeOK
    <2> QED BY <1>1, <2>1, KeepsRemembered
  <1>4. ASSUME NEW w \in Workers, CommitSent(w) PROVE FALSE
    <2>1. worker[w].entry # e
      BY <1>1, <1>4 DEF CommitSent, IInv, QueueInv, QueueTypeOK
    <2>2. row'[e] = row[e] /\ \A v \in Workers \ {w} : worker'[v] = worker[v]
      BY <1>4, <2>1 DEF CommitSent, IInv, QueueInv, QueueTypeOK
    <2> QED BY <1>1, <1>4, <2>2, KeepsRemembered DEF CommitSent
  <1> QED BY <1>2, <1>3, <1>4 DEF Request

\* With any number of workers, duplicate triggers and channels: a pending row is
\* forgotten only by a fault, a stop or start of the API, or a trigger that came
\* before the row was due.
THEOREM ForgottenByComingEarly == Spec => TriggerLostOnlyByComingEarly
  <1>1. ASSUME IInv, [Next]_vars
        PROVE  [\A e \in Entries :
                  ~Forgotten(e) /\ Forgotten(e)' => row[e].wait > 0 \/ Fault \/ Lifecycle]_vars
    <2> SUFFICES ASSUME Next, NEW e \in Entries, ~Forgotten(e), Forgotten(e)',
                        ~Fault, ~Lifecycle
                 PROVE  row[e].wait > 0
      BY <1>1
    <2>1. QueueStep
      BY <1>1, SendingForgetsNothing DEF Next, Work
    <2> QED BY <1>1, <2>1, QueueStepForgets DEF IInv
  <1> QED BY <1>1, IInvHolds, PTL DEF Spec, TriggerLostOnlyByComingEarly
=============================================================================
