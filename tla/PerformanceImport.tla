------------------------- MODULE PerformanceImport --------------------------
(***************************************************************************)
(* Asynchronous performance imports: an upload is stored and its import    *)
(* row committed, an after-commit callback enqueues a trigger, and a       *)
(* worker reads the source, applies it to the run and keeps its generated  *)
(* artifacts (modules/performance/services/imports.py, import_worker.py,   *)
(* apply_import.py, core/queue_recovery.py).                               *)
(*                                                                         *)
(* Unlike the audit and notification queues, an import is not claimed: the *)
(* worker reads its status and goes on unless the import has ended.  What  *)
(* a run shows of the numbers in the file is left out; the files the       *)
(* worker writes and deletes, and the rows that name them, are kept.       *)
(* MaxTriggers and MaxAttempts bound the model, not the code.              *)
(***************************************************************************)
EXTENDS Integers, FiniteSets

CONSTANTS Imports, Workers,
          MaxTriggers,   \* bound: triggers of one import waiting at a time
          MaxAttempts    \* bound: applications of one import that are started

ASSUME BoundsAreSensible ==
  MaxTriggers \in Nat \ {0} /\ MaxAttempts \in Nat \ {0}
ASSUME SomeImport == Imports # {}

\* What the parser makes of a source: it raises, or gives this parse_status.
Contents == {"invalid", "parsed", "partial", "failed"}

\* A generated artifact: which application wrote it, and its label.
Artifacts == (1 .. MaxAttempts) \X {"summary", "errors"}

Ended == {"completed", "partial", "failed"}

VARIABLES status,      \* performance_imports.status, "none" before the upload
          content,     \* what the stored source holds
          run,         \* status of the import's performance run
          ready,       \* rows of generated artifacts with status "ready"
          files,       \* generated files in storage
          attempts,    \* applications started
          triggers,    \* jobs waiting
          api,         \* "down", "starting" or "serving"
          callbacks,   \* after-commit callbacks that have not run
          recovering,  \* rows the startup has read and not yet enqueued
          worker       \* what each worker is at

row   == << status, content, run, ready >>
queue == << triggers, api, callbacks, recovering >>
vars  == << row, queue, files, attempts, worker >>

Free == [at |-> "free", import |-> CHOOSE i \in Imports : TRUE, n |-> 0,
         saw |-> "none", own |-> {}]

Busy(i) == \E w \in Workers : worker[w].at # "free" /\ worker[w].import = i
\* What this worker has put into its session to be committed.
Applied(w) == worker[w].at \in {"applying", "summary", "saved", "failing after apply"}

\* parse_status "parsed" completes an import, any other leaves it partial.
ImportResult(i) == IF content[i] = "parsed" THEN "completed" ELSE "partial"
RunResult(i)    == IF content[i] = "failed" THEN "incomplete" ELSE "completed"

-----------------------------------------------------------------------------
(* The API. *)

\* Mutant: no callback is registered.
CreateImport_NoCallback(i, c) ==
  /\ api = "serving"
  /\ status[i] = "none"
  /\ status' = [status EXCEPT ![i] = "pending"]
  /\ content' = [content EXCEPT ![i] = c]
  /\ run' = [run EXCEPT ![i] = "running"]
  /\ UNCHANGED << ready, queue, files, attempts, worker >>

\* create_performance_import: run, import and source are there together.
CreateImport(i, c) ==
  /\ api = "serving"
  /\ status[i] = "none"
  /\ status' = [status EXCEPT ![i] = "pending"]
  /\ content' = [content EXCEPT ![i] = c]
  /\ run' = [run EXCEPT ![i] = "running"]
  /\ callbacks' = callbacks \cup {i}
  /\ UNCHANGED << ready, triggers, api, recovering, files, attempts, worker >>

Enqueue(i) ==
  /\ triggers[i] < MaxTriggers
  /\ triggers' = [triggers EXCEPT ![i] = @ + 1]

RunCallback(i) ==
  /\ i \in callbacks
  /\ callbacks' = callbacks \ {i}
  /\ Enqueue(i)
  /\ UNCHANGED << row, api, recovering, files, attempts, worker >>

\* Enqueueing raises: logged, and the import stays pending.
CallbackFails(i) ==
  /\ i \in callbacks
  /\ callbacks' = callbacks \ {i}
  /\ UNCHANGED << row, triggers, api, recovering, files, attempts, worker >>

ApiStops ==
  /\ api # "down"
  /\ api' = "down"
  /\ callbacks' = {}
  /\ recovering' = {}
  /\ UNCHANGED << row, triggers, files, attempts, worker >>

\* Mutant: the startup reads the imports that are processing.
ApiStarts_Processing ==
  /\ api = "down"
  /\ api' = "starting"
  /\ recovering' = {i \in Imports : status[i] = "processing"}
  /\ UNCHANGED << row, triggers, callbacks, files, attempts, worker >>

\* lifespan, _recover_performance: pending imports are read once ...
ApiStarts ==
  /\ api = "down"
  /\ api' = "starting"
  /\ recovering' = {i \in Imports : status[i] = "pending"}
  /\ UNCHANGED << row, triggers, callbacks, files, attempts, worker >>

\* ... and each is enqueued again, whether or not it has a trigger.
RecoverImport(i) ==
  /\ i \in recovering
  /\ recovering' = recovering \ {i}
  /\ Enqueue(i)
  /\ UNCHANGED << row, api, callbacks, files, attempts, worker >>

RecoveryDone ==
  /\ api = "starting" /\ recovering = {}
  /\ api' = "serving"
  /\ UNCHANGED << row, triggers, callbacks, recovering, files, attempts, worker >>

-----------------------------------------------------------------------------
(* The workers. *)

Goes(w, at) == worker' = [worker EXCEPT ![w].at = at]
Quits(w)    == worker' = [worker EXCEPT ![w] = Free]

\* Mutant: the status is not looked at.
ReadImport_Always(w, i) ==
  /\ worker[w].at = "free" /\ triggers[i] > 0
  /\ triggers' = [triggers EXCEPT ![i] = @ - 1]
  /\ worker' = [worker EXCEPT ![w] = [Free EXCEPT !.at = "read", !.import = i,
                                                  !.saw = status[i]]]
  /\ UNCHANGED << row, api, callbacks, recovering, files, attempts >>

\* process_performance_import reads the import; there is nothing to do for one
\* that has ended.
ReadImport(w, i) ==
  /\ worker[w].at = "free" /\ triggers[i] > 0
  /\ triggers' = [triggers EXCEPT ![i] = @ - 1]
  /\ worker' = IF status[i] \in Ended THEN worker
               ELSE [worker EXCEPT ![w] = [Free EXCEPT !.at = "read", !.import = i,
                                                       !.saw = status[i]]]
  /\ UNCHANGED << row, api, callbacks, recovering, files, attempts >>

\* The status is written if it is not what was read, and committed.
MarkProcessing(w) ==
  LET i == worker[w].import IN
  /\ worker[w].at = "read"
  /\ status' = IF worker[w].saw = "processing" THEN status
               ELSE [status EXCEPT ![i] = "processing"]
  /\ Goes(w, "marked")
  /\ UNCHANGED << content, run, ready, queue, files, attempts >>

\* The source cannot be read, or the parser raises.
ParseFails(w) ==
  /\ worker[w].at = "marked"
  /\ Goes(w, "failing")
  /\ UNCHANGED << row, queue, files, attempts >>

\* apply_import_payload up to its files: run and import are changed in the
\* session, and the files of the generated artifacts it finds are deleted.
\* Their rows stay: db.delete is a coroutine that is never awaited.
StartApply(w) ==
  LET i == worker[w].import IN
  /\ worker[w].at = "marked" /\ content[i] # "invalid"
  /\ attempts[i] < MaxAttempts
  /\ attempts' = [attempts EXCEPT ![i] = @ + 1]
  /\ files' = [files EXCEPT ![i] = @ \ ready[i]]
  /\ worker' = [worker EXCEPT ![w].at = "applying", ![w].n = attempts[i] + 1]
  /\ UNCHANGED << row, queue >>

Save(w, label, at) ==
  LET i == worker[w].import
      a == << worker[w].n, label >>
  IN /\ files' = [files EXCEPT ![i] = @ \cup {a}]
     /\ worker' = [worker EXCEPT ![w].at = at, ![w].own = @ \cup {a}]
     /\ UNCHANGED << row, queue, attempts >>

SaveSummary(w) == worker[w].at = "applying" /\ Save(w, "summary", "summary")
SaveErrors(w)  == worker[w].at = "summary" /\ Save(w, "errors", "saved")

\* Mutant: the artifact row of an empty error list says "ready".
NoErrorsToSave_Ready(w) ==
  /\ worker[w].at = "summary"
  /\ worker' = [worker EXCEPT ![w].at = "saved",
                              ![w].own = @ \cup {<< worker[w].n, "errors" >>}]
  /\ UNCHANGED << row, queue, files, attempts >>

\* A run without errors gets an artifact row that is "missing".
NoErrorsToSave(w) ==
  /\ worker[w].at = "summary"
  /\ Goes(w, "saved")
  /\ UNCHANGED << row, queue, files, attempts >>

StorageFails(w) ==
  /\ worker[w].at \in {"applying", "summary"}
  /\ Goes(w, "failing after apply")
  /\ UNCHANGED << row, queue, files, attempts >>

\* Mutant: the result is committed before the files are written.
CommitApply_BeforeFiles(w) ==
  LET i == worker[w].import IN
  /\ worker[w].at = "applying"
  /\ status' = [status EXCEPT ![i] = ImportResult(i)]
  /\ run' = [run EXCEPT ![i] = RunResult(i)]
  /\ ready' = [ready EXCEPT ![i] = @ \cup worker[w].own]
  /\ Quits(w)
  /\ UNCHANGED << content, queue, files, attempts >>

CommitApply(w) ==
  LET i == worker[w].import IN
  /\ worker[w].at = "saved"
  /\ status' = [status EXCEPT ![i] = ImportResult(i)]
  /\ run' = [run EXCEPT ![i] = RunResult(i)]
  /\ ready' = [ready EXCEPT ![i] = @ \cup worker[w].own]
  /\ Quits(w)
  /\ UNCHANGED << content, queue, files, attempts >>

\* Mutant: a failure also settles the run.
RecordFailure_SettlesRun(w) ==
  LET i == worker[w].import IN
  /\ worker[w].at \in {"failing", "failing after apply"}
  /\ status' = [status EXCEPT ![i] = "failed"]
  /\ run' = [run EXCEPT ![i] = RunResult(i)]
  /\ ready' = [ready EXCEPT ![i] = @ \cup worker[w].own]
  /\ Quits(w)
  /\ UNCHANGED << content, queue, files, attempts >>

\* The session is not rolled back before the failure is recorded: what the
\* application had already put into it is committed with the failure.
RecordFailure(w) ==
  LET i == worker[w].import IN
  /\ worker[w].at \in {"failing", "failing after apply"}
  /\ status' = [status EXCEPT ![i] = "failed"]
  /\ IF Applied(w)
     THEN /\ run' = [run EXCEPT ![i] = RunResult(i)]
          /\ ready' = [ready EXCEPT ![i] = @ \cup worker[w].own]
     ELSE UNCHANGED << run, ready >>
  /\ Quits(w)
  /\ UNCHANGED << content, queue, files, attempts >>

\* The worker process dies, or the database refuses a commit (the one that
\* records the failure included): nothing more is written.
WorkerFails(w) ==
  /\ worker[w].at # "free"
  /\ Quits(w)
  /\ UNCHANGED << row, queue, files, attempts >>

-----------------------------------------------------------------------------
Init ==
  /\ status = [i \in Imports |-> "none"]
  /\ content = [i \in Imports |-> "invalid"]
  /\ run = [i \in Imports |-> "none"]
  /\ ready = [i \in Imports |-> {}]
  /\ files = [i \in Imports |-> {}]
  /\ attempts = [i \in Imports |-> 0]
  /\ triggers = [i \in Imports |-> 0]
  /\ api = "serving"
  /\ callbacks = {}
  /\ recovering = {}
  /\ worker = [w \in Workers |-> Free]

Request == \E i \in Imports, c \in Contents : CreateImport(i, c)

GoOn(w) ==
  \/ MarkProcessing(w) \/ ParseFails(w) \/ StartApply(w)
  \/ SaveSummary(w) \/ SaveErrors(w) \/ NoErrorsToSave(w) \/ StorageFails(w)
  \/ CommitApply(w) \/ RecordFailure(w)

Work ==
  \/ \E i \in Imports : RunCallback(i) \/ RecoverImport(i)
  \/ RecoveryDone
  \/ \E w \in Workers : GoOn(w) \/ \E i \in Imports : ReadImport(w, i)

Lifecycle == ApiStops \/ ApiStarts
Fault == \/ \E i \in Imports : CallbackFails(i)
         \/ \E w \in Workers : WorkerFails(w)

Next == Request \/ Work \/ Lifecycle \/ Fault

Spec == Init /\ [][Next]_vars

\* procrastinate starts waiting jobs, a worker goes on with the one it has, and
\* a startup that began goes on.  Starting a job is strongly fair: a worker takes
\* its jobs one after the other, so it is free again and again.
Fairness ==
  /\ \A i \in Imports : /\ WF_vars(RunCallback(i))
                        /\ WF_vars(RecoverImport(i))
                        /\ SF_vars(\E w \in Workers : ReadImport(w, i))
  /\ WF_vars(RecoveryDone)
  /\ \A w \in Workers : WF_vars(GoOn(w))

FairSpec == Spec /\ Fairness

-----------------------------------------------------------------------------
(* What must hold. *)

\* The variables are well typed; an import that was not uploaded has nothing.
TypeOK ==
  /\ status \in [Imports -> {"none", "pending", "processing"} \cup Ended]
  /\ content \in [Imports -> Contents]
  /\ run \in [Imports -> {"none", "running", "completed", "incomplete"}]
  /\ ready \in [Imports -> SUBSET Artifacts]
  /\ files \in [Imports -> SUBSET Artifacts]
  /\ attempts \in [Imports -> 0 .. MaxAttempts]
  /\ triggers \in [Imports -> 0 .. MaxTriggers]
  /\ api \in {"down", "starting", "serving"}
  /\ callbacks \subseteq Imports /\ recovering \subseteq Imports
  /\ worker \in [Workers ->
       [at : {"free", "read", "marked", "failing", "applying", "summary", "saved",
              "failing after apply"},
        import : Imports, n : 0 .. MaxAttempts,
        saw : {"none", "pending", "processing"}, own : SUBSET Artifacts]]

\* An import is applied to its run at most once: a trigger for an import that
\* already has one does nothing (the docstring of core/queue_recovery.py).
AppliedAtMostOnce ==
  \A i \in Imports : Cardinality({a[1] : a \in ready[i]}) <= 1

\* Every generated artifact that is offered for download has its file
\* (apply_import.py writes the file before the row).
ReadyArtifactsHaveFiles == \A i \in Imports : ready[i] \subseteq files[i]

\* What has ended stays as it ended: late triggers change nothing.
EndedStaysEnded ==
  [][\A i \in Imports : status[i] \in Ended =>
       << status[i], run[i], ready[i] >>' = << status[i], run[i], ready[i] >>]_vars

\* An import that completed has left its summary with its run; the two are one
\* commit (_process_import_item).
CompletedHasSummary ==
  \A i \in Imports : status[i] \in {"completed", "partial"} =>
    /\ run[i] = RunResult(i)
    /\ \E n \in 1 .. MaxAttempts : << n, "summary" >> \in ready[i]

\* A source the parser rejects never changes its run, however often it is tried.
InvalidLeavesRunAlone ==
  \A i \in Imports : status[i] # "none" /\ content[i] = "invalid" =>
    run[i] = "running" /\ ready[i] = {} /\ files[i] = {}

\* An import keeps the contract of the queues, with a single try.  Its effect is
\* the change of its run, which a failure may commit as well as a success.
RunChanged(i) == run[i] \in {"completed", "incomplete"}
ContractState(i) ==
  IF RunChanged(i) THEN "done"
  ELSE [none |-> "none", pending |-> "queued", processing |-> "active",
        completed |-> "done", partial |-> "done", failed |-> "dead"][status[i]]

Contract == INSTANCE WorkContract WITH
  Items <- Imports, MaxAttempts <- 1,
  state <- [i \in Imports |-> ContractState(i)],
  tries <- [i \in Imports |-> IF ContractState(i) = "dead" THEN 1 ELSE 0],
  effects <- [i \in Imports |-> IF RunChanged(i) THEN 1 ELSE 0]

KeepsContract == Contract!Spec

\* A pending import that nothing is going to look at before the next startup.
Forgotten(i) ==
  status[i] = "pending" /\ triggers[i] = 0 /\ i \notin callbacks \cup recovering /\ ~Busy(i)

\* Only a fault or a stop of the API makes an accepted import forgotten: its
\* callback is there with its commit, and its trigger is used up only by a
\* worker that takes it on (create_performance_import).
ForgottenOnlyByFaults ==
  [][\A i \in Imports : ~Forgotten(i) /\ Forgotten(i)' => Fault \/ ApiStops]_vars

\* If faults end and the API still completes startups, every pending import
\* ends, unless a dead worker has left it processing, which no startup reads.
RestartsRecover ==
  (<>[][~Fault]_vars /\ []<>(api = "starting") /\ []<>(api = "serving"))
  => \A i \in Imports :
       status[i] = "pending" ~> (status[i] \in Ended \/ (status[i] = "processing" /\ ~Busy(i)))
=============================================================================
