---------------------- MODULE PerformanceImportProofs -----------------------
(***************************************************************************)
(* What holds of the imports for any number of imports and workers, and     *)
(* what holds because the shipped deployment has one worker.                *)
(*                                                                         *)
(* The argument: an import is not claimed, so two workers may be at it; but *)
(* a worker past its first commit has seen to it that the import is not     *)
(* pending any more, and what it applies comes from a source that parses.   *)
(* A sole worker moreover works only on an import that has not ended, and   *)
(* before the end there are no artifacts.                                   *)
(***************************************************************************)
EXTENDS PerformanceImport, FiniteSetTheorems, TLAPS

Ats == {"free", "read", "marked", "failing", "applying", "summary", "saved",
        "failing after apply"}
WorkerType == [at : Ats, import : Imports, n : 0 .. MaxAttempts,
               saw : {"none", "pending", "processing"}, own : SUBSET Artifacts]

WorkerOK(w) ==
  LET t == worker[w] IN
  /\ t.at # "free" => status[t.import] # "none"
  /\ t.at \notin {"free", "read"} => status[t.import] # "pending"
  /\ t.at = "read" /\ t.saw = "processing" => status[t.import] # "pending"
  /\ Applied(w) => t.n \in 1 .. MaxAttempts /\ content[t.import] # "invalid"
  /\ t.at \in {"summary", "saved"} => << t.n, "summary" >> \in t.own

\* Before its upload an import has nothing, and nobody is asked to look at it.
NotUploaded(i) ==
  status[i] = "none" =>
    ready[i] = {} /\ files[i] = {} /\ triggers[i] = 0 /\ i \notin callbacks \cup recovering

IInv ==
  /\ TypeOK
  /\ \A w \in Workers : WorkerOK(w)
  /\ \A i \in Imports : NotUploaded(i)
  /\ InvalidLeavesRunAlone
  /\ CompletedHasSummary

\* An import that was uploaded keeps its source, and is never pending again.
Steady ==
  \A i \in Imports : status[i] # "none" =>
    /\ content'[i] = content[i]
    /\ status'[i] = status[i] \/ status'[i] \notin {"none", "pending"}

-----------------------------------------------------------------------------
LEMMA WorkerUpdate ==
  ASSUME TypeOK, NEW w \in Workers, NEW x \in WorkerType, worker' = [worker EXCEPT ![w] = x]
  PROVE  /\ worker' \in [Workers -> WorkerType] /\ worker'[w] = x
         /\ \A v \in Workers \ {w} : worker'[v] = worker[v]
BY DEF TypeOK, WorkerType, Ats

LEMMA FreeType == Free \in WorkerType /\ Free.at = "free" /\ Free.own = {} /\ Free.saw = "none" /\ Free.n = 0
<1>1. (CHOOSE i \in Imports : TRUE) \in Imports
  BY SomeImport
<1> QED BY <1>1, BoundsAreSensible DEF Free, WorkerType, Ats

LEMMA GoesFacts ==
  ASSUME TypeOK, NEW w \in Workers, NEW at \in Ats, Goes(w, at)
  PROVE  /\ worker' \in [Workers -> WorkerType]
         /\ worker'[w].at = at /\ worker'[w].import = worker[w].import /\ worker'[w].n = worker[w].n
         /\ worker'[w].saw = worker[w].saw /\ worker'[w].own = worker[w].own
         /\ \A v \in Workers \ {w} : worker'[v] = worker[v]
<1>1. PICK x \in WorkerType : x = worker[w]
  BY DEF TypeOK, WorkerType, Ats
<1>2. PICK y \in WorkerType : y = [x EXCEPT !.at = at]
  BY DEF WorkerType
<1>3. y.at = at /\ y.import = x.import /\ y.n = x.n /\ y.saw = x.saw /\ y.own = x.own
  BY <1>2 DEF WorkerType
<1>4. worker' = [worker EXCEPT ![w] = y]
  BY <1>1, <1>2 DEF Goes, TypeOK
<1> QED BY <1>1, <1>3, <1>4, WorkerUpdate

LEMMA QuitsFacts ==
  ASSUME TypeOK, NEW w \in Workers, Quits(w)
  PROVE  /\ worker' \in [Workers -> WorkerType] /\ worker'[w] = Free
         /\ \A v \in Workers \ {w} : worker'[v] = worker[v]
BY FreeType, WorkerUpdate DEF Quits

LEMMA FreeIsOK == ASSUME NEW w \in Workers, worker'[w] = Free PROVE WorkerOK(w)'
BY FreeType DEF WorkerOK, Applied

LEMMA WorkersKeep ==
  ASSUME IInv, Steady, NEW v \in Workers, worker'[v] = worker[v]
  PROVE  WorkerOK(v)'
<1>1. WorkerOK(v) /\ worker[v].import \in Imports
  BY DEF IInv, TypeOK
<1>2. Applied(v)' <=> Applied(v)
  BY DEF Applied
<1>3. Applied(v) => worker[v].at # "free"
  BY DEF Applied
<1> QED BY <1>1, <1>2, <1>3 DEF WorkerOK, Steady

\* A step that leaves the rows, the sources and the files alone.
LEMMA RowsKeep ==
  ASSUME IInv, UNCHANGED << row, files >>
  PROVE  Steady /\ InvalidLeavesRunAlone' /\ CompletedHasSummary'
BY DEF IInv, row, Steady, InvalidLeavesRunAlone, CompletedHasSummary, RunResult

LEMMA QueueStep ==
  ASSUME IInv, TypeOK', UNCHANGED << row, files, worker >>, \A i \in Imports : NotUploaded(i)'
  PROVE  IInv'
BY RowsKeep, WorkersKeep DEF IInv

\* A step of one worker that leaves rows and files alone.
LEMMA WorkerStep ==
  ASSUME IInv, NEW w \in Workers, TypeOK', UNCHANGED << row, files >>, WorkerOK(w)',
         \A i \in Imports : NotUploaded(i)',
         \A v \in Workers \ {w} : worker'[v] = worker[v]
  PROVE  IInv'
BY RowsKeep, WorkersKeep DEF IInv

-----------------------------------------------------------------------------
(* The API. *)
LEMMA CreateImportKeeps ==
  ASSUME IInv, NEW i \in Imports, NEW c \in Contents, CreateImport(i, c)
  PROVE  IInv'
<1>1. TypeOK'
  BY DEF IInv, TypeOK, CreateImport
<1>2. Steady
  BY DEF Steady, IInv, TypeOK, CreateImport
<1>3. \A w \in Workers : WorkerOK(w)'
  BY <1>2, WorkersKeep DEF CreateImport
<1>4. ready[i] = {} /\ files[i] = {}
  BY DEF IInv, NotUploaded, CreateImport
<1>5. \A j \in Imports : NotUploaded(j)'
  BY DEF IInv, NotUploaded, CreateImport, TypeOK
<1>6. InvalidLeavesRunAlone'
  BY <1>4 DEF IInv, InvalidLeavesRunAlone, CreateImport, TypeOK
<1>7. CompletedHasSummary'
  BY DEF IInv, CompletedHasSummary, RunResult, CreateImport, TypeOK
<1> QED BY <1>1, <1>3, <1>5, <1>6, <1>7 DEF IInv

LEMMA EnqueueType ==
  ASSUME TypeOK, NEW i \in Imports, Enqueue(i)
  PROVE  triggers' \in [Imports -> 0 .. MaxTriggers] /\ triggers'[i] > 0
<1>1. PICK n \in 0 .. MaxTriggers : n = triggers[i]
  BY DEF TypeOK
<1>2. n + 1 \in 0 .. MaxTriggers /\ n + 1 > 0
  BY <1>1, BoundsAreSensible DEF Enqueue
<1> QED BY <1>1, <1>2 DEF TypeOK, Enqueue

LEMMA ApiKeeps ==
  ASSUME IInv,
         \/ \E i \in Imports : RunCallback(i) \/ CallbackFails(i) \/ RecoverImport(i)
         \/ ApiStops \/ ApiStarts \/ RecoveryDone
  PROVE  IInv'
<1>1. ASSUME NEW i \in Imports, RunCallback(i) \/ CallbackFails(i) \/ RecoverImport(i) PROVE IInv'
  <2>1. TypeOK'
    BY <1>1, EnqueueType DEF IInv, TypeOK, RunCallback, CallbackFails, RecoverImport, row
  <2>2. status[i] # "none"
    BY <1>1 DEF IInv, NotUploaded, RunCallback, CallbackFails, RecoverImport
  <2>3. \A j \in Imports : NotUploaded(j)'
    BY <1>1, <2>2 DEF IInv, TypeOK, NotUploaded, RunCallback, CallbackFails, RecoverImport, Enqueue, row
  <2> QED BY <1>1, <2>1, <2>3, QueueStep DEF RunCallback, CallbackFails, RecoverImport
<1>2. CASE ApiStops \/ ApiStarts \/ RecoveryDone
  <2>1. TypeOK'
    BY <1>2 DEF IInv, TypeOK, ApiStops, ApiStarts, RecoveryDone, row
  <2>2. \A j \in Imports : NotUploaded(j)'
    BY <1>2 DEF IInv, NotUploaded, ApiStops, ApiStarts, RecoveryDone, row
  <2> QED BY <1>2, <2>1, <2>2, QueueStep DEF ApiStops, ApiStarts, RecoveryDone
<1> QED BY <1>1, <1>2

-----------------------------------------------------------------------------
(* The workers. *)
LEMMA ReadImportKeeps ==
  ASSUME IInv, NEW w \in Workers, NEW i \in Imports, ReadImport(w, i)
  PROVE  IInv'
<1>1. TypeOK /\ UNCHANGED << row, files, content, status, attempts, api, callbacks, recovering >>
  BY DEF IInv, ReadImport, row
<1>2. triggers' \in [Imports -> 0 .. MaxTriggers]
  <2>1. PICK n \in 0 .. MaxTriggers : n = triggers[i] /\ n > 0
    BY <1>1 DEF TypeOK, ReadImport
  <2>2. n - 1 \in 0 .. MaxTriggers
    BY <2>1, BoundsAreSensible
  <2> QED BY <1>1, <2>1, <2>2 DEF TypeOK, ReadImport
<1>3. status[i] # "none" /\ \A j \in Imports : NotUploaded(j)'
  <2>1. status[i] # "none"
    BY DEF IInv, NotUploaded, ReadImport
  <2> QED BY <1>1, <2>1 DEF IInv, TypeOK, NotUploaded, ReadImport, row
<1>4. CASE status[i] \in Ended
  <2>1. worker' = worker
    BY <1>4 DEF ReadImport
  <2>2. TypeOK'
    BY <1>1, <1>2, <2>1 DEF TypeOK, row
  <2> QED BY <1>1, <1>3, <2>1, <2>2, QueueStep
<1>5. CASE status[i] \notin Ended
  <2>1. status[i] \in {"none", "pending", "processing"}
    BY <1>1, <1>5 DEF TypeOK
  <2>2. PICK x \in WorkerType : /\ x = [Free EXCEPT !.at = "read", !.import = i, !.saw = status[i]]
                                /\ x.at = "read" /\ x.import = i /\ x.saw = status[i]
    <3>1. PICK y \in WorkerType : y = Free
      BY FreeType
    <3>2. /\ [y EXCEPT !.at = "read", !.import = i, !.saw = status[i]] \in WorkerType
          /\ [y EXCEPT !.at = "read", !.import = i, !.saw = status[i]].at = "read"
          /\ [y EXCEPT !.at = "read", !.import = i, !.saw = status[i]].import = i
          /\ [y EXCEPT !.at = "read", !.import = i, !.saw = status[i]].saw = status[i]
      BY <2>1 DEF WorkerType, Ats
    <3> QED BY <3>1, <3>2
  <2>3. /\ worker' \in [Workers -> WorkerType] /\ worker'[w] = x
        /\ \A v \in Workers \ {w} : worker'[v] = worker[v]
    <3>1. worker' = [worker EXCEPT ![w] = x]
      BY <1>5, <2>2 DEF ReadImport
    <3> QED BY <1>1, <3>1, WorkerUpdate
  <2>4. TypeOK'
    BY <1>1, <1>2, <2>3 DEF TypeOK, row, WorkerType, Ats
  <2>5. WorkerOK(w)'
    BY <1>1, <1>3, <2>2, <2>3 DEF WorkerOK, Applied
  <2> QED BY <1>1, <1>3, <2>3, <2>4, <2>5, WorkerStep
<1> QED BY <1>4, <1>5

\* What a worker does on its way to its last commit leaves the queue alone.
LEMMA WorkerTypeOK ==
  ASSUME TypeOK, UNCHANGED << row, queue, attempts >>, worker' \in [Workers -> WorkerType],
         files' \in [Imports -> SUBSET Artifacts]
  PROVE  TypeOK'
BY DEF TypeOK, row, queue, WorkerType, Ats

LEMMA SameRowsNotUploaded ==
  ASSUME IInv, UNCHANGED << row, queue, files >>
  PROVE  \A i \in Imports : NotUploaded(i)'
BY DEF IInv, NotUploaded, row, queue

\* The worker only goes on to another place, and keeps what it has.
LEMMA GoOnKeeps ==
  ASSUME IInv, NEW w \in Workers, NEW at \in Ats \ {"free", "read"}, Goes(w, at),
         UNCHANGED << row, queue, files, attempts >>,
         worker[w].at \notin {"free", "read"},
         at \in {"applying", "summary", "saved", "failing after apply"} => Applied(w),
         at \in {"summary", "saved"} => worker[w].at \in {"summary", "saved"}
  PROVE  IInv'
<1>1. /\ worker' \in [Workers -> WorkerType]
      /\ worker'[w].at = at /\ worker'[w].import = worker[w].import /\ worker'[w].n = worker[w].n
      /\ worker'[w].saw = worker[w].saw /\ worker'[w].own = worker[w].own
      /\ \A v \in Workers \ {w} : worker'[v] = worker[v]
  BY GoesFacts DEF IInv
<1>2. TypeOK'
  BY <1>1, WorkerTypeOK DEF IInv, TypeOK
<1>3. WorkerOK(w)
  BY DEF IInv
<1>4. WorkerOK(w)'
  BY <1>1, <1>3 DEF WorkerOK, Applied, row, Ats
<1> QED BY <1>1, <1>2, <1>4, WorkerStep, SameRowsNotUploaded

LEMMA MarkProcessingKeeps ==
  ASSUME IInv, NEW w \in Workers, MarkProcessing(w)
  PROVE  IInv'
<1>1. PICK i \in Imports : i = worker[w].import
  BY DEF IInv, TypeOK
<1>2. /\ worker' \in [Workers -> WorkerType]
      /\ worker'[w].at = "marked" /\ worker'[w].import = i
      /\ \A v \in Workers \ {w} : worker'[v] = worker[v]
  BY <1>1, GoesFacts DEF IInv, MarkProcessing, Ats
<1>3. status[i] # "none" /\ (worker[w].saw = "processing" => status[i] # "pending")
  BY <1>1 DEF IInv, WorkerOK, MarkProcessing
<1>4. /\ status' \in [Imports -> {"none", "pending", "processing"} \cup Ended]
      /\ \A j \in Imports \ {i} : status'[j] = status[j]
      /\ status'[i] = IF worker[w].saw = "processing" THEN status[i] ELSE "processing"
  BY <1>1 DEF IInv, TypeOK, MarkProcessing
<1>5. TypeOK'
  BY <1>2, <1>4 DEF MarkProcessing, IInv, TypeOK, queue, WorkerType, Ats
<1>6. Steady
  BY <1>3, <1>4 DEF Steady, MarkProcessing
<1>7. WorkerOK(w)'
  BY <1>2, <1>3, <1>4 DEF WorkerOK, Applied
<1>8. \A v \in Workers : WorkerOK(v)'
  BY <1>2, <1>6, <1>7, WorkersKeep
<1>9. \A j \in Imports : NotUploaded(j)'
  BY <1>3, <1>4 DEF IInv, NotUploaded, MarkProcessing, queue
<1>10. InvalidLeavesRunAlone' /\ CompletedHasSummary'
  BY <1>3, <1>4 DEF IInv, InvalidLeavesRunAlone, CompletedHasSummary, RunResult, MarkProcessing, Ended
<1> QED BY <1>5, <1>8, <1>9, <1>10 DEF IInv

LEMMA StartApplyKeeps ==
  ASSUME IInv, NEW w \in Workers, StartApply(w)
  PROVE  IInv'
<1>1. PICK x \in WorkerType : x = worker[w]
  BY DEF IInv, TypeOK, WorkerType, Ats
<1>2. PICK n \in 0 .. MaxAttempts :
        n = attempts[x.import] + 1 /\ n \in 1 .. MaxAttempts /\ x.import \in Imports
  <2>1. x.import \in Imports
    BY DEF WorkerType
  <2>2. PICK m \in 0 .. MaxAttempts : m = attempts[x.import] /\ m < MaxAttempts
    BY <1>1, <2>1 DEF IInv, TypeOK, StartApply
  <2> QED BY <2>1, <2>2, BoundsAreSensible
<1>3. PICK y \in WorkerType : y = [x EXCEPT !.at = "applying", !.n = n]
  BY <1>2 DEF WorkerType, Ats
<1>4. y.at = "applying" /\ y.n = n /\ y.import = x.import
  BY <1>3 DEF WorkerType
<1>5. /\ worker' \in [Workers -> WorkerType] /\ worker'[w] = y
      /\ \A v \in Workers \ {w} : worker'[v] = worker[v]
  <2>1. worker' = [worker EXCEPT ![w] = y]
    BY <1>1, <1>2, <1>3 DEF StartApply, IInv, TypeOK
  <2> QED BY <2>1, WorkerUpdate DEF IInv
<1>6. UNCHANGED << row, queue >> /\ status' = status /\ content' = content
  BY DEF StartApply, row
<1>7. /\ files' \in [Imports -> SUBSET Artifacts]
      /\ \A j \in Imports : files'[j] \subseteq files[j]
  BY <1>1, <1>2 DEF StartApply, IInv, TypeOK
<1>8. attempts' \in [Imports -> 0 .. MaxAttempts]
  <2>1. attempts' = [attempts EXCEPT ![x.import] = n]
    BY <1>1, <1>2 DEF StartApply
  <2> QED BY <1>2, <2>1 DEF IInv, TypeOK
<1>9. TypeOK'
  BY <1>5, <1>6, <1>7, <1>8 DEF IInv, TypeOK, row, queue, WorkerType, Ats
<1>10. WorkerOK(w)'
  <2>1. WorkerOK(w) /\ x.at = "marked" /\ content[x.import] # "invalid"
    BY <1>1 DEF IInv, StartApply
  <2>2. status[x.import] \notin {"none", "pending"}
    BY <1>1, <2>1 DEF WorkerOK
  <2> QED BY <1>2, <1>4, <1>5, <1>6, <2>1, <2>2 DEF WorkerOK, Applied
<1>11. \A v \in Workers : WorkerOK(v)'
  BY <1>5, <1>6, <1>10, WorkersKeep DEF Steady
<1>12. \A j \in Imports : NotUploaded(j)'
  BY <1>6, <1>7 DEF IInv, NotUploaded, row, queue
<1>13. InvalidLeavesRunAlone' /\ CompletedHasSummary'
  BY <1>6, <1>7 DEF IInv, InvalidLeavesRunAlone, CompletedHasSummary, RunResult, row
<1> QED BY <1>9, <1>11, <1>12, <1>13 DEF IInv

LEMMA SaveKeeps ==
  ASSUME IInv, NEW w \in Workers, NEW label \in {"summary", "errors"}, NEW at \in {"summary", "saved"},
         worker[w].at \in {"applying", "summary"}, Save(w, label, at),
         label # "summary" => worker[w].at = "summary"
  PROVE  IInv'
<1>1. PICK x \in WorkerType : x = worker[w]
  BY DEF IInv, TypeOK, WorkerType, Ats
<1>2. x.import \in Imports /\ x.n \in 1 .. MaxAttempts /\ content[x.import] # "invalid"
      /\ (x.at = "summary" => << x.n, "summary" >> \in x.own)
      /\ status[x.import] \notin {"none", "pending"}
  BY <1>1 DEF IInv, WorkerOK, Applied, WorkerType
<1>3. PICK a \in Artifacts : a = << x.n, label >>
  BY <1>2 DEF Artifacts
<1>4. PICK y \in WorkerType : y = [x EXCEPT !.at = at, !.own = x.own \cup {a}]
  BY DEF WorkerType, Ats
<1>5. y.at = at /\ y.n = x.n /\ y.import = x.import /\ y.own = x.own \cup {a}
  BY <1>4 DEF WorkerType
<1>6. /\ worker' \in [Workers -> WorkerType] /\ worker'[w] = y
      /\ \A v \in Workers \ {w} : worker'[v] = worker[v]
  <2>1. worker' = [worker EXCEPT ![w] = y]
    BY <1>1, <1>3, <1>4 DEF Save, IInv, TypeOK
  <2> QED BY <2>1, WorkerUpdate DEF IInv
<1>7. UNCHANGED << row, queue, attempts >> /\ status' = status /\ content' = content
  BY DEF Save, row
<1>8. /\ files' \in [Imports -> SUBSET Artifacts]
      /\ \A j \in Imports \ {x.import} : files'[j] = files[j]
  BY <1>1, <1>2, <1>3 DEF Save, IInv, TypeOK
<1>9. TypeOK'
  BY <1>6, <1>7, <1>8, WorkerTypeOK DEF IInv
<1>10. WorkerOK(w)'
  BY <1>1, <1>2, <1>3, <1>5, <1>6, <1>7 DEF WorkerOK, Applied
<1>11. \A v \in Workers : WorkerOK(v)'
  BY <1>6, <1>7, <1>10, WorkersKeep DEF Steady
<1>12. \A j \in Imports : NotUploaded(j)'
  BY <1>2, <1>7, <1>8 DEF IInv, NotUploaded, row, queue
<1>13. InvalidLeavesRunAlone' /\ CompletedHasSummary'
  BY <1>2, <1>7, <1>8 DEF IInv, InvalidLeavesRunAlone, CompletedHasSummary, RunResult, row
<1> QED BY <1>9, <1>11, <1>12, <1>13 DEF IInv

LEMMA WorkerFailsKeeps ==
  ASSUME IInv, NEW w \in Workers, WorkerFails(w)
  PROVE  IInv'
<1>1. /\ worker' \in [Workers -> WorkerType] /\ worker'[w] = Free
      /\ \A v \in Workers \ {w} : worker'[v] = worker[v]
  BY QuitsFacts DEF IInv, WorkerFails
<1>2. TypeOK'
  BY <1>1, WorkerTypeOK DEF IInv, TypeOK, WorkerFails
<1> QED BY <1>1, <1>2, FreeIsOK, WorkerStep, SameRowsNotUploaded DEF WorkerFails

\* The last commit of a worker: a result, or a failure with or without one.
LEMMA LastCommitKeeps ==
  ASSUME IInv, NEW w \in Workers, CommitApply(w) \/ RecordFailure(w)
  PROVE  IInv'
<1>1. PICK x \in WorkerType : x = worker[w]
  BY DEF IInv, TypeOK, WorkerType, Ats
<1>2. x.import \in Imports /\ x.own \subseteq Artifacts
      /\ (Applied(w) => x.n \in 1 .. MaxAttempts /\ content[x.import] # "invalid")
      /\ (x.at = "saved" => << x.n, "summary" >> \in x.own)
      /\ status[x.import] \notin {"none", "pending"}
  BY <1>1 DEF IInv, WorkerOK, WorkerType, CommitApply, RecordFailure
<1>3. /\ worker' \in [Workers -> WorkerType] /\ worker'[w] = Free
      /\ \A v \in Workers \ {w} : worker'[v] = worker[v]
      /\ UNCHANGED << content, queue, files, attempts >>
  BY QuitsFacts DEF IInv, CommitApply, RecordFailure
<1>4. /\ \A j \in Imports \ {x.import} :
             status'[j] = status[j] /\ run'[j] = run[j] /\ ready'[j] = ready[j]
      /\ status'[x.import] \in Ended
      /\ \/ /\ Applied(w) /\ run'[x.import] = RunResult(x.import)
            /\ ready'[x.import] = ready[x.import] \cup x.own
            /\ status'[x.import] \in {"completed", "partial"} => x.at = "saved"
         \/ /\ run'[x.import] = run[x.import] /\ ready'[x.import] = ready[x.import]
            /\ status'[x.import] = "failed"
      /\ status' \in [Imports -> {"none", "pending", "processing"} \cup Ended]
      /\ run' \in [Imports -> {"none", "running", "completed", "incomplete"}]
      /\ ready' \in [Imports -> SUBSET Artifacts]
  <2>1. CASE CommitApply(w)
    BY <1>1, <1>2, <2>1 DEF CommitApply, Applied, ImportResult, RunResult, Ended, IInv, TypeOK
  <2>2. CASE RecordFailure(w)
    <3>1. CASE Applied(w)
      <4>1. /\ status' = [status EXCEPT ![x.import] = "failed"]
            /\ run' = [run EXCEPT ![x.import] = RunResult(x.import)]
            /\ ready' = [ready EXCEPT ![x.import] = ready[x.import] \cup x.own]
        BY <1>1, <1>2, <2>2, <3>1 DEF RecordFailure
      <4>2. RunResult(x.import) \in {"completed", "incomplete"}
        BY DEF RunResult
      <4>3. ready[x.import] \cup x.own \in SUBSET Artifacts
        BY <1>2 DEF IInv, TypeOK
      <4> QED BY <1>2, <3>1, <4>1, <4>2, <4>3 DEF Ended, IInv, TypeOK
    <3>2. CASE ~Applied(w)
      BY <1>1, <1>2, <2>2, <3>2 DEF RecordFailure, Ended, IInv, TypeOK
    <3> QED BY <3>1, <3>2
  <2> QED BY <2>1, <2>2
<1>5. TypeOK'
  BY <1>3, <1>4 DEF IInv, TypeOK, queue, WorkerType, Ats
<1>6. Steady
  BY <1>3, <1>4 DEF Steady, Ended
<1>7. \A v \in Workers : WorkerOK(v)'
  BY <1>3, <1>6, FreeIsOK, WorkersKeep
<1>8. \A j \in Imports : NotUploaded(j)'
  BY <1>3, <1>4 DEF IInv, NotUploaded, queue, Ended
<1>9. InvalidLeavesRunAlone'
  BY <1>2, <1>3, <1>4 DEF IInv, InvalidLeavesRunAlone
<1>10. CompletedHasSummary'
  <2> SUFFICES ASSUME NEW j \in Imports, status'[j] \in {"completed", "partial"}
               PROVE  /\ run'[j] = RunResult(j)
                      /\ \E n \in 1 .. MaxAttempts : << n, "summary" >> \in ready'[j]
    BY <1>3 DEF CompletedHasSummary, RunResult
  <2>1. CASE j = x.import
    BY <1>2, <1>4, <2>1
  <2>2. CASE j # x.import
    BY <1>4, <2>2 DEF IInv, CompletedHasSummary
  <2> QED BY <2>1, <2>2
<1> QED BY <1>5, <1>7, <1>8, <1>9, <1>10 DEF IInv

-----------------------------------------------------------------------------
LEMMA InitIInv == Init => IInv
<1> SUFFICES ASSUME Init PROVE IInv
  OBVIOUS
<1>1. worker \in [Workers -> WorkerType] /\ \A w \in Workers : worker[w] = Free
  BY FreeType DEF Init
<1>2. TypeOK
  <2>1. 0 \in 0 .. MaxAttempts /\ 0 \in 0 .. MaxTriggers
    BY BoundsAreSensible
  <2> QED BY <1>1, <2>1 DEF Init, TypeOK, Contents, WorkerType, Ats
<1>3. \A w \in Workers : WorkerOK(w)
  BY <1>1, FreeType DEF WorkerOK, Applied
<1> QED BY <1>2, <1>3 DEF IInv, Init, NotUploaded, InvalidLeavesRunAlone, CompletedHasSummary

LEMMA GoOnStep ==
  ASSUME IInv, NEW w \in Workers, GoOn(w)
  PROVE  IInv'
<1>1. CASE MarkProcessing(w)
  BY <1>1, MarkProcessingKeeps
<1>2. CASE ParseFails(w) \/ StorageFails(w) \/ NoErrorsToSave(w)
  BY <1>2, GoOnKeeps DEF ParseFails, StorageFails, NoErrorsToSave, Applied, Ats
<1>3. CASE StartApply(w)
  BY <1>3, StartApplyKeeps
<1>4. CASE SaveSummary(w) \/ SaveErrors(w)
  BY <1>4, SaveKeeps DEF SaveSummary, SaveErrors
<1>5. CASE CommitApply(w) \/ RecordFailure(w)
  BY <1>5, LastCommitKeeps
<1> QED BY <1>1, <1>2, <1>3, <1>4, <1>5 DEF GoOn

LEMMA NextIInv == IInv /\ [Next]_vars => IInv'
<1> SUFFICES ASSUME IInv, [Next]_vars PROVE IInv'
  OBVIOUS
<1>1. CASE Request
  BY <1>1, CreateImportKeeps DEF Request
<1>2. CASE Work
  BY <1>2, ApiKeeps, GoOnStep, ReadImportKeeps DEF Work
<1>3. CASE Lifecycle
  BY <1>3, ApiKeeps DEF Lifecycle
<1>4. CASE Fault
  BY <1>4, ApiKeeps, WorkerFailsKeeps DEF Fault
<1>5. CASE UNCHANGED vars
  <2>1. TypeOK'
    BY <1>5 DEF vars, row, queue, IInv, TypeOK
  <2>2. \A i \in Imports : NotUploaded(i)'
    BY <1>5, SameRowsNotUploaded DEF vars
  <2> QED BY <1>5, <2>1, <2>2, QueueStep DEF vars
<1> QED BY <1>1, <1>2, <1>3, <1>4, <1>5 DEF Next

\* The invariant: what a worker is at agrees with the import's row, for any number
\* of workers at one import.
THEOREM IInvHolds == Spec => []IInv
BY InitIInv, NextIInv, PTL DEF Spec

\* Every variable keeps its type, for any number of imports and workers.
THEOREM TypeCorrect == Spec => []TypeOK
<1>1. IInv => TypeOK
  BY DEF IInv
<1> QED BY <1>1, IInvHolds, PTL

\* A source the parser rejects never changes its run, whoever is at it.
THEOREM InvalidSourcesChangeNothing == Spec => []InvalidLeavesRunAlone
<1>1. IInv => InvalidLeavesRunAlone
  BY DEF IInv
<1> QED BY <1>1, IInvHolds, PTL

\* A completed import has its run's result and a summary, even when two workers
\* have applied it and one of them failed.
THEOREM CompletedImportsHaveSummary == Spec => []CompletedHasSummary
<1>1. IInv => CompletedHasSummary
  BY DEF IInv
<1> QED BY <1>1, IInvHolds, PTL

-----------------------------------------------------------------------------
(* Nothing but a fault or a stop of the API makes a pending import forgotten. *)
\* A worker that goes on stays with its import until it has ended it.
LEMMA GoOnStays ==
  ASSUME IInv, NEW w \in Workers, GoOn(w)
  PROVE  /\ worker[w].at # "free" /\ UNCHANGED queue
         /\ \A v \in Workers \ {w} : worker'[v] = worker[v]
         /\ \A j \in Imports \ {worker[w].import} : status'[j] = status[j]
         /\ \/ worker'[w].at # "free" /\ worker'[w].import = worker[w].import
            \/ status'[worker[w].import] \in Ended
<1>1. PICK x \in WorkerType : x = worker[w]
  BY DEF IInv, TypeOK, WorkerType, Ats
<1>2. CASE MarkProcessing(w) \/ ParseFails(w) \/ StorageFails(w) \/ NoErrorsToSave(w)
  <2>1. PICK at \in Ats \ {"free"} : Goes(w, at)
    BY <1>2 DEF MarkProcessing, ParseFails, StorageFails, NoErrorsToSave, Ats
  <2>2. /\ worker'[w].at = at /\ worker'[w].import = worker[w].import
        /\ \A v \in Workers \ {w} : worker'[v] = worker[v]
    BY <2>1, GoesFacts DEF IInv
  <2> QED BY <1>2, <2>1, <2>2
      DEF MarkProcessing, ParseFails, StorageFails, NoErrorsToSave, row, IInv, TypeOK
<1>3. CASE StartApply(w)
  <2>1. worker' = [worker EXCEPT ![w] = [x EXCEPT !.at = "applying", !.n = attempts[x.import] + 1]]
    BY <1>1, <1>3 DEF StartApply, IInv, TypeOK
  <2> DEFINE y == [x EXCEPT !.at = "applying", !.n = attempts[x.import] + 1]
  <2>2. y.at = "applying" /\ y.import = x.import
    BY DEF WorkerType
  <2> HIDE DEF y
  <2>3. worker'[w] = y /\ \A v \in Workers \ {w} : worker'[v] = worker[v]
    BY <2>1 DEF y, IInv, TypeOK
  <2> QED BY <1>1, <1>3, <2>2, <2>3 DEF StartApply, row
<1>4. CASE SaveSummary(w) \/ SaveErrors(w)
  <2>1. PICK label \in {"summary", "errors"}, at \in {"summary", "saved"} :
          Save(w, label, at) /\ worker[w].at \in {"applying", "summary"}
    BY <1>4 DEF SaveSummary, SaveErrors
  <2>2. worker' = [worker EXCEPT ![w] = [x EXCEPT !.at = at, !.own = x.own \cup {<< x.n, label >>}]]
    BY <1>1, <2>1 DEF Save, IInv, TypeOK
  <2> DEFINE y == [x EXCEPT !.at = at, !.own = x.own \cup {<< x.n, label >>}]
  <2>3. y.at = at /\ y.import = x.import
    BY DEF WorkerType
  <2> HIDE DEF y
  <2>4. worker'[w] = y /\ \A v \in Workers \ {w} : worker'[v] = worker[v]
    BY <2>2 DEF y, IInv, TypeOK
  <2> QED BY <1>1, <2>1, <2>3, <2>4 DEF Save, row
<1>5. CASE CommitApply(w) \/ RecordFailure(w)
  <2>1. \A v \in Workers \ {w} : worker'[v] = worker[v]
    BY <1>5, QuitsFacts DEF IInv, CommitApply, RecordFailure
  <2>2. x.import \in Imports
    BY DEF WorkerType
  <2> QED BY <1>1, <1>5, <2>1, <2>2 DEF CommitApply, RecordFailure, ImportResult, Ended, IInv, TypeOK
<1> QED BY <1>2, <1>3, <1>4, <1>5 DEF GoOn

LEMMA NextForgets ==
  ASSUME IInv, [Next]_vars, ~Fault, ~ApiStops, NEW i \in Imports, Forgotten(i)'
  PROVE  Forgotten(i)
<1> USE DEF Forgotten, Busy
<1>1. CASE Request
  BY <1>1 DEF Request, CreateImport, IInv, TypeOK
<1>2. ASSUME NEW j \in Imports, RunCallback(j) \/ RecoverImport(j)
      PROVE  Forgotten(i)
  <2>1. j # i
    BY <1>2, EnqueueType DEF IInv, RunCallback, RecoverImport
  <2> QED BY <1>2, <2>1 DEF RunCallback, RecoverImport, Enqueue, IInv, TypeOK, row
<1>3. CASE RecoveryDone \/ ApiStarts
  BY <1>3 DEF RecoveryDone, ApiStarts, row
<1>4. ASSUME NEW w \in Workers, NEW j \in Imports, ReadImport(w, j)
      PROVE  Forgotten(i)
  <2>1. j # i \/ status[i] \in Ended
    <3> SUFFICES ASSUME j = i, status[i] \notin Ended PROVE FALSE
      OBVIOUS
    <3>1. worker'[w] = [Free EXCEPT !.at = "read", !.import = i, !.saw = status[i]]
      BY <1>4 DEF ReadImport, IInv, TypeOK
    <3>2. worker'[w].at = "read" /\ worker'[w].import = i
      BY <3>1 DEF Free
    <3> QED BY <3>2
  <2> QED BY <1>4, <2>1 DEF ReadImport, IInv, TypeOK, row, Ended
<1>5. ASSUME NEW w \in Workers, GoOn(w)
      PROVE  Forgotten(i)
  <2>1. worker[w].import # i
    BY <1>5, GoOnStays DEF Ended
  <2> QED BY <1>5, <2>1, GoOnStays DEF queue
<1>6. CASE UNCHANGED vars
  BY <1>6 DEF vars, row, queue
<1> QED BY <1>1, <1>2, <1>3, <1>4, <1>5, <1>6 DEF Next, Work, Lifecycle

\* With any number of workers and duplicate triggers, an accepted import is forgotten
\* before the next startup only after a fault or a stop of the API.
THEOREM ForgottenByFaults == Spec => ForgottenOnlyByFaults
<1>1. IInv /\ [Next]_vars =>
        [\A i \in Imports : ~Forgotten(i) /\ Forgotten(i)' => Fault \/ ApiStops]_vars
  BY NextForgets
<1> QED BY <1>1, IInvHolds, PTL DEF Spec, ForgottenOnlyByFaults

-----------------------------------------------------------------------------
(* What a single worker adds.  The trigger of a deployment with one worker  *)
(* finds the import either not ended or ended for good.                     *)
SoleWorker == \A v, w \in Workers : v = w

ArtifactsOf(n) == {<< n, "summary" >>, << n, "errors" >>}

SoleOK(w) ==
  LET t == worker[w] IN
  /\ t.at # "free" => status[t.import] \notin Ended
  /\ t.at \in {"free", "read", "marked"} => t.own = {}
  /\ t.own \subseteq ArtifactsOf(t.n) \cap files[t.import]

\* The artifacts of an import appear with its end, are of one application, and
\* have their files.
SoleRow(i) ==
  /\ status[i] \notin Ended => ready[i] = {}
  /\ \E n \in 0 .. MaxAttempts : ready[i] \subseteq ArtifactsOf(n)
  /\ ready[i] \subseteq files[i]

SoleIInv ==
  /\ IInv
  /\ \A w \in Workers : SoleOK(w)
  /\ \A i \in Imports : SoleRow(i)

LEMMA SoleQuiet ==
  ASSUME SoleIInv, IInv', UNCHANGED << worker, files, ready >>,
         \A i \in Imports : status'[i] \in Ended <=> status[i] \in Ended
  PROVE  SoleIInv'
<1>1. \A w \in Workers : worker[w].import \in Imports
  BY DEF SoleIInv, IInv, TypeOK
<1> QED BY <1>1 DEF SoleIInv, SoleOK, SoleRow

LEMMA FreeIsSole == ASSUME NEW w \in Workers, worker'[w] = Free PROVE SoleOK(w)'
BY FreeType DEF SoleOK

LEMMA SoleReads ==
  ASSUME SoleWorker, SoleIInv, IInv', NEW w \in Workers, NEW i \in Imports, ReadImport(w, i)
  PROVE  SoleIInv'
<1>1. TypeOK /\ UNCHANGED << status, ready, files >>
  BY DEF SoleIInv, IInv, ReadImport, row
<1>2. CASE status[i] \in Ended
  BY <1>1, <1>2, SoleQuiet DEF ReadImport
<1>3. CASE status[i] \notin Ended
  <2>1. PICK x \in WorkerType : x = Free /\ x.own = {}
    BY FreeType
  <2> DEFINE y == [x EXCEPT !.at = "read", !.import = i, !.saw = status[i]]
  <2>2. y.at = "read" /\ y.import = i /\ y.own = {}
    BY <2>1 DEF WorkerType
  <2> HIDE DEF y
  <2>3. worker'[w] = y
    BY <1>1, <1>3, <2>1 DEF y, ReadImport, TypeOK
  <2>4. SoleOK(w)'
    BY <1>1, <1>3, <2>2, <2>3 DEF SoleOK
  <2> QED BY <1>1, <2>4 DEF SoleWorker, SoleIInv, SoleRow
<1> QED BY <1>2, <1>3

\* The sole worker goes on with the import that it has, which has not ended.
LEMMA SoleGoesOn ==
  ASSUME SoleWorker, SoleIInv, IInv', NEW w \in Workers, NEW at \in Ats \ {"free", "read"},
         Goes(w, at), worker[w].at # "free", at = "marked" => worker[w].at = "read",
         UNCHANGED << files, ready >>,
         \A i \in Imports : status'[i] \in Ended <=> status[i] \in Ended
  PROVE  SoleIInv'
<1>1. /\ worker'[w].at = at /\ worker'[w].import = worker[w].import /\ worker'[w].n = worker[w].n
      /\ worker'[w].own = worker[w].own /\ worker[w].import \in Imports
  BY GoesFacts DEF SoleIInv, IInv, TypeOK
<1>2. SoleOK(w)'
  BY <1>1 DEF SoleIInv, SoleOK
<1> QED BY <1>2 DEF SoleWorker, SoleIInv, SoleRow

\* There are no artifacts yet whose files could be deleted.
LEMMA SoleStartsApply ==
  ASSUME SoleWorker, SoleIInv, IInv', NEW w \in Workers, StartApply(w)
  PROVE  SoleIInv'
<1>1. PICK x \in WorkerType : x = worker[w] /\ x.at = "marked" /\ x.own = {}
  BY DEF SoleIInv, SoleOK, IInv, TypeOK, WorkerType, Ats, StartApply
<1>2. x.import \in Imports /\ status[x.import] \notin Ended /\ ready[x.import] = {}
  BY <1>1 DEF SoleIInv, SoleOK, SoleRow, WorkerType
<1>3. TypeOK /\ UNCHANGED << status, ready >> /\ \A j \in Imports : files'[j] = files[j]
  <2>1. TypeOK /\ UNCHANGED << status, ready >>
    BY DEF StartApply, row, SoleIInv, IInv
  <2>2. files' = [files EXCEPT ![x.import] = files[x.import] \ {}]
    BY <1>1, <1>2 DEF StartApply
  <2>3. files[x.import] \ {} = files[x.import]
    OBVIOUS
  <2> QED BY <1>2, <2>1, <2>2, <2>3 DEF TypeOK
<1> DEFINE y == [x EXCEPT !.at = "applying", !.n = attempts[x.import] + 1]
<1>4. y.at = "applying" /\ y.import = x.import /\ y.own = {}
  BY <1>1 DEF WorkerType
<1>5. worker' = [worker EXCEPT ![w] = y]
  BY <1>1, <1>3 DEF StartApply, TypeOK
<1> HIDE DEF y
<1>6. worker'[w] = y
  BY <1>3, <1>5 DEF TypeOK
<1>7. SoleOK(w)'
  BY <1>2, <1>3, <1>4, <1>6 DEF SoleOK
<1> QED BY <1>3, <1>7 DEF SoleWorker, SoleIInv, SoleRow

LEMMA SoleSaves ==
  ASSUME SoleWorker, SoleIInv, IInv', NEW w \in Workers, NEW label \in {"summary", "errors"},
         NEW at \in {"summary", "saved"}, worker[w].at # "free", Save(w, label, at)
  PROVE  SoleIInv'
<1>1. PICK x \in WorkerType : x = worker[w]
  BY DEF SoleIInv, IInv, TypeOK, WorkerType, Ats
<1>2. /\ x.import \in Imports /\ status[x.import] \notin Ended
      /\ x.own \subseteq ArtifactsOf(x.n) \cap files[x.import]
  BY <1>1 DEF SoleIInv, SoleOK, WorkerType
<1>3. PICK a \in ArtifactsOf(x.n) : a = << x.n, label >>
  BY DEF ArtifactsOf
<1>4. UNCHANGED << status, ready >>
      /\ \A j \in Imports : files[j] \subseteq files'[j]
      /\ a \in files'[x.import]
  BY <1>1, <1>2, <1>3 DEF Save, row, SoleIInv, IInv, TypeOK
<1> DEFINE y == [x EXCEPT !.at = at, !.own = x.own \cup {a}]
<1>5. y.at = at /\ y.import = x.import /\ y.n = x.n /\ y.own = x.own \cup {a}
  BY DEF WorkerType
<1>6. worker' = [worker EXCEPT ![w] = y]
  BY <1>1, <1>3 DEF Save, SoleIInv, IInv, TypeOK
<1> HIDE DEF y
<1>7. worker'[w] = y
  BY <1>6 DEF SoleIInv, IInv, TypeOK
<1>8. SoleOK(w)'
  BY <1>2, <1>3, <1>4, <1>5, <1>7 DEF SoleOK
<1> QED BY <1>4, <1>8 DEF SoleWorker, SoleIInv, SoleRow

\* The last commit brings the artifacts of the one application with it.
LEMMA SoleCommits ==
  ASSUME SoleWorker, SoleIInv, IInv', NEW w \in Workers, CommitApply(w) \/ RecordFailure(w)
  PROVE  SoleIInv'
<1>1. PICK x \in WorkerType : x = worker[w] /\ x.at # "free"
  BY DEF SoleIInv, IInv, TypeOK, WorkerType, Ats, CommitApply, RecordFailure
<1>2. /\ x.import \in Imports /\ ready[x.import] = {} /\ x.n \in 0 .. MaxAttempts
      /\ x.own \subseteq ArtifactsOf(x.n) \cap files[x.import]
  BY <1>1 DEF SoleIInv, SoleOK, SoleRow, WorkerType
<1>3. /\ worker'[w] = Free /\ UNCHANGED files
      /\ \A j \in Imports \ {x.import} : status'[j] = status[j] /\ ready'[j] = ready[j]
      /\ status'[x.import] \in Ended
      /\ ready'[x.import] \subseteq x.own
  <2>1. TypeOK /\ worker'[w] = Free /\ UNCHANGED files
    BY QuitsFacts DEF CommitApply, RecordFailure, SoleIInv, IInv
  <2>2. CASE CommitApply(w)
    BY <1>1, <1>2, <2>1, <2>2 DEF CommitApply, ImportResult, Ended, TypeOK
  <2>3. CASE RecordFailure(w)
    <3>1. status' = [status EXCEPT ![x.import] = "failed"]
      BY <1>1, <2>3 DEF RecordFailure
    <3>2. ready' = ready \/ ready' = [ready EXCEPT ![x.import] = ready[x.import] \cup x.own]
      BY <1>1, <2>3 DEF RecordFailure
    <3>3. status'[x.import] \in Ended /\ \A j \in Imports \ {x.import} : status'[j] = status[j]
      BY <1>2, <2>1, <3>1 DEF Ended, TypeOK
    <3>4. /\ ready'[x.import] \subseteq x.own
          /\ \A j \in Imports \ {x.import} : ready'[j] = ready[j]
      <4>1. CASE ready' = ready
        BY <1>2, <4>1
      <4>2. CASE ready' = [ready EXCEPT ![x.import] = ready[x.import] \cup x.own]
        BY <1>2, <2>1, <4>2 DEF TypeOK
      <4> QED BY <3>2, <4>1, <4>2
    <3> QED BY <2>1, <3>3, <3>4
  <2> QED BY <2>1, <2>2, <2>3
<1>4. SoleRow(x.import)'
  BY <1>2, <1>3 DEF SoleRow
<1>5. \A j \in Imports : SoleRow(j)'
  BY <1>3, <1>4 DEF SoleIInv, SoleRow
<1>6. SoleOK(w)'
  BY <1>3, FreeIsSole
<1> QED BY <1>5, <1>6 DEF SoleWorker, SoleIInv

LEMMA NextSole == SoleWorker /\ SoleIInv /\ [Next]_vars => SoleIInv'
<1> SUFFICES ASSUME SoleWorker, SoleIInv, [Next]_vars PROVE SoleIInv'
  OBVIOUS
<1>0. IInv /\ IInv'
  BY NextIInv DEF SoleIInv
<1>1. CASE Request
  <2>1. \A i \in Imports : status'[i] \in Ended <=> status[i] \in Ended
    <3>1. PICK i \in Imports : status[i] = "none" /\ status' = [status EXCEPT ![i] = "pending"]
      BY <1>1 DEF Request, CreateImport
    <3>2. DOMAIN status = Imports
      BY <1>0 DEF IInv, TypeOK
    <3> QED BY <3>1, <3>2 DEF Ended
  <2>2. UNCHANGED << worker, files, ready >>
    BY <1>1 DEF Request, CreateImport
  <2> QED BY <1>0, <2>1, <2>2, SoleQuiet
<1>2. ASSUME NEW i \in Imports, RunCallback(i) \/ RecoverImport(i) \/ CallbackFails(i)
      PROVE  SoleIInv'
  BY <1>0, <1>2, SoleQuiet DEF RunCallback, RecoverImport, CallbackFails, row
<1>3. CASE RecoveryDone \/ Lifecycle
  BY <1>0, <1>3, SoleQuiet DEF RecoveryDone, Lifecycle, ApiStops, ApiStarts, row
<1>4. ASSUME NEW w \in Workers, NEW i \in Imports, ReadImport(w, i) PROVE SoleIInv'
  BY <1>0, <1>4, SoleReads
<1>5. ASSUME NEW w \in Workers, GoOn(w) PROVE SoleIInv'
  <2>1. CASE MarkProcessing(w)
    <3>1. \A i \in Imports : status'[i] \in Ended <=> status[i] \in Ended
      <4>1. worker[w].import \in Imports /\ status[worker[w].import] \notin Ended
        BY <1>0, <2>1 DEF IInv, TypeOK, SoleIInv, SoleOK, MarkProcessing
      <4> QED BY <1>0, <2>1, <4>1 DEF MarkProcessing, Ended, IInv, TypeOK
    <3> QED BY <1>0, <2>1, <3>1, SoleGoesOn DEF MarkProcessing, Ats
  <2>2. CASE ParseFails(w) \/ StorageFails(w) \/ NoErrorsToSave(w)
    BY <1>0, <2>2, SoleGoesOn DEF ParseFails, StorageFails, NoErrorsToSave, row, Ats
  <2>3. CASE StartApply(w)
    BY <1>0, <2>3, SoleStartsApply
  <2>4. CASE SaveSummary(w) \/ SaveErrors(w)
    BY <1>0, <2>4, SoleSaves DEF SaveSummary, SaveErrors
  <2>5. CASE CommitApply(w) \/ RecordFailure(w)
    BY <1>0, <2>5, SoleCommits
  <2> QED BY <1>5, <2>1, <2>2, <2>3, <2>4, <2>5 DEF GoOn
<1>6. ASSUME NEW w \in Workers, WorkerFails(w) PROVE SoleIInv'
  <2>1. worker'[w] = Free /\ UNCHANGED << status, ready, files >>
    BY <1>0, <1>6, QuitsFacts DEF IInv, WorkerFails, row
  <2> QED BY <1>0, <2>1, FreeIsSole DEF SoleWorker, SoleIInv, SoleRow
<1>7. CASE UNCHANGED vars
  BY <1>0, <1>7, SoleQuiet DEF vars, row
<1> QED BY <1>1, <1>2, <1>3, <1>4, <1>5, <1>6, <1>7 DEF Next, Work, Fault

LEMMA InitSole == Init => SoleIInv
<1> SUFFICES ASSUME Init PROVE SoleIInv
  OBVIOUS
<1>1. \A w \in Workers : SoleOK(w)
  BY FreeType DEF Init, SoleOK
<1>2. \A i \in Imports : SoleRow(i)
  BY BoundsAreSensible DEF Init, SoleRow, Ended
<1> QED BY <1>1, <1>2, InitIInv DEF SoleIInv

\* What a sole worker adds: it is only ever at an import that has not ended.
THEOREM SoleIInvHolds == ASSUME SoleWorker PROVE Spec => []SoleIInv
<1>1. SoleIInv /\ [Next]_vars => SoleIInv'
  BY NextSole
<1> QED BY <1>1, InitSole, PTL DEF Spec

\* With one worker an import is applied to its run at most once, however many
\* triggers it has, and whatever fails.
THEOREM SoleAppliesOnce == ASSUME SoleWorker PROVE Spec => []AppliedAtMostOnce
<1>1. SoleIInv => AppliedAtMostOnce
  <2> SUFFICES ASSUME SoleIInv, NEW i \in Imports
               PROVE  Cardinality({a[1] : a \in ready[i]}) <= 1
    BY DEF AppliedAtMostOnce
  <2>1. PICK n \in 0 .. MaxAttempts : ready[i] \subseteq ArtifactsOf(n)
    BY DEF SoleIInv, SoleRow
  <2>2. {a[1] : a \in ready[i]} = {} \/ {a[1] : a \in ready[i]} = {n}
    BY <2>1 DEF ArtifactsOf
  <2> QED BY <2>2, FS_EmptySet, FS_Singleton
<1> QED BY <1>1, SoleIInvHolds, PTL

\* With one worker every artifact that is offered for download has its file.
THEOREM SoleArtifactsHaveFiles == ASSUME SoleWorker PROVE Spec => []ReadyArtifactsHaveFiles
<1>1. SoleIInv => ReadyArtifactsHaveFiles
  BY DEF SoleIInv, SoleRow, ReadyArtifactsHaveFiles
<1> QED BY <1>1, SoleIInvHolds, PTL

\* With one worker nothing changes an import that has ended.
THEOREM SoleEndIsFinal == ASSUME SoleWorker PROVE Spec => EndedStaysEnded
<1>1. SoleIInv /\ [Next]_vars =>
        [\A i \in Imports : status[i] \in Ended =>
           << status[i], run[i], ready[i] >>' = << status[i], run[i], ready[i] >>]_vars
  <2> SUFFICES ASSUME SoleIInv, Next, NEW i \in Imports, status[i] \in Ended
               PROVE  status'[i] = status[i] /\ run'[i] = run[i] /\ ready'[i] = ready[i]
    OBVIOUS
  <2>1. CASE Request
    BY <2>1 DEF Request, CreateImport, Ended, SoleIInv, IInv, TypeOK
  <2>2. ASSUME NEW w \in Workers, GoOn(w)
        PROVE  status'[i] = status[i] /\ run'[i] = run[i] /\ ready'[i] = ready[i]
    <3>1. worker[w].import # i
      BY <2>2, GoOnStays DEF SoleIInv, SoleOK
    <3>2. TypeOK
      BY DEF SoleIInv, IInv
    <3>3. CASE MarkProcessing(w)
      BY <3>1, <3>2, <3>3 DEF MarkProcessing, TypeOK
    <3>4. CASE CommitApply(w)
      BY <3>1, <3>2, <3>4 DEF CommitApply, TypeOK
    <3>5. CASE RecordFailure(w)
      BY <3>1, <3>2, <3>5 DEF RecordFailure, TypeOK
    <3>6. CASE UNCHANGED row
      BY <3>6 DEF row
    <3> QED BY <2>2, <3>3, <3>4, <3>5, <3>6
        DEF GoOn, ParseFails, StartApply, SaveSummary, SaveErrors, Save, NoErrorsToSave, StorageFails
  <2>3. CASE UNCHANGED row
    BY <2>3 DEF row
  <2> QED BY <2>1, <2>2, <2>3
      DEF Next, Work, Lifecycle, Fault, RunCallback, RecoverImport, RecoveryDone, ReadImport,
          ApiStops, ApiStarts, CallbackFails, WorkerFails
<1> QED BY <1>1, SoleIInvHolds, PTL DEF Spec, EndedStaysEnded

-----------------------------------------------------------------------------
(* A sole worker keeps the contract of the queues: one try for an import.     *)

\* A run is untouched until the import ends, and by some failures also then.
RunFollows(i) ==
  /\ status[i] = "none" => run[i] = "none"
  /\ status[i] \in {"pending", "processing"} => run[i] = "running"

ContractIInv == SoleIInv /\ \A i \in Imports : RunFollows(i)

\* What a sole worker does to an import's status and run, in contract steps.
SameForContract(i) == status'[i] = status[i] /\ run'[i] = run[i]
Submitted(i) == status[i] = "none" /\ status'[i] = "pending" /\ run'[i] = "running"
Taken(i) == status[i] = "pending" /\ status'[i] = "processing" /\ run'[i] = run[i]
GivenUp(i) == status[i] = "processing" /\ status'[i] = "failed" /\ run'[i] = run[i]
Performed(i) ==
  status[i] = "processing" /\ status'[i] \in Ended /\ run'[i] \in {"completed", "incomplete"}

\* Every step is one of these for one import and nothing for the others.
LEMMA SoleSteps ==
  ASSUME SoleWorker, ContractIInv, [Next]_vars
  PROVE  \/ \A i \in Imports : SameForContract(i)
         \/ \E i \in Imports :
              /\ Submitted(i) \/ Taken(i) \/ GivenUp(i) \/ Performed(i)
              /\ \A j \in Imports \ {i} : SameForContract(j)
<1> USE DEF SameForContract
<1>0. TypeOK /\ IInv /\ SoleIInv
  BY DEF ContractIInv, SoleIInv, IInv
<1>1. CASE UNCHANGED << status, run >>
  BY <1>1
<1>2. CASE Request
  BY <1>0, <1>2 DEF Request, CreateImport, Submitted, TypeOK
<1>3. ASSUME NEW w \in Workers, MarkProcessing(w) \/ CommitApply(w) \/ RecordFailure(w)
      PROVE  \/ \A i \in Imports : SameForContract(i)
             \/ \E i \in Imports :
                  /\ Submitted(i) \/ Taken(i) \/ GivenUp(i) \/ Performed(i)
                  /\ \A j \in Imports \ {i} : SameForContract(j)
  <2>1. PICK i \in Imports : i = worker[w].import
    BY <1>0 DEF TypeOK
  <2>2. status[i] \in {"pending", "processing"}
    BY <1>0, <1>3, <2>1 DEF SoleIInv, SoleOK, IInv, WorkerOK, TypeOK,
                            MarkProcessing, CommitApply, RecordFailure
  <2>3. CASE MarkProcessing(w)
    <3>1. run' = run /\ (status' = status \/ status' = [status EXCEPT ![i] = "processing"])
      BY <2>1, <2>3 DEF MarkProcessing
    <3> QED BY <1>0, <2>2, <3>1 DEF Taken, TypeOK
  <2>4. CASE CommitApply(w) \/ RecordFailure(w)
    <3>1. status[i] = "processing"
      BY <1>0, <2>1, <2>2, <2>4 DEF IInv, WorkerOK, CommitApply, RecordFailure
    <3>2. RunResult(i) \in {"completed", "incomplete"} /\ ImportResult(i) \in Ended
      BY DEF RunResult, ImportResult, Ended
    <3>3. CASE CommitApply(w)
      BY <1>0, <2>1, <3>1, <3>2, <3>3 DEF CommitApply, Performed, TypeOK
    <3>4. CASE RecordFailure(w)
      <4>1. /\ status' = [status EXCEPT ![i] = "failed"]
            /\ run' = run \/ run' = [run EXCEPT ![i] = RunResult(i)]
        BY <2>1, <3>4 DEF RecordFailure
      <4> QED BY <1>0, <3>1, <3>2, <4>1 DEF GivenUp, Performed, Ended, TypeOK
    <3> QED BY <2>4, <3>3, <3>4
  <2> QED BY <1>3, <2>3, <2>4
<1>4. CASE Next /\ ~Request /\ ~\E w \in Workers : MarkProcessing(w) \/ CommitApply(w) \/ RecordFailure(w)
  <2>1. UNCHANGED row
    BY <1>4 DEF Next, Work, Lifecycle, Fault, GoOn, RunCallback, RecoverImport, RecoveryDone,
        ReadImport, ApiStops, ApiStarts, CallbackFails, WorkerFails, ParseFails, StartApply,
        SaveSummary, SaveErrors, Save, NoErrorsToSave, StorageFails
  <2> QED BY <1>1, <2>1 DEF row
<1> QED BY <1>1, <1>2, <1>3, <1>4 DEF vars, row

LEMMA NextContractIInv == SoleWorker /\ ContractIInv /\ [Next]_vars => ContractIInv'
<1> SUFFICES ASSUME SoleWorker, ContractIInv, [Next]_vars PROVE ContractIInv'
  OBVIOUS
<1>1. SoleIInv'
  BY NextSole DEF ContractIInv
<1>2. \A i \in Imports : RunFollows(i)'
  BY SoleSteps DEF ContractIInv, RunFollows, SameForContract, Submitted, Taken, GivenUp,
                   Performed, Ended
<1> QED BY <1>1, <1>2 DEF ContractIInv

\* Each of these steps in terms of the contract.
LEMMA SubmittedStep ==
  ASSUME NEW i \in Imports, Submitted(i), RunFollows(i),
         \A j \in Imports \ {i} : SameForContract(j)
  PROVE  Contract!Submit({i})
<1> USE DEF SameForContract, Submitted, RunFollows, ContractState, RunChanged
<1>1. \A j \in Imports : ContractState(j)' = IF j = i THEN "queued" ELSE ContractState(j)
  OBVIOUS
<1>2. \A j \in Imports : RunChanged(j)' <=> RunChanged(j)
  OBVIOUS
<1>3. ContractState(i) = "none"
  OBVIOUS
<1> QED BY <1>1, <1>2, <1>3 DEF Contract!Submit

LEMMA TakenStep ==
  ASSUME NEW i \in Imports, Taken(i), RunFollows(i),
         \A j \in Imports \ {i} : SameForContract(j)
  PROVE  Contract!Take(i)
<1> USE DEF SameForContract, Taken, RunFollows, ContractState, RunChanged
<1>1. \A j \in Imports : ContractState(j)' = IF j = i THEN "active" ELSE ContractState(j)
  OBVIOUS
<1>2. \A j \in Imports : RunChanged(j)' <=> RunChanged(j)
  OBVIOUS
<1>3. ContractState(i) = "queued"
  OBVIOUS
<1> QED BY <1>1, <1>2, <1>3 DEF Contract!Take

LEMMA GivenUpStep ==
  ASSUME NEW i \in Imports, GivenUp(i), RunFollows(i),
         \A j \in Imports \ {i} : SameForContract(j)
  PROVE  Contract!Fail(i)
<1> DEFINE T == [j \in Imports |-> IF ContractState(j) = "dead" THEN 1 ELSE 0]
           S == [j \in Imports |-> ContractState(j)]
           E == [j \in Imports |-> IF RunChanged(j) THEN 1 ELSE 0]
<1>1. \A j \in Imports : ContractState(j)' = IF j = i THEN "dead" ELSE ContractState(j)
  BY DEF SameForContract, GivenUp, RunFollows, ContractState, RunChanged
<1>2. \A j \in Imports : RunChanged(j)' <=> RunChanged(j)
  BY DEF SameForContract, GivenUp, RunChanged
<1>3. ContractState(i) = "active"
  BY DEF GivenUp, RunFollows, ContractState, RunChanged
<1>4. S[i] = "active" /\ T[i] = 0
  BY <1>3
<1>5. T' = [T EXCEPT ![i] = T[i] + 1]
  <2>1. T' = [T EXCEPT ![i] = 1]
    BY <1>1
  <2>2. T[i] + 1 = 1
    BY <1>4
  <2> QED BY <2>1, <2>2, Zenon
<1>6. S' = [S EXCEPT ![i] = IF T[i] + 1 < 1 THEN "queued" ELSE "dead"]
  <2>1. S' = [S EXCEPT ![i] = "dead"]
    BY <1>1
  <2>2. (IF T[i] + 1 < 1 THEN "queued" ELSE "dead") = "dead"
    BY <1>4
  <2> QED BY <2>1, <2>2, Zenon
<1>7. E' = E
  BY <1>2
<1> QED BY <1>4, <1>5, <1>6, <1>7, Zenon DEF Contract!Fail

LEMMA PerformedStep ==
  ASSUME NEW i \in Imports, Performed(i), RunFollows(i),
         \A j \in Imports \ {i} : SameForContract(j)
  PROVE  Contract!PerformAndFinish(i)
<1> DEFINE T == [j \in Imports |-> IF ContractState(j) = "dead" THEN 1 ELSE 0]
           S == [j \in Imports |-> ContractState(j)]
           E == [j \in Imports |-> IF RunChanged(j) THEN 1 ELSE 0]
<1>1. \A j \in Imports : ContractState(j)' = IF j = i THEN "done" ELSE ContractState(j)
  BY DEF SameForContract, Performed, RunFollows, ContractState, RunChanged
<1>2. \A j \in Imports : RunChanged(j)' <=> (j = i \/ RunChanged(j))
  BY DEF SameForContract, Performed, RunChanged
<1>3. ContractState(i) = "active" /\ ~RunChanged(i)
  BY DEF Performed, RunFollows, ContractState, RunChanged
<1>4. S[i] = "active" /\ T[i] = 0 /\ E[i] = 0
  BY <1>3
<1>5. E' = [E EXCEPT ![i] = E[i] + 1]
  <2>1. E' = [E EXCEPT ![i] = 1]
    BY <1>2
  <2>2. E[i] + 1 = 1
    BY <1>4
  <2> QED BY <2>1, <2>2, Zenon
<1>6. S' = [S EXCEPT ![i] = "done"]
  BY <1>1
<1>7. T' = T
  BY <1>1, <1>3
<1>8. E[i] <= T[i]
  BY <1>4
<1> QED BY <1>4, <1>5, <1>6, <1>7, <1>8, Zenon DEF Contract!PerformAndFinish

\* With one worker, for any number of imports: although an import is never
\* claimed, with its duplicate triggers, crashes and restarts it does what the
\* contract of the queues says: one try, in which its run is changed at most
\* once, and no step after it has ended.
THEOREM SoleKeepsTheContract == ASSUME SoleWorker PROVE Spec => KeepsContract
<1>1. Init => Contract!Init /\ ContractIInv
  <2> SUFFICES ASSUME Init PROVE Contract!Init /\ ContractIInv
    OBVIOUS
  <2>1. \A i \in Imports : RunFollows(i)
    BY DEF Init, RunFollows
  <2>2. \A i \in Imports : ContractState(i) = "none" /\ ~RunChanged(i)
    BY DEF Init, ContractState, RunChanged
  <2> QED BY <2>1, <2>2, InitSole DEF ContractIInv, Contract!Init
<1>2. ContractIInv /\ [Next]_vars => [Contract!Next]_(Contract!contractVars)
  <2> SUFFICES ASSUME ContractIInv, [Next]_vars
               PROVE  [Contract!Next]_(Contract!contractVars)
    OBVIOUS
  <2>1. CASE \A i \in Imports : SameForContract(i)
    <3>1. \A i \in Imports : /\ ContractState(i)' = ContractState(i)
                             /\ RunChanged(i)' <=> RunChanged(i)
      BY <2>1 DEF SameForContract, ContractState, RunChanged
    <3> QED BY <3>1 DEF Contract!contractVars
  <2>2. ASSUME NEW i \in Imports,
               Submitted(i) \/ Taken(i) \/ GivenUp(i) \/ Performed(i),
               \A j \in Imports \ {i} : SameForContract(j)
        PROVE  Contract!Next
    <3>1. RunFollows(i) /\ {i} \in SUBSET Imports
      BY DEF ContractIInv
    <3>2. \/ Contract!Submit({i}) \/ Contract!Take(i) \/ Contract!Fail(i)
          \/ Contract!PerformAndFinish(i)
      BY <2>2, <3>1, SubmittedStep, TakenStep, GivenUpStep, PerformedStep
    <3> QED BY <3>1, <3>2 DEF Contract!Next
  <2> QED BY <2>1, <2>2, SoleSteps
<1>3. ContractIInv /\ [Next]_vars => ContractIInv'
  BY NextContractIInv
<1> QED BY <1>1, <1>2, <1>3, PTL DEF Spec, KeepsContract, Contract!Spec
=============================================================================
