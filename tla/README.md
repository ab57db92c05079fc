# Karvio, specified in TLA+

Karvio is a test management service: a FastAPI backend on PostgreSQL
(`src/backend/app`), a procrastinate worker process, and a web client
(`src/ui`). This directory specifies the parts of the backend where several
requests, a worker and a restart meet, and the parts of the web client where a
user's clicks, requests on their way and cached answers meet. It checks them with
TLC on small instances, and proves the central results with TLAPS for instances
of every size.

Paths below are relative to `src/backend/app/` unless they begin with `src/`.

## 1. The system

### Processes and what they share

| process | what it does | state it loses when it ends |
| --- | --- | --- |
| API (`main.py`, uvicorn) | one database transaction per request (`db/session.py`), callbacks after the commit, recovery of queues at startup (`core/queue_recovery.py`) | callbacks not yet run, recovery not yet finished |
| worker (`core/queue.py`, `*/tasks.py`) | fetches procrastinate jobs; in `src/docker-compose.yml:58` one process that runs one job at a time, more are possible | the job it is on |
| PostgreSQL | rows of all modules and procrastinate's own jobs table | nothing that was committed |
| storage | attachment and artifact files, outside any transaction | nothing |
| browser tab (`src/ui/src`) | local state of the page, a query cache, GETs on their way; mutations are sent once and never retried | all of it |
| Jira | issues of the project; an issue that is created stays, whatever becomes of the request that made it | nothing |

Three facts about sessions shape every model here. Transactions run at READ
COMMITTED, so each query sees what is committed when it starts. Hardly any row
is read `FOR UPDATE`: only the claim of a queue row is. An ORM object keeps the
attributes it was loaded with as long as something refers to it, and an update
names only the columns whose value differs from the one loaded.

Three facts about the client shape the models of it. A GET of a path that is
already on its way is not sent again: whoever asks for it shares the answer
(`src/ui/src/shared/api/client.ts:88`). Data are stale at once (`staleTime` 0) and
a query is refetched when a mutation invalidates it, twice retried when it fails.
JavaScript runs one handler at a time, but between two `await`s everything that
arrived in the meantime runs, with the state each handler closed over when it was
created.

### Inventory

| component | state | operations | hard behaviour | what makes it correct |
| --- | --- | --- | --- | --- |
| Notification queue (`modules/notifications`) | `notification_queue`: status, attempts, `next_retry_at` | queue on completion of a run, claim, send, retry, dead-letter, recover | duplicate triggers, a worker that dies between sending and committing, retry triggers against the back-off, a startup in the middle | exclusive claims, bounded sends, a pending row is not forgotten |
| Audit queue and log (`modules/audit`) | `audit_log_queue`, `audit_logs` | queue with the change it describes, process, retention cleanup | the same, without an external effect | log and queue agree, cleanup removes no work |
| Request transaction and callbacks (`db/session.py`) | one session, its callback list | commit, rollback, run callbacks | the process ends between commit and callback | no row without a trigger, but for that |
| Startup recovery (`core/queue_recovery.py`) | ids read once | enqueue each pending row | rows that change while it goes through them | every pending row gets a trigger that helps |
| Test runs (`modules/test_runs`) | run status, run cases with aggregates, rows, history | add, update, rerun and delete cases; start, complete, archive, delete the run | overlapping requests on one case or on the run | aggregates follow rows, outcomes are kept, a closed run stays as it is |
| Performance imports (`modules/performance`) | import status, run status, artifact rows, files | upload, process, save artifacts, fail, recover | imports are not claimed; files and rows are written at different times | applied once, rows have files, failures leave the run alone |
| Test suites (`modules/test_cases`) | `suites.parent_id` | create, patch, move, delete | checks walk the tree query by query while others move suites | a forest, four levels at most, a deletion takes exactly the subtree |
| Datasets and bindings | revisions, rows, bindings to test cases | patch creates a revision, bindings follow the latest or pin one | revision numbers from a stale read, a pin without its revision | bindings resolve, revisions are immutable |
| Report import | writes runs, rows, cases and suites | match, apply, create | it is a second writer of rows that testers edit | recorded outcomes survive |
| Performance baselines and comparisons | tagged run per load kind | tag, resolve | two tags at once | at most one tagged baseline |
| Attachments | rows and files | save, delete, clean up with owners | file operations before the commit | a row has its file |
| Environments | revisions of a snapshot | patch, create revision | stale snapshot merged | one current revision |
| Products and components | dependency graph, risk scores | replace dependencies | two changes close a cycle | the graph is acyclic |
| Projects, members, users | roles, protected defaults | add, change, remove | a stale role check | defaults stay |
| Filing results in Jira (`src/ui/src/modules/test-runs/hooks`, `modules/integrations/jira`) | results, links with idempotency keys, issues in Jira | patch the rows of the chosen cases, create one issue for them, link it to each; link and unlink by hand | a second click on a form that stays enabled, an external effect before the commit, some rows that fail | one issue for one key, no issue without a link, no second issue |
| API client and query cache (`src/ui/src/shared/api`) | GETs on their way, data, errors and retries of each query | fetch in two phases, join, retry, give up, invalidate, put data, forget | an answer older than the write the cache was told of | what is shown is at least as new as what was written here |
| Test case page (`src/ui/src/modules/test-cases`) | mode, fields, snapshot for Cancel, save and transfers under way | open, edit, Save (PATCH, then PUT of the steps), Cancel, upload and delete attachments, archive, link | answers, setters, the copying effect and typing in any order; Cancel deletes files by comparison with an old snapshot | after a save the page shows what the server has; saved files stay; saving ends |
| Authentication | users, identities, API keys, sessions | password, LDAP and OIDC login | first logins at once | one user per identity |
| Test plans, milestones, reports, AI assistance, exports, system, the other pages of the UI | independent rows or none | create, read, update, delete | none that spans requests | - |

Components interact in three ways. Services call each other inside one
transaction (a run that completes queues notifications; every change queues an
audit event). After the commit, callbacks enqueue triggers. A trigger holds only
a row's id: what is to be done is always read from the row. The client sees the
backend only through the HTTP API; its pages share nothing but the query cache.

## 2. Modules

| module | models | composes |
| --- | --- | --- |
| `WorkContract` | abstract specification: work is tried at most `MaxAttempts` times, each try has its effect at most once, what is finished or given up is left alone | - |
| `JobQueue` | rows, triggers, claims, back-off, callbacks, startup, workers, time: all that the two queues share | - |
| `NotificationQueue` | sending and its failures | extends `JobQueue`; implements `WorkContract` |
| `AuditQueue` | writing the log with the row, retention cleanup | extends `JobQueue`; implements `WorkContract` |
| `RunExecution` | one run, its cases, rows, aggregates, history and concurrent requests | - |
| `PerformanceImport` | upload, trigger, worker, artifacts and files, recovery | with one worker implements `WorkContract` |
| `SuiteForest` | abstract specification: a suite is created, moved or deleted in one step, where there is room and not below itself, and a deletion takes its subtree | - |
| `SuiteTree` | moves, creations and deletions that walk the tree one query at a time | extends `SuiteForest`, whose steps its commits are; implements it for requests one at a time |
| `QueryCache` | the query cache and `apiRequest`: GETs that are joined, two-phase query functions, retries, invalidation | - |
| `CaseEditor` | the page of one test case, with the other users and the backend it talks to | extends `QueryCache`; its steps are steps of the cache |
| `JiraFiling` | recording failures with an issue for them: browser, backend, Jira | - |
| `WebClient` | both pages side by side | extends `CaseEditor`, `JiraFiling` |
| `MC*` | constants and symmetry for TLC | the module they name |
| `JobQueueProofs`, `NotificationQueueProofs`, `AuditQueueProofs`, `RunExecutionProofs`, `PerformanceImportProofs`, `SuiteTreeProofs`, `QueryCacheProofs` | proofs | the module they name |
| `WebClientProofs` | proofs about both pages | extends `WebClient`, `QueryCacheProofs` |

### How state and actions correspond to the code

**JobQueue.** `row` is the queue table; `wait` is the time until `next_retry_at`
in ticks, so no clock is needed. `jobs` is procrastinate's table as the code uses
it: an entry id and a delay. A worker's `pc` names the place in
`process_next_*_entry` it has reached: "locked" between the `SELECT ... FOR
UPDATE SKIP LOCKED` and the commit of "processing", "claimed" after it, "worked"
when the work is done, "failed" in the except branch, "retry" before the retry
trigger is enqueued. `AbortJob` ends a job at any of these places: the process
dies, or an exception leaves the handler. `CommitRequest` takes a set of rows and
the callbacks that will enqueue them: the report of a run queues all its
channels in one callback, each audit event has its own.

**RunExecution.** A request is an entry of `tx`. Its first reads are one step
(`Begin`), its flush another (`FlushRows`, which locks the rows it writes and
then counts what it sees), its commit the last. `UpdateChanged` is SQLAlchemy's
update of changed columns. `alone` and `sawOpen` are history variables: nothing
in the model depends on them, only properties do. Rerunning appends rows after
the highest row order read; it takes as many as there were rows chosen, which are
rows of the case (`modules/test_runs/services/run_cases.py:664`), so never more than
the case had. The unique constraint makes `RowOrderTaken` the
outcome when another request was first. Deleting a case or a run loads its
history records or run cases (`LoadHistory`, `LoadItems`) and fails when there
are any, because the ORM tries to set their foreign key to NULL, which the tables
refuse (`modules/test_runs/models.py:76`, `:149`). What comes between that load and
the commit goes with the case or the run, by ON DELETE CASCADE (`:86`, `:273`), and
requests that had read it fail.

**PerformanceImport.** `worker[w].at` follows `_process_import_item` and
`apply_import_payload`. `ready` are artifact rows that offer a download, `files`
what is in storage. `db.delete(artifact)` is not awaited (`apply_import.py:156`),
so a second application deletes files and leaves rows. The failure handler
commits without a rollback, so a failure after `apply` has changed the session
commits those changes too.

**SuiteTree.** A request's `phase` is the loop it is in: "parent" and "cycle" in
`_validate_suite_parent`, "depth" in `_get_suite_depth`, "collect" in
`_get_suite_ids_to_delete_order`, "write" when only the commit is left. `kept`
holds the objects that local variables still refer to; a fetch of one of them
gives the parent it was loaded with, any other fetch what is committed now.
A flush and the commit after it are one step: what happens in between is
invisible to others, and row locks keep it valid. A deletion that meets a suite
again lists it again, as the code does; where the tree has a cycle it would go on
for ever, and the request is then refused (`ListChildren`). `SuiteForest` has the same
variable `tree`, so no refinement mapping is needed; its `Lineage` of a suite is
the least set of suites that holds the suite and its members' parents, and what
the two loops of `_validate_suite_parent` compute is compared with it. `others` is
history: which kinds of request changed the tree while this one was open.

**QueryCache.** A path's content is a version number, since only its age matters.
`wire[p]` is the entry of `inflightGetRequests` for the path: "sent" until the
backend has read what it will answer, "answered" until the answer is handled.
`fetch[q]` is the query's current fetch: what the phase it is in still waits for,
what has arrived, attempts, and whether it may retry (React Query stops retrying
when the last observer goes). `zombies[q]` are fetches that a later one replaced
while they were in the first phase: their function runs on and will send the GETs
of the second phase, which others may join. A refetch gives up a fetch only if
there are data to show; otherwise it takes the one on its way for its own. `told`
and `clean` are history: the version a mutation last told the query of, and
whether any GET sent before that can still reach it.

**CaseEditor.** `page.pending` says that the query's data have changed and the
effect that copies them (`syncQueryToState`) has still to run: effects run before
the next click is handled, which is why `Ready` asks for `~pending`. A field that
holds `Typed` differs from whatever the server sent. `save` holds what
`handleSave` closed over at the click (`changed`, `steps`, `files`), what came
back (`row`), and where it stands: "patch", "patched", "acked", "put", "stored",
"refetching" (it awaits the invalidation, and thereby the refetch). `awaits` says
whether that refetch is still the current one: React Query resolves the promise
of a fetch it has given up. `mine` becomes FALSE when the page unmounts: setters
then do nothing, but `setMode` still navigates, so a save that ends after the
user has left takes the user back. `rowAt` and `filesAt` say what the versions of
a path contain. `IsSaving` is the state of the page instance that clicked Save, so
on a page that was left and opened again Cancel works while the old save goes on;
that a second save could be clicked there as well is cut off by a bound
(`OneSave`), since there is one save record. `hist.kept` are the files the case had
at first or at the click of the last save that succeeded; it outlives visits.

**JiraFiling.** A submission's `todo` are the cases whose rows are still to be
patched, later those still to be linked; `done` those whose rows were patched,
which make up the key. The backend's client sends the POST again after 429, 500,
502, 503 and 504 (`modules/integrations/jira/clients/api.py:135`), whether Jira
has acted or not: `PostAgain` may leave an issue in state "repeated" and the
filing goes on. `LookUp` is the search for a link of the case, `LinkCase` the
insert after it, which does not look again. `rows` are links inserted by a
transaction that has not ended: another's conflicting insert waits for it and is
refused if it commits, and PostgreSQL ends one of two that wait for each other.
`issues[i].state` says how the filing that made the issue went. `touched`,
`rivals` and `linked` are history.

## 3. Properties and runs

| run | expects | question | size |
| --- | --- | --- | --- |
| `notification_safety` | pass | who may work on a row, how often does a message leave, when is a trigger lost, does everything get settled in the end | 1 row, 2 workers, 3 jobs waiting, 3 attempts, delays cut to whole seconds |
| `notification_recovery` | violation | does one startup suffice | 1 row, 1 worker, 2 attempts, the real cap of 300 s |
| `audit_safety` | pass | do log and queue agree, does the cleanup spare work, does a stranded row stay | 2 rows, 2 workers, 3 attempts |
| `run_execution` | pass | what survives any interleaving, what holds for a request alone | 1 case, 3 rows, 2 requests, 3 outcomes |
| `run_stale_aggregate` | violation | is the aggregate always the roll-up | 2 rows |
| `run_closed_in_progress` | violation | can a completed run have a row in progress | 2 rows |
| `imports` | pass | is an import applied once, do artifacts have files, does every import end | 1 import, 1 worker, 2 triggers, 3 attempts |
| `import_twice` | violation | the same with a second worker | 2 workers |
| `suites` | pass | what do the walks guarantee while others change the tree | 4 suites, 2 requests at a time, 3 in all, 3 levels |
| `suite_depth` | violation | is nesting limited | 5 suites, 1 request, 4 levels |
| `web_client` | pass | what may a user rely on in the browser: own writes are read, saving ends, an issue is neither made twice nor lost without a reason | 1 query of 3 GETs, 2 files, 3 attempts of a fetch, up to 2 saves; 2 clicks at a time, 3 in all, 3 cases, 3 forms, 2 requests to Jira |
| `cancel_deletes` | violation | does Cancel spare the files the case has | the same |

What the runs show:

- **Queues.** Claims are exclusive whatever duplicates exist
  (`ClaimsAreExclusive`), and a message leaves at most `max_attempts` times, also
  when a worker dies between sending and committing (`SendsWithinBudget`). A row
  whose worker died stays as it is: it is neither sent again nor sent later
  (`StrandedStays`, for both queues). A pending row loses its last trigger only by
  a fault, a stop of the API, or a trigger that comes before the row is due
  (`TriggerLostOnlyByComingEarly`); the last really happens, since the retry delay
  is truncated to whole seconds (`modules/notifications/services/queue.py:201`).
  Both queues implement `WorkContract` (`KeepsContract`).
- **Runs.** Rows of a case are numbered without gaps and outcomes are never lost
  to a rerun, for any interleaving (`RowsAreConsecutive`, `OutcomesAreKept`). A
  closed run has been reported, and once the requests that saw it open have
  ended nothing changes its evidence (`ClosedRunsAreReported`,
  `ClosedEvidenceIsFrozen`). What a request promises about aggregates,
  completion and the order of statuses holds when it overlaps with no other
  (`Alone...`), whatever earlier races have left behind; with overlap it does not,
  as two violation runs show.
- **Imports.** In the shipped deployment of one worker an import is applied at
  most once (`AppliedAtMostOnce`), every artifact offered has its file
  (`ReadyArtifactsHaveFiles`), a completed import has its summary, and a source
  that cannot be parsed leaves its run alone. It implements `WorkContract` with a
  single try whose effect is the change of the run (`KeepsContract`). A failure that
  commits what the application had put into the session counts as done there,
  since its run has been changed. With two workers the first two fail, and so does
  the contract.
- **Suites.** A cycle can only be closed by a move that overlapped another
  committed move (`CyclesNeedOverlappingMoves`); creations and deletions never
  invalidate a move's walk. Although the checks read the tree level by level, a
  commit is one step of `SuiteForest` on the tree it finds: a creation or a move
  that no committed move overlapped, whatever was created or deleted meanwhile,
  and a deletion during which the tree did not change (`CommitsAreAtomic`). No
  creation and no deletion takes a suite beyond the limit; a move takes there only
  what lies below the suite it moves (`OnlyMovesExceedLimit`). When two moves do
  overlap, a cycle is possible, and `_get_suite_depth`, which does not remember
  where it has been, then never returns.
- **Query cache.** A query that was told of a write while none of its GETs was on
  its way shows at least that version once it has settled (`ReadsOwnWrites`). The
  condition is needed: a GET that was sent before the write is joined by the
  refetch after it, and its old answer counts as fresh
  (`src/ui/src/shared/api/client.ts:91`); `setQueryData` does not stop a fetch
  and is overwritten by it.
- **Test case page.** When everything has settled after a save that succeeded and
  that nothing overlapped, the page shows the row and the steps the server has,
  whatever was typed meanwhile and in whichever order answers, setters and the
  copying effect ran (`SavedViewShowsServer`). `hist.alone` excludes two mutations
  at a time, a save clicked during a refetch, a save without new steps on a page
  that may show old ones, writes of other users, and requests that failed after the
  server had acted: each of them matters, and that there are no more is proved.
  Cancel does not spare what the case has (`CancelSparesSavedFiles`): opening,
  editing and cancelling deletes all of its attachments, as `cancel_deletes` shows.
  Saving always ends (`SaveEnds`), also when
  the refetch it waits for is joined, retried, given up, or loses its page.
- **Filing in Jira.** Cases filed under one key have one issue
  (`KeyNamesOneIssue`): the unique constraint refuses the slower of two filings,
  and it is refused as a whole. An issue that no case was ever linked to comes
  from a filing that ended in an error or that ran at the same time as another of
  its key, or from a request that the backend repeated
  (`OrphanMeansFailureOrOverlap`). The same selection is not filed a
  second time without one of these reasons, or a link changed by hand
  (`SecondIssueNeedsAReason`); a *different* key for the same cases, after some
  rows failed, is a second issue, as the code has it.

### Findings

Six disagreements with the repository's own words are runs of kind "violation",
listed in `PROJECT.json` with the lines they quote: one startup does not recover a
row that is backing off; overlapping updates leave a wrong aggregate; a run can be
completed with a row in progress; an import can be applied twice; a moved subtree
exceeds the nesting limit; Cancel deletes saved attachments. Seen while reading,
and modelled without a run of their own:

- two overlapping status changes are both applied, so a run may go back from
  archived to completed (`modules/test_runs/services/runs.py:257`); its reports are
  then queued again, which the model does not count;
- history follows the aggregate status, so an update of a row that does not move
  it leaves no record, and a rerun never does
  (`modules/test_runs/services/run_cases.py:625`), although
  `src/docs/user-guide/api/test-runs/rows.md:41` says "Updating a row records
  history"; the model does as the code does, and no property calls that right;
- a run with cases, or a case with history, cannot be deleted
  (`modules/test_runs/models.py:76`, `:149`);
- `db.delete(project)` is not awaited (`modules/projects/services/projects.py:137`),
  so a project that was "deleted" is still there.

In the client, seen while reading or as behaviours that the properties' premises
exclude:

- the snapshot for Cancel is taken on the first render after loading, before the
  effect has filled the fields, so on every visit a Cancel before the first save
  blanks the page (the server keeps its data, but a Save from there writes blanks)
  and deletes every attachment of the case, which is the trace of `cancel_deletes`
  (`src/ui/src/modules/test-cases/hooks/use-test-case-editor-state.ts:91`, `:384`);
- a refetch, of an issue link for example, overwrites what is typed, and so does
  the PATCH's `setQueryData` between the two halves of a save: if the PUT then
  fails the typed steps are gone (`use-test-case-detail-data.ts:226`);
- uploads do not touch the cache, so the next copy from it takes an uploaded file
  off the page, and a later save and Cancel then delete it;
- a save without changed steps puts back the steps it closed over
  (`use-test-case-editor-state.ts:308`), also when a refetch that was on its way
  at the click has brought newer ones;
- and it makes them the snapshot: who reopens the page during a save gets the old
  steps (the refetch joins the GET on its way), and if only the row is then saved,
  a Cancel puts the old steps back on the page even after a refetch has shown the
  new ones, and a Save from there sends them when anything else in them is changed
  (`use-test-case-editor-state.ts:279`). TLC finds this in two saves, two visits
  and one issue link; the profiles of `web_client` are smaller, and it was met when
  the theorem was proved;
- `shouldRetryQuery` looks for "404" in the message, which is the problem's
  detail and hardly ever contains it: such errors are retried
  (`src/ui/src/shared/api/query-client.ts:10`);
- the result forms are disabled while `patchRunCaseMutation` is pending, but rows
  are patched by `patchRunCaseRowMutation`, so the button works during the whole
  submission (`src/ui/src/modules/test-runs/hooks/use-test-run-overview-page.tsx:428`);
- a bulk key has 21 characters and 17 more for each case, the column 128: with
  seven cases the issue is created and no link can be stored
  (`modules/integrations/jira/models.py:137`);
- a POST that creates an issue is repeated when its answer is a 502 or 504, which may
  come after Jira has acted: one filing that ends well can make several issues, and
  all but the last are orphans (`modules/integrations/jira/clients/api.py:144`);
- a changed set of patched rows changes the key
  (`src/ui/src/modules/test-runs/hooks/use-test-run-mutations.ts:65`).

### Bounds

Every bound is a CONSTANT with a comment that says so. `JobIds` bounds jobs
waiting at once: a trigger and its duplicates, one more than there are workers in
`notification_safety`. `MaxAttempts` 3 has a first, a middle and a last attempt.
`RetryMaxSeconds` 3 lets both the exponential and the cap be reached in
`notification_safety`, with ticks of half a second so that truncation shows;
`notification_recovery` keeps the real cap. One row is enough there, since no
property relates two rows and the safety theorems hold for any number; two rows
make the liveness check too slow. `audit_safety` has two. `MaxRows` 3 lets a rerun
append behind a rerun while a third row is updated; properties relate rows of one
case, so one case is enough; `MaxHistory` 1 is enough since records are only
counted. Three outcomes stand for "pending", "passing" and "failing".
`MaxTriggers` 2 is a trigger and its duplicate, `MaxAttempts` 3 an application,
one after it and one more. Four suites make two subtrees of two levels, or a chain
of three and a target; the limit is 3 there so that chains can exceed it, and 4,
the code's, in `suite_depth`. `MaxRequests` 3 lets a request that ended be
followed by another while a third walks. `MaxTodo` bounds how much a deletion may
have to list when it meets a suite for the second time.

For the test case page the events a user, another user or a fault can add are
bounded by budgets, and the run starts from one of ten profiles, each of which
brings together events that bear on one another: two saves; a save with a fault, a
transfer, an archiving, another user or a second visit; archiving with linking and
a fault; two transfers and a fault; three faults, which use up the attempts of a
fetch (`MaxTries` 3, the code's). Two files are one that is there at first and one
to upload. There is one transfer and one other mutation at a time, as the buttons
allow, and one save, which is what `OneSave` bounds. For filing: two submissions
at a time are a double click, a third comes after them; the three forms are one
case alone, and bulk forms that fit the key and that do not (`MaxKeyed` 2 stands
for the six of the code). `MaxPosts` 2 is one request and one repetition of it.
The two pages share no state, so profiles exercise one of them at a time.

Deadlock checking is off where the bounds end the behaviours (a run that is
deleted or archived, an import that has ended, requests used up); the configs
say so. Symmetry is used only in runs without liveness properties.

### Fairness

`NotificationQueue!Fairness` and `PerformanceImport!Fairness` assume that a
worker goes on with the job it has, that procrastinate starts a due job when a
slot is free (it fetches in the order of insertion, so no job is passed over for
ever: strong fairness, since slots come and go), that the API runs its callbacks
and finishes a startup it began, and that time passes. Strong fairness of the
enqueueing steps only makes up for the bound on jobs waiting. Nothing is assumed
about faults or the API's lifecycle: the liveness property itself names what it
needs (`RestartsRecover`: faults end, startups keep completing).
`EditorFairness` assumes that the network answers every GET, with an answer or an
error; that a delay before a retry ends and the effect that copies data runs,
since both are in the event loop's queue; and that the backend and the event loop
carry on with a save. Nothing is assumed about clicks.
`OutageSpec` is the mildest environment, where things go wrong only while the API
is down; `RecoveryIsAutomatic` fails even there.

## 4. Proofs

Constants are arbitrary, under the named assumptions of the modules:
`JobQueueAssumption` (limits are positive), `SuitesAreFinite`, `MarksAreNoSuites`
(NULL and the markers of unborn and deleted rows are no ids) and `DepthIsPositive`
of `SuiteForest`, `RequestsAreBounded` of `SuiteTree`, `BoundsAreSensible` and
`SomeImport` of `PerformanceImport`, `ConstantsAreSensible` of `RunExecution` (at
least one case and one row), `CacheAssumption` (a query's two phases read
different paths), `EditorAssumption` (the query of the page) and
`FilingAssumption` (a form that is not bulk has one case).

**Queues** (`JobQueueProofs`, `NotificationQueueProofs`, `AuditQueueProofs`).
The invariant `QueueInv` adds to typing and exclusive claims that a holder agrees
with its row (`HolderMatchesRow`: a locked row is pending and due, a claimed one
processing), that a processing row is not waiting, and that attempts are within
budget exactly as the status says. Exclusive claims alone are not inductive: a
second worker is kept out by the lock before the commit and by the status after
it, so the invariant must know both. For notifications `IInv` adds how often a
message has left in terms of attempts: at most one more than the attempts counted,
and only while its claim is held or stranded. For the audit queue it adds that
a row is logged exactly when it is processed, and that the log row of a removed
one is gone too. Proved from these: type correctness of both queues,
`ExclusiveClaims`, `BoundedSends`, `StrandedLeftAlone` (of both), `LogFollowsQueue`,
`CleanupSparesWork`, and for each queue `KeepsTheContract`, the refinement of
`WorkContract` (each step maps to a step of the contract or to a stutter, one
lemma per kind). `ForgottenByComingEarly` looks at one step: whatever takes a
trigger of a pending row away puts another in its place (`KeepsRemembered`),
except the job that finds its row not due, since a job that finds it locked
leaves the worker that holds the lock (`QueueStepForgets`).

**Runs** (`RunExecutionProofs`). All nine properties of the run `run_execution`
are proved for any number of requests, cases, rows and outcomes: `TypeCorrect`,
`RowsConsecutive`, `OutcomesKept`, `ClosedReported`, `FrozenEvidence`,
`PassingSettled`, `AloneExactAggregate`, `AloneForward` and `AloneSettled`. None
of them is inductive, because a request acts on what it read earlier. `IInv`
says in which way that may be stale: rows are only added to a case while
requests have it open (a deletion ends those requests), so an update's row is
still there (`WritesOK`) and a rerun's new rows begin right behind rows that
exist; flushed rows are locked, so two requests about to commit never hold the
same row (`LocksAreDisjoint`), and a flushed rerun's rows stay untaken; a request
that writes saw the run open, and one that archives saw it reported (`TxOK`).
`AloneOK` adds that what a request read is still exact while no other has been
open. `EndKeepsIInv` states once what a commit has to leave to the other
requests; each commit is then one lemma that shows it does.
Two more theorems say that races are the only cause of what the violation runs
find: while no two requests are open together (`OneAtATime`, a hypothesis about
the behaviour), every aggregate is the roll-up of its rows, a closed run has no
row in progress (`SerialRunsAreSound`), and the status only moves along its
transitions (`SerialRunsMoveForward`). Their invariant `SerialIInv` adds to
`IInv` that the open request is alone and that the run is still as it found it.

**Imports** (`PerformanceImportProofs`). Imports are not claimed, so the invariant
`IInv` speaks of any number of workers at one import: a worker past its first
commit has seen to it that the import is not pending any more, and what it
applies comes from a source that parses. `TypeCorrect`,
`InvalidSourcesChangeNothing`, `CompletedImportsHaveSummary` and
`ForgottenByFaults` follow for any number of workers. The other four need the
shipped deployment and assume it (`SoleWorker`: two workers are the same one):
a sole worker is only at imports that have not ended, before the end there are
no artifacts, and all artifacts are of one application with their files on disk
(`SoleIInv`). From it `SoleAppliesOnce`, `SoleArtifactsHaveFiles` and
`SoleEndIsFinal`; the run `import_twice` shows that the assumption is needed.
`SoleKeepsTheContract` is the refinement of `WorkContract`, for any number of
imports: it adds that a run is untouched until its import ends (`RunFollows`), and
sorts the steps by what they do to an import's status and run (`SoleSteps`: it is
submitted, taken, given up or performed, or nothing of it changes).

**Suites** (`SuiteTreeProofs`). `CycleSafety`: for any number of suites and
requests, `Spec => CyclesNeedOverlappingMoves`. A cycle is stated without
recursion, as a non-empty set of suites in which every parent is in the set
again. The invariant says of a move that no other move has overlapped: the ids it
has visited are closed under "parent" except for the id it fetches next, contain
its new parent and not its own suite. Creations add leaves and deletions cut
edges, so they keep it (`LeafClosesNoCycle`, `CuttingClosesNoCycle`); at the end
the visited set separates the suite from its new parent
(`MoveOutsideClosesNoCycle`). `TypeCorrect` adds to typing that the parent-to-be
stays in the session while its ancestors are looked at, which the second walk
starts from, and that only a deletion collects (`InPhase`).

Levels and subtrees rest on `Lineage`, a least closed set rather than a recursive
function, so that what they are for every tree can be proved: `LineageLeast` and
`LineageUnfolds` are the facts about it, `FS_Subset` and the finiteness of the
suites give the depth. `NoCycleMeansNoOwnAncestor` ties the two ways to speak of
cycles together. `WalkIInv` says what a request has read that still holds: a
parent the session keeps is still the parent, or its row was deleted (`KeptOK`);
there is a set of as many suites as levels were counted that holds the new parent
and is closed under "parent" but for the id to be fetched next (`CountedOK`; only
a set and a bound, since deletions may have cut it); and what a deletion has
collected is the part of its subtree that excludes only suites below those still
to be listed (`CollectOK`). From it `AtomicCommits` (each commit is one step of
`SuiteForest`, `PlacingIsAtomic` and `DeletionIsAtomic`) and
`LimitExceededByMoves`: a suite that is placed is one level below a lineage with
room (`PlacedWithinLimit`), one that is not below what was moved stays at its
level (`OnlyBelowIsMoved`), and cutting only shortens (`CuttingShrinksLineage`).

Two consequences speak of whole behaviours. `WithoutMovesTreeIsSound`: as long as
no patch moves a suite, any number of concurrent creations and deletions keep the
tree free of cycles and within the limit. The hypothesis is an action property of
the behaviour, and is needed: `suite_depth` breaks the limit with one move.
`SerialRequestsImplementForest`: when there is one request at a time, `Spec`
implements `ForestSpec`, step by step or by stuttering; `ForestIsAForest` says
what that is worth, without the limit, which `MoveSuite` does not keep.

**Query cache and test case page** (`QueryCacheProofs`, `WebClientProofs`).
`PageReadsOwnWrites` holds for any number of queries that share GETs, in any
phases. Its invariant says of a clean query that whatever can still reach it is
new enough: what its fetch has collected, the answers on the wire it may join,
and, while it is idle and without an error, its data. The page's actions are
actions of the cache or leave it alone (the lemma `EditorUsesTheCache`), so
`EditorReadsOwnWrites` needs no proof of its own. `EditorShowsWhatItSaved`
states `SavedViewShowsServer` for any number of saves, visits, transfers and faults.
Its invariant has four parts. `Owned` holds always: a save knows whether its page is
still there, and an open page that has saved has data to show. The other three speak
of a page that nothing else disturbs. `Alone` accounts for each version the server
has and the cache was not told of: it is carried by the save or the archiving under
way. `Snapped` says that the snapshot is what the server has but for what that has
still to put into it, and `Untyped` that a field holds what the snapshot or the
query's data hold, or what was typed. From the cache comes that settled, clean data
are the server's: not older, by `Fresh`, and not newer, by `Known`; and that data
once loaded stay while the page is open (`KeepsData`), since a fetch ends only with
all of its answers (`Filled`).

**Filing** (`WebClientProofs`). `FilingKeyNamesOneIssue` needs to know of each
link under way how it came about: whose issue it names and which cases its key
lists (`Made`), that all cases of a committed key that nobody touched by hand have
the same link (`Whole`), that rows inserted and not yet committed clash with no
committed row, and that two transactions never hold conflicting rows (`Apart`).
`OrphansHaveAReason` and `SecondIssuesHaveAReason` are about histories, and need
the history of each submission: while it has had no rival, it is the first of its
key whose issue did not fail and was not the product of a repeated request, no
link of its key is committed, and each case it has dealt with has a row of its own
(`Undisputed`); an open issue is one that is still being linked (`OpenIsLinking`),
and one whose filing succeeded has links for all cases of its key, unless one was
touched by hand (`OkIsLinked`). So a later filing of the key finds the links and
creates nothing.

`PagesSideBySide` says that the composed specification implies the specification
of each page, so that all of these theorems hold for the two together.

**Only model-checked:** all liveness (`RestartsRecover` of both modules,
`SaveEnds`), since liveness under fairness and ENABLED are out of the prover's
reach. Every invariant and every other property of a passing run is the statement
of a theorem.

## 5. Not modelled

`PROJECT.json` lists every component with its status and reason. In short:
external protocols (LDAP, OIDC, SMTP's own retries, Jira's REST API, AI
providers), parsers and file formats, read-only queries, and components whose
operations are single independent rows. Inside the modelled components: texts,
assignees and comments, the numbers of a performance run, the content of audit
events, roles, and the test cases and attachments a suite's deletion takes along;
in the client, the templates other than "steps", attachments of steps, cloning and
deleting a case, editing its datasets, and linking several results to a given
issue.

Most of `src/ui/src` renders: tables, forms, dialogs, icons, types of the API and
local filter state of one page, where a handler sends one mutation and invalidates
the lists it appears in. These have the shape of the mutations `CaseEditor` models
and no interleaving beyond them, so models of them would restate the code without
a property that could fail. The map therefore covers a small share of the
client's lines, those where its protocols are.

## 6. Plan

In the order of importance:

1. `Datasets`: revisions, bindings that follow or pin them, and the rows a run
   takes from them, so that a run's snapshot is shown not to change with its
   source; revision numbers computed from a stale read
   (`modules/test_cases/repositories/datasets.py:216`) and the hazard
   `modules/test_cases/services/datasets.py:521`.
2. Report import as another writer in `RunExecution`
   (`modules/report_import/run_application.py:117`), and its creation of suite
   paths in `SuiteTree`.
3. `Baseline`: tagging and clearing of markers
   (`modules/performance/services/lifecycle.py:106`), with the resolution of the
   effective baseline as an operator checked against its definition.
4. `Attachments`: files and rows of attachments and their owners' deletion; an
   abstract specification "a row has its file" that it shares with artifacts.
5. Members and default users; the dependency graph of products, whose check has
   the structure of `SuiteTree`.
6. In the client: the wizard that clones a test case, the editing of dataset
   bindings on its page, and the live lists of a test run, as further users of
   `QueryCache`.

Theorems to prove next: for each module above its invariants.
