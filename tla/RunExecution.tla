---------------------------- MODULE RunExecution ----------------------------
(***************************************************************************)
(* The execution of one test run: its lifecycle, its run cases, their rows *)
(* and the aggregate every run case keeps of its rows                      *)
(* (modules/test_runs/services/runs.py and run_cases.py).                  *)
(*                                                                         *)
(* Every request is one database transaction at READ COMMITTED.  It reads, *)
(* decides on what it read, flushes its row writes (which locks the rows), *)
(* recomputes from what it then sees, and commits.  No row is read FOR     *)
(* UPDATE and no write is conditional, so what a request read may be stale *)
(* when it commits.  A request's first reads are one step, and its last    *)
(* flush is part of its commit: nothing it does in between can be seen.    *)
(*                                                                         *)
(* Row attributes other than the status, roles, and the case's texts are   *)
(* left out.  MaxRows and MaxHistory bound the model, not the code.        *)
(***************************************************************************)
EXTENDS Integers, Sequences, FiniteSets

CONSTANTS Tx,          \* requests that can be open at the same time
          Cases,       \* test cases that can be added to the run
          Outcomes,    \* the statuses testers record
          Scenarios,   \* number of scenario rows a new run case can get
          MaxRows,     \* bound: rows of one run case
          MaxHistory   \* bound: history records of one run case

\* Mutant: untested rows weigh less than passed ones.
Severity_PassedFirst == << "failure", "error", "blocked", "xpassed", "in_progress",
                           "passed", "untested", "xfailed", "skipped" >>

\* RunItemStatus by how much it weighs in the aggregate, heaviest first.
Severity == << "failure", "error", "blocked", "xpassed", "in_progress",
               "untested", "passed", "xfailed", "skipped" >>

RunItemStatus == {Severity[i] : i \in 1 .. Len(Severity)}
TestRunStatus == {"not_started", "in_progress", "completed", "archived", "deleted"}
Closed        == {"completed", "archived"}
NoRow         == "no row"
Orders        == 1 .. MaxRows

ASSUME ConstantsAreSensible ==
  /\ MaxRows \in Nat \ {0} /\ MaxHistory \in Nat
  /\ Scenarios \subseteq Orders
  /\ Outcomes \subseteq RunItemStatus
  /\ Cases # {}

VARIABLES run,        \* TestRun.status, or "deleted"
          item,       \* run_items: the aggregate of each case, or NoItem
          rows,       \* run_case_rows: status by row_order
          history,    \* number of run_case_history records of each case
          reported,   \* a completion has queued its report notifications
          tx          \* the open requests

vars == << run, item, rows, history, reported, tx >>

-----------------------------------------------------------------------------
(* What a run case shows of its rows. *)

NoRows == [k \in Orders |-> NoRow]
NoItem == [status |-> "absent", total |-> 0, passed |-> 0, failed |-> 0]
Counting(rs, S) == Cardinality({k \in Orders : rs[k] \in S})

RollUp(rs) ==
  LET Heaviest(i) == /\ \E k \in Orders : rs[k] = Severity[i]
                     /\ \A j \in 1 .. i - 1 : \A k \in Orders : rs[k] # Severity[j]
  IN  IF rs = NoRows THEN "untested"
      ELSE Severity[CHOOSE i \in 1 .. Len(Severity) : Heaviest(i)]

Aggregate(rs) == [status |-> RollUp(rs),
                  total  |-> Counting(rs, RunItemStatus),
                  passed |-> Counting(rs, {"passed"}),
                  failed |-> Counting(rs, {"failure", "error", "blocked"})]

RowsOf(c) == {k \in Orders : rows[c][k] # NoRow}

\* What is left in the table when the columns that differ from what was read
\* are updated: the others keep what is there now.
UpdateChanged(now, read, new) ==
  [f \in DOMAIN now |-> IF new[f] # read[f] THEN new[f] ELSE now[f]]

-----------------------------------------------------------------------------
(* Requests. *)

RowOps  == {"patch_row", "rerun"}
ItemOps == RowOps \cup {"delete_item"}
RunOps  == {"start", "complete", "archive", "delete_run"}
AnyCase == CHOOSE c \in Cases : TRUE

Idle == [op |-> "idle", step |-> "idle", case |-> AnyCase, want |-> NoRows,
         read |-> NoItem, agg |-> NoItem, sawOpen |-> FALSE, alone |-> FALSE]

Open(t)   == tx[t].op # "idle"
Writes(t) == {k \in Orders : tx[t].want[k] # NoRow}
\* The rows of its case once its writes are in.
After(t) == [k \in Orders |-> IF k \in Writes(t) THEN tx[t].want[k]
                              ELSE rows[tx[t].case][k]]
\* The rows a request has locked: those it flushed and has not yet committed.
Locked(t, c) == IF tx[t].step = "flushed" /\ tx[t].case = c THEN Writes(t) ELSE {}
LockedByOthers(t, c) == UNION {Locked(u, c) : u \in Tx \ {t}}

\* The request has read what it needs.  "alone" is bookkeeping: no other
\* request has been open since.
Begin(t, op, c, want) ==
  /\ ~Open(t)
  /\ tx' = [u \in Tx |->
              IF u = t
              THEN [op |-> op, step |-> "read", case |-> c, want |-> want,
                    read |-> IF op \in RowOps THEN item[c] ELSE NoItem,
                    agg |-> NoItem,
                    sawOpen |-> run \notin Closed,
                    alone |-> \A v \in Tx \ {t} : ~Open(v)]
              ELSE [tx[u] EXCEPT !.alone = FALSE]]
  /\ UNCHANGED << run, item, rows, history, reported >>

Ends(t) == tx' = [tx EXCEPT ![t] = Idle]

\* An error response: the transaction rolls back.
Abort(t) == Ends(t) /\ UNCHANGED << run, item, rows, history, reported >>

-----------------------------------------------------------------------------
(* Run cases and their rows. *)

\* Mutant: archived runs are closed, completed ones are not.
AllowsCaseMutation_ArchivedOnly == run \notin {"archived", "deleted"}

AllowsCaseMutation == run \notin Closed \cup {"deleted"}

\* create_run_case, bulk_create_run_cases.  A case that is already in the run
\* is returned as it is.
CreateRunCase(t, c, n) ==
  /\ run \in {"not_started", "in_progress"}
  /\ item[c] = NoItem
  /\ Begin(t, "create", c, [k \in Orders |-> IF k <= n THEN "untested" ELSE NoRow])

PatchRunCaseRow(t, c, k, s) ==
  /\ AllowsCaseMutation
  /\ rows[c][k] # NoRow
  /\ history[c] < MaxHistory
  /\ Begin(t, "patch_row", c,
           IF s = rows[c][k] THEN NoRows ELSE [NoRows EXCEPT ![k] = s])

\* Mutant: numbered one too far.
RerunRunCase_LeavesGap(t, c, n) ==
  /\ AllowsCaseMutation
  /\ RowsOf(c) # {}
  /\ n <= Cardinality(RowsOf(c))
  /\ LET last == 1 + CHOOSE k \in RowsOf(c) : \A j \in RowsOf(c) : j <= k IN
       /\ last + n <= MaxRows
       /\ Begin(t, "rerun", c, [k \in Orders |-> IF k \in last + 1 .. last + n
                                                 THEN "untested" ELSE NoRow])

\* One new row for each selected row, of which there is at least one; with
\* use_latest_revisions only for those whose scenario still exists.
RerunRunCase(t, c, n) ==
  /\ AllowsCaseMutation
  /\ RowsOf(c) # {}
  /\ n <= Cardinality(RowsOf(c))
  /\ LET last == CHOOSE k \in RowsOf(c) : \A j \in RowsOf(c) : j <= k IN
       /\ last + n <= MaxRows
       /\ Begin(t, "rerun", c, [k \in Orders |-> IF k \in last + 1 .. last + n
                                                 THEN "untested" ELSE NoRow])

DeleteRunCase(t, c) ==
  /\ AllowsCaseMutation
  /\ item[c] # NoItem
  /\ Begin(t, "delete_item", c, NoRows)

\* Mutant: the count does not see the request's own writes.
FlushRows_CountsFirst(t) ==
  LET c == tx[t].case IN
  /\ tx[t].op \in RowOps /\ tx[t].step = "read"
  /\ Writes(t) \cap LockedByOthers(t, c) = {}
  /\ tx[t].op = "rerun" => Writes(t) \cap RowsOf(c) = {}
  /\ tx' = [tx EXCEPT ![t].step = "flushed", ![t].agg = Aggregate(rows[c])]
  /\ UNCHANGED << run, item, rows, history, reported >>

\* Mutant: (run_case_id, row_order) is not unique; the later insert wins.
FlushRows_OrderNotUnique(t) ==
  LET c == tx[t].case IN
  /\ tx[t].op \in RowOps /\ tx[t].step = "read"
  /\ Writes(t) \cap LockedByOthers(t, c) = {}
  /\ tx' = [tx EXCEPT ![t].step = "flushed", ![t].agg = Aggregate(After(t))]
  /\ UNCHANGED << run, item, rows, history, reported >>

\* The row writes reach the database, then the rows are counted: the committed
\* ones and this request's own.  Waits for a row another request has locked;
\* fails if its row_order has been taken since.
FlushRows(t) ==
  LET c == tx[t].case IN
  /\ tx[t].op \in RowOps /\ tx[t].step = "read"
  /\ Writes(t) \cap LockedByOthers(t, c) = {}
  /\ tx[t].op = "rerun" => Writes(t) \cap RowsOf(c) = {}
  /\ tx' = [tx EXCEPT ![t].step = "flushed", ![t].agg = Aggregate(After(t))]
  /\ UNCHANGED << run, item, rows, history, reported >>

RowOrderTaken(t) ==
  /\ tx[t].op = "rerun" /\ tx[t].step = "read"
  /\ Writes(t) \cap RowsOf(tx[t].case) # {}
  /\ Abort(t)

\* A row update leaves a history record when the aggregate status it computed
\* is not the one it read; a rerun leaves none.
CommitRows(t) ==
  LET c == tx[t].case
      recorded == tx[t].op = "patch_row" /\ tx[t].agg.status # tx[t].read.status
  IN /\ tx[t].op \in RowOps /\ tx[t].step = "flushed"
     /\ rows' = [rows EXCEPT ![c] = After(t)]
     /\ item' = [item EXCEPT ![c] = UpdateChanged(item[c], tx[t].read, tx[t].agg)]
     /\ history' = [history EXCEPT ![c] = IF recorded THEN @ + 1 ELSE @]
     /\ Ends(t)
     /\ UNCHANGED << run, reported >>

\* Mutant: the item is committed before its rows.
CommitCreate_ItemOnly(t) ==
  LET c == tx[t].case IN
  /\ tx[t].op = "create"
  /\ run # "deleted" /\ item[c] = NoItem
  /\ item' = [item EXCEPT ![c] = Aggregate(tx[t].want)]
  /\ Ends(t)
  /\ UNCHANGED << run, rows, history, reported >>

\* The item and its rows become visible together.  (test_run_id, test_case_id)
\* is unique, and the run must still be there.
CommitCreate(t) ==
  LET c == tx[t].case IN
  /\ tx[t].op = "create"
  /\ run # "deleted" /\ item[c] = NoItem
  /\ item' = [item EXCEPT ![c] = Aggregate(tx[t].want)]
  /\ rows' = [rows EXCEPT ![c] = tx[t].want]
  /\ Ends(t)
  /\ UNCHANGED << run, history, reported >>

CreateFails(t) ==
  /\ tx[t].op = "create"
  /\ run = "deleted" \/ item[tx[t].case] # NoItem
  /\ Abort(t)

\* The session loads the history of a case it deletes, to detach it; the table
\* refuses a record with no run case, so a case that has history stays.
LoadHistory(t) ==
  /\ tx[t].op = "delete_item" /\ tx[t].step = "read"
  /\ history[tx[t].case] = 0
  /\ tx' = [tx EXCEPT ![t].step = "flushed"]
  /\ UNCHANGED << run, item, rows, history, reported >>

DeleteItemFails(t) ==
  /\ tx[t].op = "delete_item" /\ tx[t].step = "read"
  /\ history[tx[t].case] > 0
  /\ Abort(t)

\* What has come since goes with the item (ON DELETE CASCADE), once no row is
\* locked.  Requests that had read the item find nothing to update and fail.
CommitDeleteItem(t) ==
  LET c == tx[t].case IN
  /\ tx[t].op = "delete_item" /\ tx[t].step = "flushed"
  /\ LockedByOthers(t, c) = {}
  /\ item' = [item EXCEPT ![c] = NoItem]
  /\ rows' = [rows EXCEPT ![c] = NoRows]
  /\ history' = [history EXCEPT ![c] = 0]
  /\ tx' = [u \in Tx |-> IF u = t \/ (tx[u].op \in ItemOps /\ tx[u].case = c)
                         THEN Idle ELSE tx[u]]
  /\ UNCHANGED << run, reported >>

-----------------------------------------------------------------------------
(* The run. *)

Requires == [start |-> "not_started", complete |-> "in_progress", archive |-> "completed"]
Target   == [start |-> "in_progress", complete |-> "completed",   archive |-> "archived"]

\* Mutant: the current status is not checked.
PatchTestRun_AnyStatus(t, op) ==
  /\ op \in DOMAIN Requires
  /\ run # "deleted"
  /\ Begin(t, op, AnyCase, NoRows)

\* patch_test_run with a new status, checked against the status just read.
PatchTestRun(t, op) ==
  /\ op \in DOMAIN Requires
  /\ run = Requires[op]
  /\ Begin(t, op, AnyCase, NoRows)

\* Mutant: looks at the aggregates, not at the rows.
NoneInProgress_ByItem == \A c \in Cases : item[c].status # "in_progress"

NoneInProgress == \A c \in Cases, k \in Orders : rows[c][k] # "in_progress"

CountInProgress(t) ==
  /\ tx[t].op = "complete" /\ tx[t].step = "read"
  /\ NoneInProgress
  /\ tx' = [tx EXCEPT ![t].step = "flushed"]
  /\ UNCHANGED << run, item, rows, history, reported >>

StillInProgress(t) ==
  /\ tx[t].op = "complete" /\ tx[t].step = "read"
  /\ ~NoneInProgress
  /\ Abort(t)

CommitStatus(t) ==
  /\ tx[t].op \in DOMAIN Target
  /\ tx[t].op = "complete" => tx[t].step = "flushed"
  /\ run # "deleted"
  /\ run' = Target[tx[t].op]
  /\ reported' = (reported \/ tx[t].op = "complete")
  /\ Ends(t)
  /\ UNCHANGED << item, rows, history >>

DeleteTestRun(t) ==
  /\ run # "deleted"
  /\ Begin(t, "delete_run", AnyCase, NoRows)

\* The session loads the run cases of a run it deletes, to detach them; their
\* table refuses one with no run, so a run that has any stays.
LoadItems(t) ==
  /\ tx[t].op = "delete_run" /\ tx[t].step = "read"
  /\ run # "deleted"
  /\ \A c \in Cases : item[c] = NoItem
  /\ tx' = [tx EXCEPT ![t].step = "flushed"]
  /\ UNCHANGED << run, item, rows, history, reported >>

\* Run cases that have come since go with the run (ON DELETE CASCADE).
CommitDeleteRun(t) ==
  /\ tx[t].op = "delete_run" /\ tx[t].step = "flushed"
  /\ run # "deleted"
  /\ \A c \in Cases : LockedByOthers(t, c) = {}
  /\ run' = "deleted"
  /\ item' = [c \in Cases |-> NoItem]
  /\ rows' = [c \in Cases |-> NoRows]
  /\ history' = [c \in Cases |-> 0]
  /\ tx' = [u \in Tx |-> IF u = t \/ tx[u].op \in ItemOps THEN Idle ELSE tx[u]]
  /\ UNCHANGED reported

RunRequestFails(t) ==
  /\ tx[t].op \in DOMAIN Target \cup {"delete_run"}
  /\ \/ run = "deleted"
     \/ /\ tx[t].op = "delete_run" /\ tx[t].step = "read"
        /\ \E c \in Cases : item[c] # NoItem
  /\ Abort(t)

-----------------------------------------------------------------------------
Init ==
  /\ run = "not_started"
  /\ item = [c \in Cases |-> NoItem]
  /\ rows = [c \in Cases |-> NoRows]
  /\ history = [c \in Cases |-> 0]
  /\ reported = FALSE
  /\ tx = [t \in Tx |-> Idle]

Request(t) ==
  \/ \E c \in Cases :
       \/ \E n \in Scenarios : CreateRunCase(t, c, n)
       \/ \E k \in Orders, s \in Outcomes : PatchRunCaseRow(t, c, k, s)
       \/ \E n \in 0 .. MaxRows : RerunRunCase(t, c, n)
       \/ DeleteRunCase(t, c)
  \/ \E op \in DOMAIN Requires : PatchTestRun(t, op)
  \/ DeleteTestRun(t)

Progress(t) ==
  \/ FlushRows(t) \/ RowOrderTaken(t) \/ CommitRows(t)
  \/ CommitCreate(t) \/ CreateFails(t)
  \/ LoadHistory(t) \/ DeleteItemFails(t) \/ CommitDeleteItem(t)
  \/ CountInProgress(t) \/ StillInProgress(t) \/ CommitStatus(t)
  \/ LoadItems(t) \/ CommitDeleteRun(t) \/ RunRequestFails(t)

Next == \E t \in Tx : Request(t) \/ Progress(t)

Spec == Init /\ [][Next]_vars

-----------------------------------------------------------------------------
(* What must hold. *)

Items == [status : RunItemStatus \cup {"absent"}, total : 0 .. MaxRows,
          passed : 0 .. MaxRows, failed : 0 .. MaxRows]
RowMaps == [Orders -> RunItemStatus \cup {NoRow}]
Ops == {"idle", "create", "delete_run"} \cup ItemOps \cup DOMAIN Requires

\* The variables are well typed, and a case has rows exactly when it has an
\* item.
TypeOK ==
  /\ run \in TestRunStatus
  /\ item \in [Cases -> Items]
  /\ rows \in [Cases -> RowMaps]
  /\ history \in [Cases -> Nat]
  /\ reported \in BOOLEAN
  /\ tx \in [Tx -> [op : Ops, step : {"idle", "read", "flushed"}, case : Cases,
                    want : RowMaps, read : Items, agg : Items,
                    sawOpen : BOOLEAN, alone : BOOLEAN]]
  /\ \A c \in Cases : rows[c] = NoRows <=> item[c] = NoItem

\* Reruns append: however requests interleave, the rows of a case are numbered
\* 1, 2, ... without a gap (rerun_run_case, the row_order constraint).
RowsAreConsecutive == \A c \in Cases : RowsOf(c) = 1 .. Cardinality(RowsOf(c))

\* A recorded outcome is never lost to another request's rerun: a row changes
\* only by an update of its case or with the deletion of its case or its run.
OutcomesAreKept ==
  [][\A c \in Cases, k \in Orders :
       rows[c][k] \notin {NoRow, rows'[c][k]} =>
         \E t \in Tx : /\ tx'[t] = Idle
                       /\ \/ /\ tx[t].op \in {"patch_row", "delete_item"}
                             /\ tx[t].case = c
                          \/ tx[t].op = "delete_run"]_vars

\* A request that overlapped with no other leaves the aggregate equal to its
\* rows, whatever earlier races left behind: recalc_run_case_aggregate heals.
AloneLeavesExactAggregate ==
  [][\A t \in Tx :
       /\ tx[t].op \in RowOps \cup {"create"} /\ tx[t].alone
       /\ tx'[t] = Idle
       => item'[tx[t].case] = Aggregate(rows'[tx[t].case])]_vars

\* Once a run is closed and the requests that saw it open have ended, nothing
\* touches its evidence but the deletion of the run
\* (_ensure_run_allows_case_mutation).
ClosedEvidenceIsFrozen ==
  [][/\ run \in Closed
     /\ \A t \in Tx : Open(t) => ~tx[t].sawOpen
     => run' = "deleted" \/ UNCHANGED << item, rows, history >>]_vars

\* A completion that overlapped with no other request leaves no row of any
\* case in progress, whatever the aggregates say (_apply_status_transition).
AloneCompletesSettledRuns ==
  [][\A t \in Tx :
       /\ tx[t].op = "complete" /\ tx[t].alone /\ tx'[t] = Idle
       /\ run # run'
       => \A c \in Cases, k \in Orders : rows'[c][k] # "in_progress"]_vars

\* A status request that overlapped with no other neither skips a status nor
\* takes the run back: only what another request has changed since it was read
\* can do that (patch_test_run, the allowed transitions).
AloneMovesForward ==
  [][\A t \in Tx :
       /\ tx[t].op \in DOMAIN Requires /\ tx[t].alone /\ tx'[t] = Idle
       /\ run # run'
       => run = Requires[tx[t].op] /\ run' = Target[tx[t].op]]_vars

\* A closed run has had its reports queued, also when its status was changed by
\* racing requests: no way to completed or archived leaves the completion out
\* (patch_test_run, _apply_status_transition).
ClosedRunsAreReported == run \in Closed => reported

\* Rows add up to a passing-side status only when none of them is pending or
\* has failed (run_items.py, the roll-up's comment).
PassingMeansSettled ==
  \A c \in Cases : item[c] # NoItem /\ RollUp(rows[c]) \in {"passed", "xfailed", "skipped"} =>
     \A k \in Orders : rows[c][k] \in {NoRow, "passed", "xfailed", "skipped"}

\* The aggregate of every run case is what its rows add up to
\* (recalc_run_case_aggregate).
AggregateIsRollUp ==
  \A c \in Cases : item[c] # NoItem => item[c] = Aggregate(rows[c])

\* A completed or archived run has no row in progress (the completion check of
\* _apply_status_transition).
ClosedMeansNothingInProgress ==
  run \in Closed => \A c \in Cases, k \in Orders : rows[c][k] # "in_progress"
=============================================================================
