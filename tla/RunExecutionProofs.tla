------------------------- MODULE RunExecutionProofs -------------------------
(***************************************************************************)
(* The execution of a test run for any number of requests, cases, rows and *)
(* outcomes: what no interleaving of requests can break, what a request    *)
(* does that overlaps with no other, and what holds when none overlap.     *)
(*                                                                         *)
(* The argument: what an open request has read may be stale, but only in   *)
(* one direction.  Rows are only added while a case has requests on it, a  *)
(* deletion ends the requests of its cases, and the rows a request has     *)
(* flushed are locked.  So the rows it will write are its own, or rows     *)
(* that are still there.                                                   *)
(***************************************************************************)
EXTENDS RunExecution, FiniteSetTheorems, TLAPS

\* An item is there with a status, and its rows are the first ones.
CaseOK(c) ==
  /\ item[c] # NoItem => item[c].status # "absent"
  /\ \E m \in 0 .. MaxRows : RowsOf(c) = 1 .. m

\* Requests whose second step only reads.
Looks == {"complete", "delete_item", "delete_run"}

\* What a request has read and still holds of its case.
WritesOK(t) ==
  LET c == tx[t].case IN
  /\ tx[t].op \in ItemOps => item[c] # NoItem
  /\ tx[t].op = "create" => \E n \in 1 .. MaxRows : Writes(t) = 1 .. n
  /\ tx[t].op \in Looks => Writes(t) = {}
  /\ tx[t].op = "patch_row" => Writes(t) \subseteq RowsOf(c)
  /\ tx[t].op = "rerun" =>
       /\ \E a, b \in 0 .. MaxRows : Writes(t) = a + 1 .. b /\ 1 .. a \subseteq RowsOf(c)
       /\ tx[t].step = "flushed" => Writes(t) \cap RowsOf(c) = {}

\* A request that is alone has read what is there.
AloneOK(t) ==
  tx[t].alone /\ Open(t) =>
    LET c == tx[t].case IN
    /\ \A u \in Tx \ {t} : ~Open(u)
    /\ tx[t].op = "create" => run # "deleted" /\ item[c] = NoItem
    /\ tx[t].op = "rerun" => Writes(t) \cap RowsOf(c) = {}
    /\ tx[t].op \in RowOps =>
         /\ tx[t].read = item[c]
         /\ tx[t].step = "flushed" => tx[t].agg = Aggregate(After(t))
    /\ tx[t].op \in DOMAIN Requires => run = Requires[tx[t].op]
    /\ tx[t].op = "complete" /\ tx[t].step = "flushed" => NoneInProgress

TxOK(t) ==
  /\ tx[t].step = "flushed" =>
       \/ tx[t].op \in RowOps /\ tx[t].agg.status # "absent"
       \/ tx[t].op \in Looks
  /\ tx[t].op \in ItemOps \cup {"create"} => tx[t].sawOpen
  /\ tx[t].op = "archive" => reported

LocksAreDisjoint ==
  \A c \in Cases : \A t, u \in Tx : t # u => Locked(t, c) \cap Locked(u, c) = {}

IInv ==
  /\ TypeOK
  /\ \A c \in Cases : CaseOK(c)
  /\ \A t \in Tx : WritesOK(t) /\ AloneOK(t) /\ TxOK(t)
  /\ LocksAreDisjoint
  /\ ClosedRunsAreReported

-----------------------------------------------------------------------------
(* What a run case shows of its rows. *)

\* The statuses by weight, and that none of them marks the absence of a row or
\* of an item.
LEMMA SeverityFacts ==
  /\ Len(Severity) = 9
  /\ Severity[1] = "failure" /\ Severity[2] = "error" /\ Severity[3] = "blocked"
  /\ Severity[4] = "xpassed" /\ Severity[5] = "in_progress"
  /\ Severity[6] = "untested" /\ Severity[7] = "passed"
  /\ Severity[8] = "xfailed" /\ Severity[9] = "skipped"
  /\ "absent" \notin RunItemStatus /\ NoRow \notin RunItemStatus
  /\ "untested" \in RunItemStatus
<1>1. Len(Severity) = 9
      BY DEF Severity
<1>2. /\ Severity[1] = "failure" /\ Severity[2] = "error" /\ Severity[3] = "blocked"
      /\ Severity[4] = "xpassed" /\ Severity[5] = "in_progress"
      /\ Severity[6] = "untested" /\ Severity[7] = "passed"
      /\ Severity[8] = "xfailed" /\ Severity[9] = "skipped"
      BY DEF Severity
<1>3. \A i \in 1 .. 9 : i \in {1, 2, 3, 4, 5, 6, 7, 8, 9}
      OBVIOUS
<1>4. \A i \in 1 .. 9 : Severity[i] # "absent" /\ Severity[i] # NoRow
      BY <1>2, <1>3 DEF NoRow
<1> QED
    BY <1>1, <1>2, <1>4 DEF RunItemStatus

\* Some row is the heaviest.
LEMMA RollUpIsHeaviest ==
  ASSUME NEW rs \in RowMaps, rs # NoRows
  PROVE  \E i \in 1 .. Len(Severity) :
           /\ RollUp(rs) = Severity[i]
           /\ \E k \in Orders : rs[k] = Severity[i]
           /\ \A j \in 1 .. i - 1 : \A k \in Orders : rs[k] # Severity[j]
<1> DEFINE Has(i) == \E k \in Orders : rs[k] = Severity[i]
           Heaviest(i) == /\ \E k \in Orders : rs[k] = Severity[i]
                          /\ \A j \in 1 .. i - 1 : \A k \in Orders : rs[k] # Severity[j]
<1>1. \E i \in 1 .. 9 : Has(i)
  <2>1. PICK k \in Orders : rs[k] # NoRow
        BY DEF NoRows, RowMaps
  <2>2. rs[k] \in RunItemStatus
        BY <2>1 DEF RowMaps
  <2> QED
      BY <2>2, SeverityFacts DEF RunItemStatus
<1>2. \A i : Heaviest(i) <=> Has(i) /\ \A j \in 1 .. i - 1 : ~Has(j)
      OBVIOUS
<1> HIDE DEF Has
<1>3. \E i \in 1 .. 9 : Has(i) /\ \A j \in 1 .. i - 1 : ~Has(j)
  <2>1. \/ Has(1) \/ Has(2) \/ Has(3) \/ Has(4) \/ Has(5) \/ Has(6)
        \/ Has(7) \/ Has(8) \/ Has(9)
    <3>1. \A i \in 1 .. 9 : i \in {1, 2, 3, 4, 5, 6, 7, 8, 9}
          OBVIOUS
    <3> QED
        BY <1>1, <3>1
  <2> QED
      BY <2>1
<1> HIDE DEF Heaviest
<1>4. \E i \in 1 .. Len(Severity) : Heaviest(i)
      BY <1>2, <1>3, SeverityFacts
<1>5. RollUp(rs) = Severity[CHOOSE i \in 1 .. Len(Severity) : Heaviest(i)]
      BY DEF RollUp, Heaviest
<1> QED
    BY <1>4, <1>5 DEF Heaviest

LEMMA AggregateType ==
  ASSUME NEW rs \in RowMaps
  PROVE  Aggregate(rs) \in Items /\ Aggregate(rs).status # "absent"
<1>1. RollUp(rs) \in RunItemStatus
  <2>1. CASE rs = NoRows
        BY <2>1, SeverityFacts DEF RollUp
  <2>2. CASE rs # NoRows
        BY <2>2, RollUpIsHeaviest DEF RunItemStatus
  <2> QED
      BY <2>1, <2>2
<1>2. \A S : Counting(rs, S) \in 0 .. MaxRows
  <2> SUFFICES ASSUME NEW S PROVE Counting(rs, S) \in 0 .. MaxRows
      OBVIOUS
  <2>1. {k \in Orders : rs[k] \in S} \in SUBSET Orders
        OBVIOUS
  <2>2. IsFiniteSet(Orders) /\ Cardinality(Orders) = MaxRows
        BY FS_Interval, ConstantsAreSensible DEF Orders
  <2>3. /\ IsFiniteSet({k \in Orders : rs[k] \in S})
        /\ Cardinality({k \in Orders : rs[k] \in S}) <= MaxRows
        BY <2>1, <2>2, FS_Subset
  <2>4. Cardinality({k \in Orders : rs[k] \in S}) \in Nat
        BY <2>3, FS_CardinalityType
  <2> QED
      BY <2>3, <2>4, ConstantsAreSensible DEF Counting
<1> QED
    BY <1>1, <1>2, SeverityFacts DEF Aggregate, Items

\* An update of the changed columns is an item again, with one of the statuses;
\* it is the new item when the one that was read is still there.
LEMMA UpdateChangedType ==
  ASSUME NEW now \in Items, NEW read \in Items, NEW new \in Items
  PROVE  /\ UpdateChanged(now, read, new) \in Items
         /\ UpdateChanged(now, read, new).status \in {now.status, new.status}
         /\ now = read => UpdateChanged(now, read, new) = new
<1> DEFINE u == UpdateChanged(now, read, new)
<1>1. DOMAIN now = {"status", "total", "passed", "failed"}
      BY DEF Items
<1>2. u = [f \in {"status", "total", "passed", "failed"} |->
             IF new[f] # read[f] THEN new[f] ELSE now[f]]
      BY <1>1 DEF UpdateChanged
<1>3. /\ u.status \in {now.status, new.status} /\ u.total \in {now.total, new.total}
      /\ u.passed \in {now.passed, new.passed} /\ u.failed \in {now.failed, new.failed}
      BY <1>2
<1>4. u \in Items
      BY <1>2, <1>3 DEF Items
<1>5. ASSUME now = read PROVE u = new
  <2>1. u \in Items /\ u.status = new.status /\ u.total = new.total
        /\ u.passed = new.passed /\ u.failed = new.failed
        BY <1>2, <1>4, <1>5
  <2> QED
      BY <2>1 DEF Items
<1> QED
    BY <1>3, <1>4, <1>5

-----------------------------------------------------------------------------
(* Requests that end, and those beside them. *)

Reqs == [op : Ops, step : {"idle", "read", "flushed"}, case : Cases,
         want : RowMaps, read : Items, agg : Items,
         sawOpen : BOOLEAN, alone : BOOLEAN]

LEMMA IdleType == Idle \in Reqs /\ NoRows \in RowMaps /\ NoItem \in Items
<1>1. AnyCase \in Cases
      BY ConstantsAreSensible DEF AnyCase
<1>2. NoRows \in RowMaps
      BY DEF NoRows, RowMaps
<1>3. NoItem \in Items
      BY ConstantsAreSensible DEF NoItem, Items
<1>4. "idle" \in Ops
      BY DEF Ops
<1> QED
    BY <1>1, <1>2, <1>3, <1>4 DEF Idle, Reqs

LEMMA IdleIsOK ==
  ASSUME NEW u \in Tx, tx'[u] = Idle
  PROVE  WritesOK(u)' /\ AloneOK(u)' /\ TxOK(u)'
<1>1. tx'[u].op = "idle" /\ tx'[u].step = "idle" /\ tx'[u].alone = FALSE
      BY DEF Idle
<1> QED
    BY <1>1 DEF WritesOK, AloneOK, TxOK, ItemOps, RowOps, Looks

\* What stays true of request u when request t takes a step.
LEMMA OthersStay ==
  ASSUME IInv, NEW t \in Tx, NEW u \in Tx \ {t}, Open(t), tx'[u] = tx[u],
         reported => reported',
         NEW c, c = tx[u].case,
         tx[u].op \in ItemOps =>
           /\ item'[c] # NoItem
           /\ RowsOf(c) \subseteq RowsOf(c)'
           /\ tx[u].op = "rerun" /\ tx[u].step = "flushed" =>
                Writes(u) \cap RowsOf(c)' = {}
  PROVE  WritesOK(u)' /\ AloneOK(u)' /\ TxOK(u)'
<1>1. WritesOK(u) /\ AloneOK(u) /\ TxOK(u)
      BY DEF IInv
<1>2. ~(tx[u].alone /\ Open(u))
      BY <1>1 DEF AloneOK
<1>3. AloneOK(u)'
      BY <1>2 DEF AloneOK, Open
<1>4. TxOK(u)'
      BY <1>1 DEF TxOK
<1>5. WritesOK(u)'
  <2>1. Writes(u)' = Writes(u)
        BY DEF Writes
  <2>2. c = tx'[u].case
        OBVIOUS
  <2>3. tx[u].op \in ItemOps => item'[c] # NoItem
        OBVIOUS
  <2>4. /\ tx[u].op = "create" => \E n \in 1 .. MaxRows : Writes(u) = 1 .. n
        /\ tx[u].op \in Looks => Writes(u) = {}
        BY <1>1 DEF WritesOK
  <2>5. tx[u].op = "patch_row" => Writes(u) \subseteq RowsOf(c)'
        BY <1>1 DEF WritesOK, ItemOps, RowOps
  <2>6. tx[u].op = "rerun" =>
          /\ \E a, b \in 0 .. MaxRows : Writes(u) = a + 1 .. b /\ 1 .. a \subseteq RowsOf(c)'
          /\ tx[u].step = "flushed" => Writes(u) \cap RowsOf(c)' = {}
    <3> SUFFICES ASSUME tx[u].op = "rerun"
                 PROVE  /\ \E a, b \in 0 .. MaxRows :
                             Writes(u) = a + 1 .. b /\ 1 .. a \subseteq RowsOf(c)'
                        /\ tx[u].step = "flushed" => Writes(u) \cap RowsOf(c)' = {}
        OBVIOUS
    <3>1. PICK a \in 0 .. MaxRows, b \in 0 .. MaxRows :
                 Writes(u) = a + 1 .. b /\ 1 .. a \subseteq RowsOf(c)
          BY <1>1 DEF WritesOK
    <3>2. RowsOf(c) \subseteq RowsOf(c)'
          BY DEF ItemOps, RowOps
    <3>3. 1 .. a \subseteq RowsOf(c)'
          BY <3>1, <3>2
    <3>4. tx[u].step = "flushed" => Writes(u) \cap RowsOf(c)' = {}
          BY DEF ItemOps, RowOps
    <3> QED
        BY <3>1, <3>3, <3>4
  <2> QED
      BY <2>1, <2>2, <2>3, <2>4, <2>5, <2>6 DEF WritesOK, RowsOf
<1> QED
    BY <1>3, <1>4, <1>5

\* No lock is added when requests end.
LEMMA LocksOnlyReleased ==
  ASSUME LocksAreDisjoint, \A u \in Tx : tx'[u] = tx[u] \/ tx'[u] = Idle
  PROVE  LocksAreDisjoint'
<1>1. \A u \in Tx, c \in Cases : Locked(u, c)' \subseteq Locked(u, c)
  <2> SUFFICES ASSUME NEW u \in Tx, NEW c \in Cases
               PROVE  Locked(u, c)' \subseteq Locked(u, c)
      OBVIOUS
  <2>1. CASE tx'[u] = tx[u]
        BY <2>1 DEF Locked, Writes
  <2>2. CASE tx'[u] = Idle
        BY <2>2 DEF Locked, Idle
  <2> QED
      BY <2>1, <2>2
<1> QED
    BY <1>1 DEF LocksAreDisjoint

\* Request t ends, and its changes keep what the others rely on.
LEMMA EndKeepsIInv ==
  ASSUME IInv, NEW t \in Tx, Open(t),
         tx' \in [Tx -> Reqs], tx'[t] = Idle,
         \A u \in Tx : tx'[u] = tx[u] \/ tx'[u] = Idle,
         run' \in TestRunStatus, item' \in [Cases -> Items],
         rows' \in [Cases -> RowMaps], history' \in [Cases -> Nat],
         reported' \in BOOLEAN, reported => reported', ClosedRunsAreReported',
         \A c \in Cases : CaseOK(c)' /\ (rows'[c] = NoRows <=> item'[c] = NoItem),
         \A u \in Tx \ {t}, c \in Cases :
           tx'[u] = tx[u] /\ tx[u].op \in ItemOps /\ tx[u].case = c =>
             /\ item'[c] # NoItem
             /\ RowsOf(c) \subseteq RowsOf(c)'
             /\ tx[u].op = "rerun" /\ tx[u].step = "flushed" =>
                  Writes(u) \cap RowsOf(c)' = {}
  PROVE  IInv'
<1>1. TypeOK'
      BY DEF TypeOK, Reqs
<1>2. \A u \in Tx : WritesOK(u)' /\ AloneOK(u)' /\ TxOK(u)'
  <2> SUFFICES ASSUME NEW u \in Tx PROVE WritesOK(u)' /\ AloneOK(u)' /\ TxOK(u)'
      OBVIOUS
  <2>1. CASE tx'[u] = Idle
        BY <2>1, IdleIsOK
  <2>2. CASE tx'[u] # Idle
    <3>1. u \in Tx \ {t} /\ tx'[u] = tx[u]
          BY <2>2
    <3>2. tx[u].case \in Cases
          BY DEF IInv, TypeOK
    <3> DEFINE c == tx[u].case
    <3>3. tx[u].op \in ItemOps =>
            /\ item'[c] # NoItem
            /\ RowsOf(c) \subseteq RowsOf(c)'
            /\ tx[u].op = "rerun" /\ tx[u].step = "flushed" =>
                 Writes(u) \cap RowsOf(c)' = {}
          BY <3>1, <3>2
    <3> QED
        BY <3>1, <3>2, <3>3, OthersStay
  <2> QED
      BY <2>1, <2>2
<1>3. LocksAreDisjoint'
      BY LocksOnlyReleased DEF IInv
<1> QED
    BY <1>1, <1>2, <1>3 DEF IInv

\* Request t ends, and leaves run cases and rows as they are.
LEMMA EndBesideCasesKeepsIInv ==
  ASSUME IInv, NEW t \in Tx, Open(t), Ends(t), UNCHANGED << item, rows, history >>,
         run' \in TestRunStatus, reported' \in BOOLEAN, reported => reported',
         ClosedRunsAreReported'
  PROVE  IInv'
<1>1. tx \in [Tx -> Reqs]
      BY DEF IInv, TypeOK, Reqs
<1>2. tx' \in [Tx -> Reqs] /\ tx'[t] = Idle /\ \A u \in Tx : tx'[u] = tx[u] \/ tx'[u] = Idle
      BY <1>1, IdleType DEF Ends
<1>3. \A c \in Cases : CaseOK(c)' /\ (rows'[c] = NoRows <=> item'[c] = NoItem)
      BY DEF IInv, TypeOK, CaseOK, RowsOf
<1>4. \A u \in Tx \ {t}, c \in Cases :
        tx'[u] = tx[u] /\ tx[u].op \in ItemOps /\ tx[u].case = c =>
          /\ item'[c] # NoItem
          /\ RowsOf(c) \subseteq RowsOf(c)'
          /\ tx[u].op = "rerun" /\ tx[u].step = "flushed" =>
               Writes(u) \cap RowsOf(c)' = {}
  <2> SUFFICES ASSUME NEW u \in Tx \ {t}, NEW c \in Cases,
                      tx[u].op \in ItemOps, tx[u].case = c
               PROVE  /\ item'[c] # NoItem
                      /\ RowsOf(c) \subseteq RowsOf(c)'
                      /\ tx[u].op = "rerun" /\ tx[u].step = "flushed" =>
                           Writes(u) \cap RowsOf(c)' = {}
      OBVIOUS
  <2>1. RowsOf(c)' = RowsOf(c)
        BY DEF RowsOf
  <2>2. WritesOK(u)
        BY DEF IInv
  <2>3. /\ item[c] # NoItem
        /\ tx[u].op = "rerun" /\ tx[u].step = "flushed" => Writes(u) \cap RowsOf(c) = {}
        BY <2>2 DEF WritesOK
  <2> QED
      BY <2>1, <2>3
<1>5. /\ item' \in [Cases -> Items] /\ rows' \in [Cases -> RowMaps]
      /\ history' \in [Cases -> Nat]
      BY DEF IInv, TypeOK
<1> QED
    BY <1>2, <1>3, <1>4, <1>5, EndKeepsIInv

LEMMA AbortKeepsIInv ==
  ASSUME IInv, NEW t \in Tx, Open(t), Abort(t)
  PROVE  IInv'
<1>1. /\ Ends(t) /\ UNCHANGED << item, rows, history >>
      /\ UNCHANGED << run, reported >>
      BY DEF Abort
<1>2. run' \in TestRunStatus /\ reported' \in BOOLEAN /\ ClosedRunsAreReported'
      BY <1>1 DEF IInv, TypeOK, ClosedRunsAreReported
<1> QED
    BY <1>1, <1>2, EndBesideCasesKeepsIInv

-----------------------------------------------------------------------------
(* Requests that begin. *)

LEMMA BeginKeepsIInv ==
  ASSUME IInv, NEW t \in Tx, NEW op \in Ops \ {"idle"}, NEW c \in Cases,
         NEW want \in RowMaps, NEW W, W = {k \in Orders : want[k] # NoRow},
         Begin(t, op, c, want),
         op \in ItemOps \cup {"create"} => run \notin Closed,
         op \in ItemOps => item[c] # NoItem,
         op = "create" => /\ run # "deleted" /\ item[c] = NoItem
                          /\ \E n \in 1 .. MaxRows : W = 1 .. n,
         op = "patch_row" => W \subseteq RowsOf(c),
         op = "rerun" => /\ \E a, b \in 0 .. MaxRows :
                              W = a + 1 .. b /\ 1 .. a \subseteq RowsOf(c)
                         /\ W \cap RowsOf(c) = {},
         op \in Looks => W = {},
         op \in DOMAIN Requires => run = Requires[op],
         op = "archive" => reported
  PROVE  IInv'
<1> DEFINE r == [op |-> op, step |-> "read", case |-> c, want |-> want,
                 read |-> IF op \in RowOps THEN item[c] ELSE NoItem,
                 agg |-> NoItem, sawOpen |-> run \notin Closed,
                 alone |-> \A v \in Tx \ {t} : ~Open(v)]
<1>1. tx \in [Tx -> Reqs] /\ item \in [Cases -> Items]
      BY DEF IInv, TypeOK, Reqs
<1>2. /\ tx' = [u \in Tx |-> IF u = t THEN r ELSE [tx[u] EXCEPT !.alone = FALSE]]
      /\ UNCHANGED << run, item, rows, history, reported >>
      BY DEF Begin
<1>3. r \in Reqs
      BY <1>1, IdleType DEF Reqs
<1>4. /\ r.op = op /\ r.step = "read" /\ r.case = c /\ r.want = want
      /\ (op \in RowOps => r.read = item[c]) /\ (r.sawOpen <=> run \notin Closed)
      /\ (r.alone => \A v \in Tx \ {t} : ~Open(v))
      OBVIOUS
<1> HIDE DEF r
<1>5. tx'[t] = r
      BY <1>2
<1>6. \A u \in Tx \ {t} :
        /\ tx'[u] \in Reqs
        /\ tx'[u].op = tx[u].op /\ tx'[u].step = tx[u].step /\ tx'[u].case = tx[u].case
        /\ tx'[u].want = tx[u].want /\ tx'[u].agg = tx[u].agg
        /\ tx'[u].sawOpen = tx[u].sawOpen /\ tx'[u].alone = FALSE
  <2> SUFFICES ASSUME NEW u \in Tx \ {t}
               PROVE  /\ tx'[u] \in Reqs
                      /\ tx'[u].op = tx[u].op /\ tx'[u].step = tx[u].step
                      /\ tx'[u].case = tx[u].case
                      /\ tx'[u].want = tx[u].want /\ tx'[u].agg = tx[u].agg
                      /\ tx'[u].sawOpen = tx[u].sawOpen /\ tx'[u].alone = FALSE
      OBVIOUS
  <2>1. tx'[u] = [tx[u] EXCEPT !.alone = FALSE] /\ tx[u] \in Reqs
        BY <1>1, <1>2
  <2> QED
      BY <2>1 DEF Reqs
<1>7. TypeOK'
  <2>1. tx' \in [Tx -> Reqs]
        BY <1>2, <1>3, <1>5, <1>6
  <2> QED
      BY <1>2, <2>1 DEF IInv, TypeOK, Reqs
<1>8. /\ \A x : RowsOf(x)' = RowsOf(x)
      /\ Writes(t)' = W
      /\ \A u \in Tx \ {t} : Writes(u)' = Writes(u)
  <2>1. \A x : RowsOf(x)' = RowsOf(x)
        BY <1>2 DEF RowsOf
  <2>2. Writes(t)' = W
        BY <1>4, <1>5 DEF Writes
  <2>3. \A u \in Tx \ {t} : Writes(u)' = Writes(u)
        BY <1>6 DEF Writes
  <2> QED
      BY <2>1, <2>2, <2>3
<1>9. (\A x \in Cases : CaseOK(x)') /\ ClosedRunsAreReported'
      BY <1>2 DEF IInv, CaseOK, RowsOf, ClosedRunsAreReported
<1>10. WritesOK(t)' /\ AloneOK(t)' /\ TxOK(t)'
  <2>1. WritesOK(t)'
        BY <1>2, <1>4, <1>5, <1>8 DEF WritesOK
  <2>2. AloneOK(t)'
    <3>1. r.alone => \A u \in Tx \ {t} : ~Open(u)'
          BY <1>4, <1>6 DEF Open
    <3> QED
        BY <1>2, <1>4, <1>5, <1>8, <3>1 DEF AloneOK
  <2>3. TxOK(t)'
        BY <1>2, <1>4, <1>5 DEF TxOK
  <2> QED
      BY <2>1, <2>2, <2>3
<1>11. \A u \in Tx \ {t} : WritesOK(u)' /\ AloneOK(u)' /\ TxOK(u)'
  <2> SUFFICES ASSUME NEW u \in Tx \ {t} PROVE WritesOK(u)' /\ AloneOK(u)' /\ TxOK(u)'
      OBVIOUS
  <2>1. WritesOK(u) /\ TxOK(u)
        BY DEF IInv
  <2>2. WritesOK(u)'
        BY <1>2, <1>6, <1>8, <2>1 DEF WritesOK
  <2>3. AloneOK(u)' /\ TxOK(u)'
        BY <1>2, <1>6, <2>1 DEF AloneOK, TxOK
  <2> QED
      BY <2>2, <2>3
<1>12. LocksAreDisjoint'
  <2>1. \A u \in Tx, x \in Cases : Locked(u, x)' \subseteq Locked(u, x)
    <3> SUFFICES ASSUME NEW u \in Tx, NEW x \in Cases
                 PROVE  Locked(u, x)' \subseteq Locked(u, x)
        OBVIOUS
    <3>1. CASE u = t
          BY <1>4, <1>5, <3>1 DEF Locked
    <3>2. CASE u # t
          BY <1>6, <1>8, <3>2 DEF Locked
    <3> QED
        BY <3>1, <3>2
  <2> QED
      BY <2>1 DEF IInv, LocksAreDisjoint
<1> QED
    BY <1>7, <1>9, <1>10, <1>11, <1>12 DEF IInv

LEMMA CreateRunCaseKeepsIInv ==
  ASSUME IInv, NEW t \in Tx, NEW c \in Cases, NEW n \in Scenarios, CreateRunCase(t, c, n)
  PROVE  IInv'
<1> DEFINE want == [k \in Orders |-> IF k <= n THEN "untested" ELSE NoRow]
           W == {k \in Orders : want[k] # NoRow}
<1>1. n \in 1 .. MaxRows /\ n \in Nat
      BY ConstantsAreSensible DEF Orders
<1>2. want \in RowMaps
      BY SeverityFacts DEF RowMaps
<1>3. W = 1 .. n
  <2>1. \A k \in Orders : want[k] # NoRow <=> k <= n
        BY DEF NoRow
  <2>2. MaxRows \in Nat
        BY ConstantsAreSensible
  <2> QED
      BY <1>1, <2>1, <2>2 DEF Orders
<1>4. Begin(t, "create", c, want) /\ run \in {"not_started", "in_progress"} /\ item[c] = NoItem
      BY DEF CreateRunCase
<1>5. "create" \in Ops \ {"idle"} /\ "create" \notin ItemOps \cup Looks \cup DOMAIN Requires
      BY DEF Ops, ItemOps, RowOps, Looks, Requires
<1>6. run # "deleted" /\ run \notin Closed
      BY <1>4 DEF Closed
<1> HIDE DEF want, W
<1>7. W = {k \in Orders : want[k] # NoRow}
      BY DEF W
<1> QED
    BY <1>1, <1>2, <1>3, <1>4, <1>5, <1>6, <1>7, BeginKeepsIInv

LEMMA PatchRunCaseRowKeepsIInv ==
  ASSUME IInv, NEW t \in Tx, NEW c \in Cases, NEW k \in Orders, NEW s \in Outcomes,
         PatchRunCaseRow(t, c, k, s)
  PROVE  IInv'
<1> DEFINE want == IF s = rows[c][k] THEN NoRows ELSE [NoRows EXCEPT ![k] = s]
           W == {j \in Orders : want[j] # NoRow}
<1>1. s \in RunItemStatus /\ rows \in [Cases -> RowMaps]
      BY ConstantsAreSensible DEF IInv, TypeOK
<1>2. want \in RowMaps
      BY <1>1, IdleType DEF RowMaps
<1>3. W \subseteq RowsOf(c)
      BY DEF NoRows, RowsOf, PatchRunCaseRow
<1>4. Begin(t, "patch_row", c, want) /\ run \notin Closed /\ rows[c][k] # NoRow
      BY DEF PatchRunCaseRow, AllowsCaseMutation
<1>5. item[c] # NoItem
      BY <1>4 DEF IInv, TypeOK, NoRows
<1>6. "patch_row" \in Ops \ {"idle"} /\ "patch_row" \notin Looks \cup DOMAIN Requires
      BY DEF Ops, ItemOps, RowOps, Looks, Requires
<1> HIDE DEF want, W
<1>7. W = {j \in Orders : want[j] # NoRow}
      BY DEF W
<1> QED
    BY <1>2, <1>3, <1>4, <1>5, <1>6, <1>7, BeginKeepsIInv

LEMMA RerunRunCaseKeepsIInv ==
  ASSUME IInv, NEW t \in Tx, NEW c \in Cases, NEW n \in 0 .. MaxRows, RerunRunCase(t, c, n)
  PROVE  IInv'
<1> DEFINE last == CHOOSE k \in RowsOf(c) : \A j \in RowsOf(c) : j <= k
<1>1. PICK m \in 0 .. MaxRows : RowsOf(c) = 1 .. m
      BY DEF IInv, CaseOK
<1>2. m \in Nat /\ n \in Nat /\ MaxRows \in Nat /\ RowsOf(c) # {}
      BY ConstantsAreSensible DEF RerunRunCase
<1>3. last = m
  <2>1. m \in RowsOf(c) /\ \A j \in RowsOf(c) : j <= m
        BY <1>1, <1>2
  <2>2. last \in RowsOf(c) /\ \A j \in RowsOf(c) : j <= last
        BY <2>1
  <2> QED
      BY <1>1, <1>2, <2>1, <2>2
<1> DEFINE want == [k \in Orders |-> IF k \in last + 1 .. last + n THEN "untested" ELSE NoRow]
           W == {k \in Orders : want[k] # NoRow}
<1>4. last + n <= MaxRows /\ Begin(t, "rerun", c, want) /\ run \notin Closed
      BY DEF RerunRunCase, AllowsCaseMutation
<1>5. want \in RowMaps
      BY SeverityFacts DEF RowMaps
<1> HIDE DEF last
<1>6. W = m + 1 .. m + n
  <2>1. \A k \in Orders : want[k] # NoRow <=> k \in m + 1 .. m + n
        BY <1>3 DEF NoRow
  <2>2. \A k \in m + 1 .. m + n : k \in Orders
        BY <1>2, <1>3, <1>4 DEF Orders
  <2> QED
      BY <2>1, <2>2
<1>7. /\ m \in 0 .. MaxRows /\ m + n \in 0 .. MaxRows
      /\ 1 .. m \subseteq RowsOf(c) /\ W \cap RowsOf(c) = {}
      BY <1>1, <1>2, <1>3, <1>4, <1>6
<1>8. item[c] # NoItem
      BY <1>2 DEF IInv, TypeOK, NoRows, RowsOf
<1>9. "rerun" \in Ops \ {"idle"} /\ "rerun" \notin Looks \cup DOMAIN Requires
      BY DEF Ops, ItemOps, RowOps, Looks, Requires
<1> HIDE DEF want, W
<1>10. W = {k \in Orders : want[k] # NoRow}
      BY DEF W
<1> QED
    BY <1>4, <1>5, <1>6, <1>7, <1>8, <1>9, <1>10, BeginKeepsIInv

\* The requests that write no rows.
LEMMA BeginOnlyKeepsIInv ==
  ASSUME IInv, NEW t \in Tx, NEW op \in RunOps \cup {"delete_item"}, NEW c \in Cases,
         Begin(t, op, c, NoRows),
         op = "delete_item" => run \notin Closed /\ item[c] # NoItem,
         op \in DOMAIN Requires => run = Requires[op],
         op = "archive" => reported
  PROVE  IInv'
<1>1. op \in Ops \ {"idle"} /\ op \notin RowOps \cup {"create"}
      BY DEF Ops, ItemOps, RowOps, RunOps, Requires
<1>2. op \in ItemOps => op = "delete_item"
      BY DEF RunOps, ItemOps, RowOps
<1>3. {} = {k \in Orders : NoRows[k] # NoRow}
      BY DEF NoRows
<1> QED
    BY <1>1, <1>2, <1>3, IdleType, BeginKeepsIInv DEF RowOps

-----------------------------------------------------------------------------
(* Requests that go on. *)

LEMMA OpenOps ==
  ASSUME NEW t \in Tx, tx[t].op \in Ops \ {"idle"}
  PROVE  Open(t)
BY DEF Open

\* Request t reaches its second step.
LEMMA FlushKeepsIInv ==
  ASSUME IInv, NEW t \in Tx, NEW r, tx[t].step = "read",
         tx' = [tx EXCEPT ![t] = r], UNCHANGED << run, item, rows, history, reported >>,
         r \in Reqs, r.op = tx[t].op, r.step = "flushed", r.case = tx[t].case,
         r.want = tx[t].want, r.read = tx[t].read, r.sawOpen = tx[t].sawOpen,
         r.alone = tx[t].alone,
         \/ /\ r.op \in RowOps /\ r.agg = Aggregate(After(t))
            /\ r.op = "rerun" => Writes(t) \cap RowsOf(r.case) = {}
            /\ Writes(t) \cap LockedByOthers(t, r.case) = {}
         \/ r.op \in Looks /\ (r.op = "complete" => NoneInProgress)
  PROVE  IInv'
<1>1. tx \in [Tx -> Reqs] /\ rows \in [Cases -> RowMaps]
      BY DEF IInv, TypeOK, Reqs
<1>2. tx' \in [Tx -> Reqs] /\ tx'[t] = r /\ \A u \in Tx \ {t} : tx'[u] = tx[u]
      BY <1>1
<1>3. TypeOK'
      BY <1>2 DEF IInv, TypeOK, Reqs
<1>4. \A c \in Cases : CaseOK(c)'
      BY DEF IInv, CaseOK, RowsOf
<1>5. ClosedRunsAreReported'
      BY DEF IInv, ClosedRunsAreReported
<1>6. Open(t)
      BY DEF IInv, TxOK, Open, RowOps, Looks
<1>7. Writes(t)' = Writes(t) /\ After(t)' = After(t)
      BY <1>2 DEF Writes, After
<1> DEFINE c == r.case
<1>8. RowsOf(c)' = RowsOf(c)
      BY DEF RowsOf
<1>9. r.op \in RowOps => r.agg.status # "absent"
  <2>1. r.want \in RowMaps /\ rows[c] \in RowMaps
        BY <1>1 DEF Reqs
  <2>2. After(t) \in RowMaps
        BY <2>1 DEF After, RowMaps
  <2> QED
      BY <2>2, AggregateType DEF RowOps, Looks
<1>10. WritesOK(t)'
  <2>1. WritesOK(t)
        BY DEF IInv
  <2> QED
      BY <1>2, <1>7, <1>8, <2>1 DEF WritesOK
<1>11. TxOK(t)'
  <2>1. TxOK(t)
        BY DEF IInv
  <2> QED
      BY <1>2, <1>9, <2>1 DEF TxOK
<1>12. AloneOK(t)'
  <2>1. AloneOK(t)
        BY DEF IInv
  <2>2. \A u \in Tx \ {t} : Open(u)' = Open(u)
        BY <1>2 DEF Open
  <2>3. NoneInProgress' <=> NoneInProgress
        BY DEF NoneInProgress
  <2> QED
      BY <1>2, <1>6, <1>7, <1>8, <2>1, <2>2, <2>3 DEF AloneOK, RowOps, Looks
<1>13. \A u \in Tx \ {t} : WritesOK(u)' /\ AloneOK(u)' /\ TxOK(u)'
  <2> SUFFICES ASSUME NEW u \in Tx \ {t} PROVE WritesOK(u)' /\ AloneOK(u)' /\ TxOK(u)'
      OBVIOUS
  <2> DEFINE d == tx[u].case
  <2>1. RowsOf(d)' = {k \in Orders : rows'[tx'[u].case][k] # NoRow}
        BY DEF RowsOf
  <2>2. WritesOK(u)
        BY DEF IInv
  <2> QED
      BY <1>2, <1>6, <2>2, OthersStay DEF WritesOK, RowsOf
<1>14. LocksAreDisjoint'
  <2>1. \A u \in Tx \ {t}, x \in Cases : Locked(u, x)' = Locked(u, x)
        BY <1>2 DEF Locked, Writes
  <2>2. \A x \in Cases : Locked(t, x)' \subseteq Writes(t)
        BY <1>2, <1>7 DEF Locked
  <2>3. \A x \in Cases : x # c => Locked(t, x)' = {}
        BY <1>2 DEF Locked
  <2>4. r.op \in Looks => Writes(t) = {}
        BY DEF IInv, WritesOK
  <2>5. Writes(t) \cap LockedByOthers(t, c) = {}
        BY <2>4
  <2> QED
      BY <2>1, <2>2, <2>3, <2>5 DEF IInv, LocksAreDisjoint, LockedByOthers
<1> QED
    BY <1>3, <1>4, <1>5, <1>10, <1>11, <1>12, <1>13, <1>14 DEF IInv

LEMMA FlushRowsKeepsIInv ==
  ASSUME IInv, NEW t \in Tx, FlushRows(t)
  PROVE  IInv'
<1> DEFINE r == [tx[t] EXCEPT !.step = "flushed", !.agg = Aggregate(After(t))]
<1>1. tx[t] \in Reqs /\ rows \in [Cases -> RowMaps]
      BY DEF IInv, TypeOK, Reqs
<1>2. After(t) \in RowMaps
      BY <1>1 DEF After, Reqs, RowMaps
<1>3. Aggregate(After(t)) \in Items
      BY <1>2, AggregateType
<1>4. /\ r \in Reqs /\ r.op = tx[t].op /\ r.step = "flushed" /\ r.case = tx[t].case
      /\ r.want = tx[t].want /\ r.read = tx[t].read /\ r.sawOpen = tx[t].sawOpen
      /\ r.alone = tx[t].alone /\ r.agg = Aggregate(After(t))
      BY <1>1, <1>3 DEF Reqs
<1>5. /\ tx' = [tx EXCEPT ![t] = r]
      /\ UNCHANGED << run, item, rows, history, reported >>
      BY DEF FlushRows
<1>6. /\ tx[t].step = "read" /\ tx[t].op \in RowOps
      /\ tx[t].op = "rerun" => Writes(t) \cap RowsOf(tx[t].case) = {}
      /\ Writes(t) \cap LockedByOthers(t, tx[t].case) = {}
      BY DEF FlushRows
<1> HIDE DEF r
<1> QED
    BY <1>4, <1>5, <1>6, FlushKeepsIInv

LEMMA LookKeepsIInv ==
  ASSUME IInv, NEW t \in Tx, CountInProgress(t) \/ LoadHistory(t) \/ LoadItems(t)
  PROVE  IInv'
<1> DEFINE r == [tx[t] EXCEPT !.step = "flushed"]
<1>1. tx[t] \in Reqs
      BY DEF IInv, TypeOK, Reqs
<1>2. /\ r \in Reqs /\ r.op = tx[t].op /\ r.step = "flushed" /\ r.case = tx[t].case
      /\ r.want = tx[t].want /\ r.read = tx[t].read /\ r.sawOpen = tx[t].sawOpen
      /\ r.alone = tx[t].alone
      BY <1>1 DEF Reqs
<1>3. /\ tx' = [tx EXCEPT ![t] = r]
      /\ UNCHANGED << run, item, rows, history, reported >>
      /\ tx[t].step = "read" /\ tx[t].op \in Looks
      /\ tx[t].op = "complete" => NoneInProgress
      BY DEF CountInProgress, LoadHistory, LoadItems, Looks
<1> HIDE DEF r
<1> QED
    BY <1>2, <1>3, FlushKeepsIInv

\* The rows a commit leaves are numbered from one again, and hold what was
\* there and what the request wrote.
LEMMA CommittedRows ==
  ASSUME IInv, NEW t \in Tx, tx[t].op \in RowOps, tx[t].step = "flushed",
         NEW c, c = tx[t].case
  PROVE  /\ After(t) \in RowMaps
         /\ {k \in Orders : After(t)[k] # NoRow} = RowsOf(c) \cup Writes(t)
         /\ \E m \in 0 .. MaxRows : RowsOf(c) \cup Writes(t) = 1 .. m
         /\ After(t) # NoRows
<1>1. tx[t] \in Reqs /\ rows \in [Cases -> RowMaps] /\ c \in Cases
      BY DEF IInv, TypeOK, Reqs
<1>2. After(t) \in RowMaps
      BY <1>1 DEF After, Reqs, RowMaps
<1>3. {k \in Orders : After(t)[k] # NoRow} = RowsOf(c) \cup Writes(t)
      BY DEF After, RowsOf, Writes
<1>4. PICK m \in 0 .. MaxRows : RowsOf(c) = 1 .. m
      BY <1>1 DEF IInv, CaseOK
<1>5. WritesOK(t)
      BY DEF IInv
<1>6. \E n \in 0 .. MaxRows : RowsOf(c) \cup Writes(t) = 1 .. n
  <2>1. CASE tx[t].op = "patch_row"
        BY <1>4, <1>5, <2>1 DEF WritesOK
  <2>2. CASE tx[t].op = "rerun"
    <3>1. PICK a \in 0 .. MaxRows, b \in 0 .. MaxRows :
                 Writes(t) = a + 1 .. b /\ 1 .. a \subseteq RowsOf(c)
          BY <1>5, <2>2 DEF WritesOK
    <3>2. Writes(t) \cap RowsOf(c) = {}
          BY <1>5, <2>2 DEF WritesOK
    <3>3. a \in Nat /\ b \in Nat /\ m \in Nat
          BY ConstantsAreSensible
    <3>4. CASE a + 1 > b
      <4>1. Writes(t) = {}
            BY <3>1, <3>3, <3>4
      <4> QED
          BY <1>4, <4>1
    <3>5. CASE a + 1 <= b
      <4>1. a <= m
        <5>1. CASE a = 0
              BY <3>3, <5>1
        <5>2. CASE a > 0
              BY <1>4, <3>1, <3>3, <5>2
        <5> QED
            BY <3>3, <5>1, <5>2
      <4>2. ~(a + 1 <= m)
        <5> SUFFICES ASSUME a + 1 <= m PROVE FALSE
            OBVIOUS
        <5>1. a + 1 \in Writes(t) /\ a + 1 \in RowsOf(c)
              BY <1>4, <3>1, <3>3, <3>5
        <5> QED
            BY <3>2, <5>1
      <4>3. a = m
            BY <3>3, <4>1, <4>2
      <4>4. RowsOf(c) \cup Writes(t) = 1 .. b
            BY <1>4, <3>1, <3>3, <3>5, <4>3
      <4> QED
          BY <4>4
    <3> QED
        BY <3>3, <3>4, <3>5
  <2> QED
      BY <2>1, <2>2 DEF RowOps
<1>7. After(t) # NoRows
  <2>1. item[c] # NoItem
        BY <1>5 DEF WritesOK, ItemOps
  <2>2. rows[c] # NoRows
        BY <1>1, <2>1 DEF IInv, TypeOK
  <2>3. PICK k \in Orders : rows[c][k] # NoRow
        BY <1>1, <2>2 DEF NoRows, RowMaps
  <2>4. After(t)[k] # NoRow
        BY <1>3, <2>3 DEF RowsOf
  <2> QED
      BY <2>3, <2>4 DEF NoRows
<1> QED
    BY <1>2, <1>3, <1>6, <1>7

-----------------------------------------------------------------------------
(* Commits. *)

\* What a commit puts for the case of its request.
LEMMA CommitRowsEffect ==
  ASSUME IInv, NEW t \in Tx, CommitRows(t), NEW c, c = tx[t].case
  PROVE  /\ c \in Cases /\ Open(t) /\ tx[t].op \in RowOps /\ tx[t].step = "flushed"
         /\ rows' = [rows EXCEPT ![c] = After(t)]
         /\ item' = [item EXCEPT ![c] = UpdateChanged(item[c], tx[t].read, tx[t].agg)]
         /\ item'[c] \in Items /\ item'[c] # NoItem /\ item'[c].status # "absent"
         /\ tx[t].read = item[c] => item'[c] = tx[t].agg
         /\ history' \in [Cases -> Nat] /\ Ends(t) /\ UNCHANGED << run, reported >>
<1>1. /\ tx[t] \in Reqs /\ c \in Cases /\ item \in [Cases -> Items]
      /\ history \in [Cases -> Nat]
      BY DEF IInv, TypeOK, Reqs
<1>2. tx[t].op \in RowOps /\ tx[t].step = "flushed"
      BY DEF CommitRows
<1>3. Open(t)
      BY <1>2 DEF Open, RowOps
<1>4. /\ rows' = [rows EXCEPT ![c] = After(t)]
      /\ item' = [item EXCEPT ![c] = UpdateChanged(item[c], tx[t].read, tx[t].agg)]
      /\ Ends(t) /\ UNCHANGED << run, reported >>
      BY DEF CommitRows
<1>5. history' \in [Cases -> Nat]
  <2>1. \A n \in Nat : n + 1 \in Nat
        OBVIOUS
  <2> QED
      BY <1>1, <2>1 DEF CommitRows
<1>6. item'[c] = UpdateChanged(item[c], tx[t].read, tx[t].agg)
      BY <1>1, <1>4
<1>7. /\ item[c] # NoItem /\ item[c].status # "absent" /\ tx[t].agg.status # "absent"
  <2>1. WritesOK(t) /\ TxOK(t) /\ CaseOK(c)
        BY <1>1 DEF IInv
  <2>2. item[c] # NoItem
        BY <1>2, <2>1 DEF WritesOK, ItemOps
  <2> QED
      BY <1>2, <2>1, <2>2 DEF CaseOK, TxOK, RowOps, Looks
<1>8. item[c] \in Items /\ tx[t].read \in Items /\ tx[t].agg \in Items
      BY <1>1 DEF Reqs
<1>9. /\ item'[c] \in Items /\ item'[c].status # "absent"
      /\ tx[t].read = item[c] => item'[c] = tx[t].agg
      BY <1>6, <1>7, <1>8, UpdateChangedType
<1>10. item'[c] # NoItem
      BY <1>9 DEF NoItem
<1> QED
    BY <1>1, <1>2, <1>3, <1>4, <1>5, <1>9, <1>10

LEMMA CommitRowsKeepsIInv ==
  ASSUME IInv, NEW t \in Tx, CommitRows(t)
  PROVE  IInv'
<1> PICK c : c = tx[t].case
    OBVIOUS
<1>1. /\ c \in Cases /\ Open(t) /\ tx[t].op \in RowOps /\ tx[t].step = "flushed"
      /\ rows' = [rows EXCEPT ![c] = After(t)]
      /\ item' = [item EXCEPT ![c] = UpdateChanged(item[c], tx[t].read, tx[t].agg)]
      /\ item'[c] \in Items /\ item'[c] # NoItem /\ item'[c].status # "absent"
      /\ history' \in [Cases -> Nat] /\ Ends(t) /\ UNCHANGED << run, reported >>
      BY CommitRowsEffect
<1>2. /\ After(t) \in RowMaps
      /\ {k \in Orders : After(t)[k] # NoRow} = RowsOf(c) \cup Writes(t)
      /\ \E m \in 0 .. MaxRows : RowsOf(c) \cup Writes(t) = 1 .. m
      /\ After(t) # NoRows
      BY <1>1, CommittedRows
<1>3. /\ tx \in [Tx -> Reqs] /\ item \in [Cases -> Items] /\ rows \in [Cases -> RowMaps]
      BY DEF IInv, TypeOK, Reqs
<1>4. /\ \A d \in Cases \ {c} : item'[d] = item[d] /\ rows'[d] = rows[d]
      /\ rows'[c] = After(t)
      /\ item' \in [Cases -> Items] /\ rows' \in [Cases -> RowMaps]
      BY <1>1, <1>2, <1>3
<1>5. tx' \in [Tx -> Reqs] /\ tx'[t] = Idle /\ \A u \in Tx : tx'[u] = tx[u] \/ tx'[u] = Idle
      BY <1>1, <1>3, IdleType DEF Ends
<1>6. /\ RowsOf(c)' = RowsOf(c) \cup Writes(t)
      /\ \A d \in Cases \ {c} : RowsOf(d)' = RowsOf(d)
  <2>1. RowsOf(c)' = {k \in Orders : After(t)[k] # NoRow}
        BY <1>4 DEF RowsOf
  <2> QED
      BY <1>2, <1>4, <2>1 DEF RowsOf
<1>7. \A d \in Cases : CaseOK(d)' /\ (rows'[d] = NoRows <=> item'[d] = NoItem)
  <2> SUFFICES ASSUME NEW d \in Cases
               PROVE  CaseOK(d)' /\ (rows'[d] = NoRows <=> item'[d] = NoItem)
      OBVIOUS
  <2>1. CASE d = c
        BY <1>1, <1>2, <1>4, <1>6, <2>1 DEF CaseOK
  <2>2. CASE d # c
        BY <1>4, <1>6, <2>2 DEF IInv, TypeOK, CaseOK
  <2> QED
      BY <2>1, <2>2
<1>8. \A u \in Tx \ {t}, d \in Cases :
        tx'[u] = tx[u] /\ tx[u].op \in ItemOps /\ tx[u].case = d =>
          /\ item'[d] # NoItem
          /\ RowsOf(d) \subseteq RowsOf(d)'
          /\ tx[u].op = "rerun" /\ tx[u].step = "flushed" =>
               Writes(u) \cap RowsOf(d)' = {}
  <2> SUFFICES ASSUME NEW u \in Tx \ {t}, NEW d \in Cases,
                      tx[u].op \in ItemOps, tx[u].case = d
               PROVE  /\ item'[d] # NoItem
                      /\ RowsOf(d) \subseteq RowsOf(d)'
                      /\ tx[u].op = "rerun" /\ tx[u].step = "flushed" =>
                           Writes(u) \cap RowsOf(d)' = {}
      OBVIOUS
  <2>1. WritesOK(u)
        BY DEF IInv
  <2>2. /\ item[d] # NoItem
        /\ tx[u].op = "rerun" /\ tx[u].step = "flushed" => Writes(u) \cap RowsOf(d) = {}
        BY <2>1 DEF WritesOK
  <2>3. CASE d = c
    <3>1. tx[u].step = "flushed" => Writes(u) \cap Writes(t) = {}
          BY <1>1, <2>3 DEF IInv, LocksAreDisjoint, Locked
    <3> QED
        BY <1>1, <1>6, <2>2, <2>3, <3>1
  <2>4. CASE d # c
        BY <1>4, <1>6, <2>2, <2>4
  <2> QED
      BY <2>3, <2>4
<1>9. /\ run' \in TestRunStatus /\ reported' \in BOOLEAN /\ (reported => reported')
      /\ ClosedRunsAreReported'
      BY <1>1 DEF IInv, TypeOK, ClosedRunsAreReported
<1> QED
    BY <1>1, <1>4, <1>5, <1>7, <1>8, <1>9, EndKeepsIInv

LEMMA CommitCreateKeepsIInv ==
  ASSUME IInv, NEW t \in Tx, CommitCreate(t)
  PROVE  IInv'
<1> PICK c : c = tx[t].case
    OBVIOUS
<1>1. /\ tx \in [Tx -> Reqs] /\ item \in [Cases -> Items] /\ rows \in [Cases -> RowMaps]
      /\ history \in [Cases -> Nat] /\ c \in Cases /\ tx[t].want \in RowMaps
      BY DEF IInv, TypeOK, Reqs
<1>2. /\ tx[t].op = "create" /\ item[c] = NoItem
      /\ item' = [item EXCEPT ![c] = Aggregate(tx[t].want)]
      /\ rows' = [rows EXCEPT ![c] = tx[t].want]
      /\ Ends(t) /\ UNCHANGED << run, history, reported >>
      BY DEF CommitCreate
<1>3. PICK n \in 1 .. MaxRows : Writes(t) = 1 .. n
      BY <1>2 DEF IInv, WritesOK
<1>4. /\ Aggregate(tx[t].want) \in Items /\ Aggregate(tx[t].want).status # "absent"
      /\ Aggregate(tx[t].want) # NoItem
      BY <1>1, AggregateType DEF NoItem
<1>5. {k \in Orders : tx[t].want[k] # NoRow} = 1 .. n /\ tx[t].want # NoRows
  <2>1. 1 \in Writes(t)
        BY <1>3
  <2> QED
      BY <1>3, <2>1 DEF Writes, NoRows
<1>6. PICK want : want = tx[t].want
      OBVIOUS
<1>7. Open(t)
      BY <1>2 DEF Open
<1>8. /\ \A d \in Cases \ {c} : item'[d] = item[d] /\ rows'[d] = rows[d]
      /\ rows'[c] = want /\ item'[c] = Aggregate(want)
      /\ item' \in [Cases -> Items] /\ rows' \in [Cases -> RowMaps]
      BY <1>1, <1>2, <1>4, <1>6
<1>9. tx' \in [Tx -> Reqs] /\ tx'[t] = Idle /\ \A u \in Tx : tx'[u] = tx[u] \/ tx'[u] = Idle
      BY <1>1, <1>2, IdleType DEF Ends
<1>10. \A d \in Cases : CaseOK(d)' /\ (rows'[d] = NoRows <=> item'[d] = NoItem)
  <2> SUFFICES ASSUME NEW d \in Cases
               PROVE  CaseOK(d)' /\ (rows'[d] = NoRows <=> item'[d] = NoItem)
      OBVIOUS
  <2>1. CASE d = c
    <3>1. RowsOf(d)' = 1 .. n /\ n \in 0 .. MaxRows
          BY <1>5, <1>6, <1>8, <2>1 DEF RowsOf
    <3> QED
        BY <1>4, <1>5, <1>6, <1>8, <2>1, <3>1 DEF CaseOK
  <2>2. CASE d # c
        BY <1>8, <2>2 DEF IInv, TypeOK, CaseOK, RowsOf
  <2> QED
      BY <2>1, <2>2
<1>11. \A u \in Tx \ {t}, d \in Cases :
        tx'[u] = tx[u] /\ tx[u].op \in ItemOps /\ tx[u].case = d =>
          /\ item'[d] # NoItem
          /\ RowsOf(d) \subseteq RowsOf(d)'
          /\ tx[u].op = "rerun" /\ tx[u].step = "flushed" =>
               Writes(u) \cap RowsOf(d)' = {}
  <2> SUFFICES ASSUME NEW u \in Tx \ {t}, NEW d \in Cases,
                      tx[u].op \in ItemOps, tx[u].case = d
               PROVE  /\ item'[d] # NoItem
                      /\ RowsOf(d) \subseteq RowsOf(d)'
                      /\ tx[u].op = "rerun" /\ tx[u].step = "flushed" =>
                           Writes(u) \cap RowsOf(d)' = {}
      OBVIOUS
  <2>1. WritesOK(u)
        BY DEF IInv
  <2>2. /\ item[d] # NoItem
        /\ tx[u].op = "rerun" /\ tx[u].step = "flushed" => Writes(u) \cap RowsOf(d) = {}
        BY <2>1 DEF WritesOK
  <2>3. d # c
        BY <1>2, <2>2
  <2>4. RowsOf(d)' = RowsOf(d)
        BY <1>8, <2>3 DEF RowsOf
  <2> QED
      BY <1>8, <2>2, <2>3, <2>4
<1>12. /\ run' \in TestRunStatus /\ reported' \in BOOLEAN /\ (reported => reported')
      /\ history' \in [Cases -> Nat] /\ ClosedRunsAreReported'
      BY <1>1, <1>2 DEF IInv, TypeOK, ClosedRunsAreReported
<1> QED
    BY <1>7, <1>8, <1>9, <1>10, <1>11, <1>12, EndKeepsIInv

LEMMA CommitDeleteItemKeepsIInv ==
  ASSUME IInv, NEW t \in Tx, CommitDeleteItem(t)
  PROVE  IInv'
<1> PICK c : c = tx[t].case
    OBVIOUS
<1>1. /\ tx \in [Tx -> Reqs] /\ item \in [Cases -> Items] /\ rows \in [Cases -> RowMaps]
      /\ history \in [Cases -> Nat] /\ c \in Cases
      BY DEF IInv, TypeOK, Reqs
<1>2. /\ tx[t].op = "delete_item"
      /\ item' = [item EXCEPT ![c] = NoItem]
      /\ rows' = [rows EXCEPT ![c] = NoRows]
      /\ tx' = [u \in Tx |-> IF u = t \/ (tx[u].op \in ItemOps /\ tx[u].case = c)
                            THEN Idle ELSE tx[u]]
      /\ history' = [history EXCEPT ![c] = 0] /\ UNCHANGED << run, reported >>
      BY DEF CommitDeleteItem
<1>3. Open(t)
      BY <1>2 DEF Open
<1>4. /\ \A d \in Cases \ {c} : item'[d] = item[d] /\ rows'[d] = rows[d]
      /\ rows'[c] = NoRows /\ item'[c] = NoItem
      /\ item' \in [Cases -> Items] /\ rows' \in [Cases -> RowMaps]
      BY <1>1, <1>2, IdleType
<1>5. tx' \in [Tx -> Reqs] /\ tx'[t] = Idle /\ \A u \in Tx : tx'[u] = tx[u] \/ tx'[u] = Idle
      BY <1>1, <1>2, IdleType
<1>6. \A d \in Cases : CaseOK(d)' /\ (rows'[d] = NoRows <=> item'[d] = NoItem)
  <2> SUFFICES ASSUME NEW d \in Cases
               PROVE  CaseOK(d)' /\ (rows'[d] = NoRows <=> item'[d] = NoItem)
      OBVIOUS
  <2>1. CASE d = c
    <3>1. RowsOf(d)' = {}
          BY <1>4, <2>1 DEF RowsOf, NoRows
    <3>2. 0 \in 0 .. MaxRows /\ 1 .. 0 = {}
          BY ConstantsAreSensible
    <3>3. \E m \in 0 .. MaxRows : RowsOf(d)' = 1 .. m
          BY <3>1, <3>2
    <3> QED
        BY <1>4, <2>1, <3>3 DEF CaseOK
  <2>2. CASE d # c
        BY <1>4, <2>2 DEF IInv, TypeOK, CaseOK, RowsOf
  <2> QED
      BY <2>1, <2>2
<1>7. \A u \in Tx \ {t}, d \in Cases :
        tx'[u] = tx[u] /\ tx[u].op \in ItemOps /\ tx[u].case = d =>
          /\ item'[d] # NoItem
          /\ RowsOf(d) \subseteq RowsOf(d)'
          /\ tx[u].op = "rerun" /\ tx[u].step = "flushed" =>
               Writes(u) \cap RowsOf(d)' = {}
  <2> SUFFICES ASSUME NEW u \in Tx \ {t}, NEW d \in Cases, tx'[u] = tx[u],
                      tx[u].op \in ItemOps, tx[u].case = d
               PROVE  /\ item'[d] # NoItem
                      /\ RowsOf(d) \subseteq RowsOf(d)'
                      /\ tx[u].op = "rerun" /\ tx[u].step = "flushed" =>
                           Writes(u) \cap RowsOf(d)' = {}
      OBVIOUS
  <2>1. WritesOK(u)
        BY DEF IInv
  <2>2. /\ item[d] # NoItem
        /\ tx[u].op = "rerun" /\ tx[u].step = "flushed" => Writes(u) \cap RowsOf(d) = {}
        BY <2>1 DEF WritesOK
  <2>3. d # c
    <3> SUFFICES ASSUME d = c PROVE FALSE
        OBVIOUS
    <3>1. tx'[u] = Idle
          BY <1>2
    <3> QED
        BY <3>1 DEF Idle, ItemOps, RowOps
  <2>4. RowsOf(d)' = RowsOf(d)
        BY <1>4, <2>3 DEF RowsOf
  <2> QED
      BY <1>4, <2>2, <2>3, <2>4
<1>8. /\ run' \in TestRunStatus /\ reported' \in BOOLEAN /\ (reported => reported')
      /\ history' \in [Cases -> Nat] /\ ClosedRunsAreReported'
      BY <1>1, <1>2 DEF IInv, TypeOK, ClosedRunsAreReported
<1> QED
    BY <1>3, <1>4, <1>5, <1>6, <1>7, <1>8, EndKeepsIInv

LEMMA CommitStatusKeepsIInv ==
  ASSUME IInv, NEW t \in Tx, CommitStatus(t)
  PROVE  IInv'
<1>1. /\ tx[t].op \in {"start", "complete", "archive"}
      /\ Ends(t) /\ UNCHANGED << item, rows, history >>
      BY DEF CommitStatus, Target
<1>2. \/ tx[t].op = "start" /\ run' = "in_progress"
      \/ tx[t].op = "complete" /\ run' = "completed"
      \/ tx[t].op = "archive" /\ run' = "archived"
      BY <1>1 DEF CommitStatus, Target
<1>3. reported' = (reported \/ tx[t].op = "complete")
      BY DEF CommitStatus
<1>4. reported \in BOOLEAN
      BY DEF IInv, TypeOK
<1>5. reported' \in BOOLEAN /\ (reported => reported')
      BY <1>3, <1>4
<1>6. tx[t].op = "archive" => reported
      BY DEF IInv, TxOK
<1>7. run' \in Closed => reported'
      BY <1>2, <1>3, <1>6 DEF Closed
<1>8. Open(t) /\ run' \in TestRunStatus
      BY <1>1, <1>2 DEF Open, TestRunStatus
<1> QED
    BY <1>1, <1>5, <1>7, <1>8, EndBesideCasesKeepsIInv DEF ClosedRunsAreReported

LEMMA CommitDeleteRunKeepsIInv ==
  ASSUME IInv, NEW t \in Tx, CommitDeleteRun(t)
  PROVE  IInv'
<1>1. /\ tx[t].op = "delete_run" /\ run' = "deleted"
      /\ item' = [c \in Cases |-> NoItem] /\ rows' = [c \in Cases |-> NoRows]
      /\ history' = [c \in Cases |-> 0]
      /\ tx' = [u \in Tx |-> IF u = t \/ tx[u].op \in ItemOps THEN Idle ELSE tx[u]]
      /\ UNCHANGED reported
      BY DEF CommitDeleteRun
<1>2. Open(t) /\ run' \in TestRunStatus /\ run' \notin Closed
      BY <1>1 DEF Open, TestRunStatus, Closed
<1>3. reported' \in BOOLEAN /\ tx \in [Tx -> Reqs]
      BY <1>1 DEF IInv, TypeOK, Reqs
<1>4. tx' \in [Tx -> Reqs] /\ tx'[t] = Idle /\ \A u \in Tx : tx'[u] = tx[u] \/ tx'[u] = Idle
      BY <1>1, <1>3, IdleType
<1>5. /\ item' \in [Cases -> Items] /\ rows' \in [Cases -> RowMaps]
      /\ history' \in [Cases -> Nat]
      BY <1>1, IdleType
<1>6. \A c \in Cases : CaseOK(c)' /\ (rows'[c] = NoRows <=> item'[c] = NoItem)
  <2>1. \A c \in Cases : RowsOf(c)' = {}
        BY <1>1 DEF RowsOf, NoRows
  <2>2. 0 \in 0 .. MaxRows /\ 1 .. 0 = {}
        BY ConstantsAreSensible
  <2> QED
      BY <1>1, <2>1, <2>2 DEF CaseOK
<1>7. \A u \in Tx : tx'[u] = tx[u] => tx[u].op \notin ItemOps
  <2>1. Idle.op \notin ItemOps
        BY DEF Idle, ItemOps, RowOps
  <2> QED
      BY <1>1, <2>1
<1> QED
    BY <1>1, <1>2, <1>3, <1>4, <1>5, <1>6, <1>7, EndKeepsIInv DEF ClosedRunsAreReported

-----------------------------------------------------------------------------
LEMMA RequestKeepsIInv ==
  ASSUME IInv, NEW t \in Tx, Request(t)
  PROVE  IInv'
<1>1. ASSUME NEW c \in Cases, NEW n \in Scenarios, CreateRunCase(t, c, n) PROVE IInv'
      BY <1>1, CreateRunCaseKeepsIInv
<1>2. ASSUME NEW c \in Cases, NEW k \in Orders, NEW s \in Outcomes, PatchRunCaseRow(t, c, k, s)
      PROVE  IInv'
      BY <1>2, PatchRunCaseRowKeepsIInv
<1>3. ASSUME NEW c \in Cases, NEW n \in 0 .. MaxRows, RerunRunCase(t, c, n) PROVE IInv'
      BY <1>3, RerunRunCaseKeepsIInv
<1>4. ASSUME NEW c \in Cases, DeleteRunCase(t, c) PROVE IInv'
  <2>1. /\ Begin(t, "delete_item", c, NoRows) /\ run \notin Closed /\ item[c] # NoItem
        /\ "delete_item" \notin DOMAIN Requires
        BY <1>4 DEF DeleteRunCase, AllowsCaseMutation, Requires
  <2> QED
      BY <1>4, <2>1, BeginOnlyKeepsIInv
<1>5. AnyCase \in Cases
      BY ConstantsAreSensible DEF AnyCase
<1>6. ASSUME NEW op \in DOMAIN Requires, PatchTestRun(t, op) PROVE IInv'
  <2>1. op \in {"start", "complete", "archive"}
        BY <1>6 DEF Requires
  <2>2. /\ Begin(t, op, AnyCase, NoRows) /\ run = Requires[op]
        /\ op = "archive" => run = "completed"
        BY <1>6, <2>1 DEF PatchTestRun, Requires
  <2>3. op = "archive" => reported
        BY <2>2 DEF IInv, ClosedRunsAreReported, Closed
  <2>4. op \in RunOps
        BY <2>1 DEF RunOps
  <2> QED
      BY <1>5, <2>1, <2>2, <2>3, <2>4, BeginOnlyKeepsIInv
<1>7. CASE DeleteTestRun(t)
  <2>1. /\ Begin(t, "delete_run", AnyCase, NoRows)
        /\ "delete_run" \in RunOps /\ "delete_run" \notin DOMAIN Requires
        BY <1>7 DEF DeleteTestRun, RunOps, Requires
  <2> QED
      BY <1>5, <2>1, BeginOnlyKeepsIInv
<1> QED
    BY <1>1, <1>2, <1>3, <1>4, <1>6, <1>7 DEF Request

LEMMA ProgressKeepsIInv ==
  ASSUME IInv, NEW t \in Tx, Progress(t)
  PROVE  IInv'
<1>1. CASE RowOrderTaken(t) \/ CreateFails(t) \/ DeleteItemFails(t) \/ StillInProgress(t)
           \/ RunRequestFails(t)
  <2>1. Abort(t)
        BY <1>1 DEF RowOrderTaken, CreateFails, DeleteItemFails, StillInProgress, RunRequestFails
  <2>2. tx[t].op # "idle"
        BY <1>1 DEF RowOrderTaken, CreateFails, DeleteItemFails, StillInProgress,
                    RunRequestFails, Target
  <2> QED
      BY <2>1, <2>2, AbortKeepsIInv DEF Open
<1>2. CASE FlushRows(t)
      BY <1>2, FlushRowsKeepsIInv
<1>3. CASE CountInProgress(t) \/ LoadHistory(t) \/ LoadItems(t)
      BY <1>3, LookKeepsIInv
<1>4. CASE CommitRows(t)
      BY <1>4, CommitRowsKeepsIInv
<1>5. CASE CommitCreate(t)
      BY <1>5, CommitCreateKeepsIInv
<1>6. CASE CommitDeleteItem(t)
      BY <1>6, CommitDeleteItemKeepsIInv
<1>7. CASE CommitStatus(t)
      BY <1>7, CommitStatusKeepsIInv
<1>8. CASE CommitDeleteRun(t)
      BY <1>8, CommitDeleteRunKeepsIInv
<1> QED
    BY <1>1, <1>2, <1>3, <1>4, <1>5, <1>6, <1>7, <1>8 DEF Progress

LEMMA InitIInv == Init => IInv
<1> SUFFICES ASSUME Init PROVE IInv
    OBVIOUS
<1>1. \A t \in Tx : tx[t] = Idle /\ ~Open(t)
      BY DEF Init, Open, Idle
<1>2. TypeOK
      BY IdleType DEF Init, TypeOK, Reqs, TestRunStatus
<1>3. \A c \in Cases : CaseOK(c)
  <2>1. 0 \in 0 .. MaxRows /\ 1 .. 0 = {}
        BY ConstantsAreSensible
  <2>2. \A c \in Cases : RowsOf(c) = {}
        BY DEF Init, RowsOf, NoRows
  <2>3. \A c \in Cases : item[c] = NoItem
        BY DEF Init
  <2> QED
      BY <2>1, <2>2, <2>3 DEF CaseOK
<1>4. \A t \in Tx : WritesOK(t) /\ AloneOK(t) /\ TxOK(t)
  <2>1. \A t \in Tx : tx[t].op = "idle" /\ tx[t].step = "idle"
        BY <1>1 DEF Idle
  <2> QED
      BY <1>1, <2>1 DEF WritesOK, AloneOK, TxOK, ItemOps, RowOps, Looks
<1>5. LocksAreDisjoint
      BY <1>1 DEF LocksAreDisjoint, Locked, Idle
<1>6. ClosedRunsAreReported
      BY DEF Init, ClosedRunsAreReported, Closed
<1> QED
    BY <1>2, <1>3, <1>4, <1>5, <1>6 DEF IInv

LEMMA NextKeepsIInv == IInv /\ [Next]_vars => IInv'
<1> SUFFICES ASSUME IInv, [Next]_vars PROVE IInv'
    OBVIOUS
<1>1. CASE Next
  <2>1. PICK t \in Tx : Request(t) \/ Progress(t)
        BY <1>1 DEF Next
  <2> QED
      BY <2>1, RequestKeepsIInv, ProgressKeepsIInv
<1>2. CASE UNCHANGED vars
  <2>1. UNCHANGED << run, item, rows, history, reported, tx >>
        BY <1>2 DEF vars
  <2>2. TypeOK' /\ ClosedRunsAreReported'
        BY <2>1 DEF IInv, TypeOK, ClosedRunsAreReported
  <2>3. \A c \in Cases : CaseOK(c)'
        BY <2>1 DEF IInv, CaseOK, RowsOf
  <2>4. LocksAreDisjoint'
        BY <2>1 DEF IInv, LocksAreDisjoint, Locked, Writes
  <2>5. ASSUME NEW t \in Tx PROVE WritesOK(t)' /\ AloneOK(t)' /\ TxOK(t)'
    <3>1. WritesOK(t) /\ AloneOK(t) /\ TxOK(t)
          BY DEF IInv
    <3>2. WritesOK(t)'
          BY <2>1, <3>1 DEF WritesOK, RowsOf, Writes
    <3>3. AloneOK(t)'
          BY <2>1, <3>1 DEF AloneOK, RowsOf, Writes, After, Open, NoneInProgress
    <3>4. TxOK(t)'
          BY <2>1, <3>1 DEF TxOK
    <3> QED
        BY <3>2, <3>3, <3>4
  <2> QED
      BY <2>2, <2>3, <2>4, <2>5 DEF IInv
<1> QED
    BY <1>1, <1>2

LEMMA IInvHolds == Spec => []IInv
BY InitIInv, NextKeepsIInv, PTL DEF Spec

-----------------------------------------------------------------------------
(* Invariants of the specification. *)

\* The variables are well typed, and a case has rows exactly when it has an
\* item, for any number of requests, cases and rows.
THEOREM TypeCorrect == Spec => []TypeOK
<1>1. IInv => TypeOK
      BY DEF IInv
<1> QED
    BY <1>1, IInvHolds, PTL

\* However many requests rerun, update and delete at once, the rows of a case
\* are numbered 1, 2, ... without a gap.
THEOREM RowsConsecutive == Spec => []RowsAreConsecutive
<1>1. IInv => RowsAreConsecutive
  <2> SUFFICES ASSUME IInv, NEW c \in Cases PROVE RowsOf(c) = 1 .. Cardinality(RowsOf(c))
      BY DEF RowsAreConsecutive
  <2>1. PICK m \in 0 .. MaxRows : RowsOf(c) = 1 .. m
        BY DEF IInv, CaseOK
  <2>2. m \in Nat
        OBVIOUS
  <2>3. Cardinality(1 .. m) = m
        BY <2>2, FS_Interval
  <2> QED
      BY <2>1, <2>3
<1> QED
    BY <1>1, IInvHolds, PTL

\* A closed run has been reported: no race of status changes leads to a closed
\* run past its completion.
THEOREM ClosedReported == Spec => []ClosedRunsAreReported
<1>1. IInv => ClosedRunsAreReported
      BY DEF IInv
<1> QED
    BY <1>1, IInvHolds, PTL

\* A passing-side aggregate means that every row is settled and none failed.
THEOREM PassingSettled == Spec => []PassingMeansSettled
<1>1. IInv => PassingMeansSettled
  <2> SUFFICES ASSUME IInv, NEW c \in Cases, item[c] # NoItem,
                      RollUp(rows[c]) \in {"passed", "xfailed", "skipped"},
                      NEW k \in Orders
               PROVE  rows[c][k] \in {NoRow, "passed", "xfailed", "skipped"}
      BY DEF PassingMeansSettled
  <2>1. rows[c] \in RowMaps /\ rows[c] # NoRows
        BY DEF IInv, TypeOK
  <2>2. PICK i \in 1 .. Len(Severity) :
               /\ RollUp(rows[c]) = Severity[i]
               /\ \A j \in 1 .. i - 1 : \A o \in Orders : rows[c][o] # Severity[j]
        BY <2>1, RollUpIsHeaviest
  <2>3. i \in 1 .. 9 /\ Len(Severity) = 9
        BY <2>2, SeverityFacts
  <2>4. i \notin {1, 2, 3, 4, 5, 6}
        BY <2>2, SeverityFacts
  <2>5. i >= 7
        BY <2>3, <2>4
  <2>6. CASE rows[c][k] = NoRow
        BY <2>6
  <2>7. CASE rows[c][k] # NoRow
    <3>1. PICK j \in 1 .. 9 : rows[c][k] = Severity[j]
          BY <2>1, <2>3, <2>7 DEF RowMaps, RunItemStatus
    <3>2. ~(j <= 6)
          BY <2>2, <2>3, <2>5, <3>1
    <3>3. j \in {7, 8, 9}
          BY <3>1, <3>2
    <3> QED
        BY <3>1, <3>3, SeverityFacts
  <2> QED
      BY <2>6, <2>7
<1> QED
    BY <1>1, IInvHolds, PTL

-----------------------------------------------------------------------------
(* What a step may do. *)

\* Steps that leave every item, row and history record as it is.
Beside == UNCHANGED << item, rows, history >>

\* Every step is one of the four commits that touch run cases, or none does.
LEMMA StepKinds ==
  ASSUME Next
  PROVE  \/ Beside
         \/ \E t \in Tx : \/ CommitRows(t) \/ CommitCreate(t)
                         \/ CommitDeleteItem(t) \/ CommitDeleteRun(t)
<1>1. PICK t \in Tx : Request(t) \/ Progress(t)
      BY DEF Next
<1>2. CASE Request(t)
      BY <1>2 DEF Request, CreateRunCase, PatchRunCaseRow, RerunRunCase, DeleteRunCase,
                  PatchTestRun, DeleteTestRun, Begin, Beside
<1>3. CASE Progress(t)
      BY <1>3 DEF Progress, FlushRows, RowOrderTaken, CreateFails, DeleteItemFails,
                  LoadHistory, LoadItems, CountInProgress, StillInProgress, CommitStatus,
                  RunRequestFails, Abort, Beside
<1> QED
    BY <1>1, <1>2, <1>3

\* Once a run is closed and the requests that saw it open have ended, nothing
\* touches its evidence but the deletion of the run: every other commit that
\* does is by one that saw it open.
THEOREM FrozenEvidence == Spec => ClosedEvidenceIsFrozen
<1>1. IInv /\ [Next]_vars =>
        [/\ run \in Closed
         /\ \A t \in Tx : Open(t) => ~tx[t].sawOpen
         => run' = "deleted" \/ UNCHANGED << item, rows, history >>]_vars
  <2> SUFFICES ASSUME IInv, Next, \A t \in Tx : Open(t) => ~tx[t].sawOpen
               PROVE  run' = "deleted" \/ Beside
      BY DEF Beside
  <2>1. ASSUME NEW t \in Tx, CommitRows(t) \/ CommitCreate(t) \/ CommitDeleteItem(t)
        PROVE  FALSE
    <3>1. tx[t].op \in ItemOps \cup {"create"} /\ Open(t)
          BY <2>1 DEF CommitRows, CommitCreate, CommitDeleteItem, ItemOps, RowOps, Open
    <3>2. TxOK(t)
          BY DEF IInv
    <3> QED
        BY <3>1, <3>2 DEF TxOK
  <2> QED
      BY <2>1, StepKinds DEF CommitDeleteRun
<1> QED
    BY <1>1, IInvHolds, PTL DEF Spec, ClosedEvidenceIsFrozen

\* A recorded outcome is never lost to another request's rerun or creation: a
\* row changes only by an update of its case or with the deletion of its case
\* or its run.
THEOREM OutcomesKept == Spec => OutcomesAreKept
<1>1. IInv /\ [Next]_vars =>
        [\A c \in Cases, k \in Orders :
           rows[c][k] \notin {NoRow, rows'[c][k]} =>
             \E t \in Tx : /\ tx'[t] = Idle
                           /\ \/ /\ tx[t].op \in {"patch_row", "delete_item"}
                                 /\ tx[t].case = c
                              \/ tx[t].op = "delete_run"]_vars
  <2> SUFFICES ASSUME IInv, Next, NEW c \in Cases, NEW k \in Orders,
                      rows[c][k] # NoRow, rows'[c][k] # rows[c][k]
               PROVE  \E t \in Tx : /\ tx'[t] = Idle
                                    /\ \/ /\ tx[t].op \in {"patch_row", "delete_item"}
                                          /\ tx[t].case = c
                                       \/ tx[t].op = "delete_run"
      OBVIOUS
  <2>1. PICK t \in Tx : \/ CommitRows(t) \/ CommitCreate(t)
                        \/ CommitDeleteItem(t) \/ CommitDeleteRun(t)
        BY StepKinds DEF Beside
  <2>2. /\ tx \in [Tx -> Reqs] /\ rows \in [Cases -> RowMaps] /\ tx[t].case \in Cases
        BY DEF IInv, TypeOK, Reqs
  <2>3. CASE CommitRows(t)
    <3>1. PICK d : d = tx[t].case
          OBVIOUS
    <3>2. /\ rows' = [rows EXCEPT ![d] = After(t)] /\ Ends(t)
          /\ tx[t].op \in RowOps /\ tx[t].step = "flushed"
          BY <2>3, <3>1, CommitRowsEffect
    <3>3. d = c
          BY <2>2, <3>1, <3>2
    <3>4. k \in Writes(t)
          BY <2>2, <3>1, <3>2, <3>3 DEF After
    <3>5. tx[t].op # "rerun"
          BY <3>1, <3>2, <3>3, <3>4 DEF IInv, WritesOK, RowsOf
    <3>6. tx'[t] = Idle
          BY <2>2, <3>2 DEF Ends
    <3> QED
        BY <3>1, <3>2, <3>3, <3>5, <3>6 DEF RowOps
  <2>4. CASE CommitCreate(t)
    <3>1. rows' = [rows EXCEPT ![tx[t].case] = tx[t].want] /\ item[tx[t].case] = NoItem
          BY <2>4 DEF CommitCreate
    <3>2. tx[t].case = c
          BY <2>2, <3>1
    <3>3. rows[c] = NoRows
          BY <3>1, <3>2 DEF IInv, TypeOK
    <3> QED
        BY <3>3 DEF NoRows
  <2>5. CASE CommitDeleteItem(t)
    <3>1. /\ rows' = [rows EXCEPT ![tx[t].case] = NoRows] /\ tx[t].op = "delete_item"
          /\ tx'[t] = Idle
          BY <2>5 DEF CommitDeleteItem
    <3>2. tx[t].case = c
          BY <2>2, <3>1
    <3> QED
        BY <3>1, <3>2
  <2>6. CASE CommitDeleteRun(t)
        BY <2>6 DEF CommitDeleteRun
  <2> QED
      BY <2>1, <2>3, <2>4, <2>5, <2>6
<1> QED
    BY <1>1, IInvHolds, PTL DEF Spec, OutcomesAreKept

\* A request begins only when none is open under its name, and leaves the
\* others open.
LEMMA RequestBegins ==
  ASSUME NEW u \in Tx, Request(u)
  PROVE  /\ ~Open(u)
         /\ \A v \in Tx \ {u} : tx'[v] = [tx[v] EXCEPT !.alone = FALSE]
<1>1. \E op, c, want : Begin(u, op, c, want)
      BY DEF Request, CreateRunCase, PatchRunCaseRow, RerunRunCase, DeleteRunCase,
             PatchTestRun, DeleteTestRun
<1> QED
    BY <1>1 DEF Begin

LEMMA ProgressIsOpen ==
  ASSUME NEW u \in Tx, Progress(u)
  PROVE  Open(u)
<1>1. tx[u].op # "idle"
      BY DEF Progress, FlushRows, RowOrderTaken, CommitRows, CommitCreate, CreateFails,
             LoadHistory, CommitDeleteItem, DeleteItemFails, CountInProgress,
             StillInProgress, LoadItems, CommitStatus, CommitDeleteRun, RunRequestFails, RowOps, Target
<1> QED
    BY <1>1 DEF Open

\* A request that is alone ends by its own step only, and of what it has read
\* nothing has changed.
LEMMA AloneEnds ==
  ASSUME IInv, Next, NEW t \in Tx, tx[t].alone, Open(t), tx'[t] = Idle
  PROVE  \/ tx[t].op \in RowOps /\ CommitRows(t)
         \/ tx[t].op = "create" /\ CommitCreate(t)
         \/ tx[t].op \in {"delete_item", "delete_run"}
         \/ tx[t].op \in DOMAIN Target /\ (CommitStatus(t) \/ UNCHANGED run)
<1>1. AloneOK(t) /\ tx \in [Tx -> Reqs]
      BY DEF IInv, TypeOK, Reqs
<1>2. PICK u \in Tx : Request(u) \/ Progress(u)
      BY DEF Next
<1>3. u = t
  <2> SUFFICES ASSUME u # t PROVE FALSE
      OBVIOUS
  <2>1. ~Open(u)
        BY <1>1 DEF AloneOK
  <2>2. Request(u)
        BY <1>2, <2>1, ProgressIsOpen
  <2>3. tx'[t] = [tx[t] EXCEPT !.alone = FALSE]
        BY <2>2, RequestBegins
  <2>4. tx'[t].op = tx[t].op
        BY <1>1, <2>3 DEF Reqs
  <2> QED
      BY <2>4 DEF Open, Idle
<1>4. Progress(t)
      BY <1>2, <1>3, RequestBegins
<1>5. ~FlushRows(t) /\ ~CountInProgress(t) /\ ~LoadHistory(t) /\ ~LoadItems(t)
  <2>1. FlushRows(t) \/ CountInProgress(t) \/ LoadHistory(t) \/ LoadItems(t) =>
          tx'[t].step = "flushed"
        BY <1>1 DEF FlushRows, CountInProgress, LoadHistory, LoadItems, Reqs
  <2> QED
      BY <2>1 DEF Idle
<1>6. ~RowOrderTaken(t)
      BY <1>1 DEF AloneOK, RowOrderTaken
<1>7. ~CreateFails(t)
      BY <1>1 DEF AloneOK, CreateFails
<1>8. CASE CommitRows(t) \/ CommitCreate(t)
      BY <1>8 DEF CommitRows, CommitCreate
<1>9. CASE CommitDeleteItem(t) \/ DeleteItemFails(t) \/ CommitDeleteRun(t)
      BY <1>9 DEF CommitDeleteItem, DeleteItemFails, CommitDeleteRun
<1>10. CASE CommitStatus(t)
      BY <1>10 DEF CommitStatus
<1>11. CASE StillInProgress(t) \/ RunRequestFails(t)
      BY <1>11 DEF StillInProgress, RunRequestFails, Abort, Target
<1> QED
    BY <1>4, <1>5, <1>6, <1>7, <1>8, <1>9, <1>10, <1>11 DEF Progress

\* The commit of a request that is alone leaves the aggregate of its case equal
\* to the case's rows.
LEMMA AloneCommitIsExact ==
  ASSUME IInv, Next, NEW t \in Tx,
         tx[t].op \in RowOps \cup {"create"}, tx[t].alone, tx'[t] = Idle
  PROVE  item'[tx[t].case] = Aggregate(rows'[tx[t].case])
<1>1. Open(t) /\ tx[t].op \notin {"idle", "delete_item", "delete_run"}
              /\ tx[t].op \notin DOMAIN Target
      BY DEF Open, RowOps, Target
<1>2. PICK c : c = tx[t].case
      OBVIOUS
<1>3. /\ rows \in [Cases -> RowMaps] /\ item \in [Cases -> Items] /\ c \in Cases
      /\ AloneOK(t)
      BY <1>2 DEF IInv, TypeOK
<1>4. CASE tx[t].op \in RowOps /\ CommitRows(t)
  <2>1. /\ rows' = [rows EXCEPT ![c] = After(t)] /\ tx[t].step = "flushed"
        /\ tx[t].read = item[c] => item'[c] = tx[t].agg
        BY <1>2, <1>4, CommitRowsEffect
  <2>2. tx[t].read = item[c] /\ tx[t].agg = Aggregate(After(t))
        BY <1>1, <1>2, <1>3, <1>4, <2>1 DEF AloneOK
  <2> QED
      BY <1>2, <1>3, <2>1, <2>2
<1>5. CASE CommitCreate(t)
  <2>1. /\ rows' = [rows EXCEPT ![c] = tx[t].want]
        /\ item' = [item EXCEPT ![c] = Aggregate(tx[t].want)]
        BY <1>2, <1>5 DEF CommitCreate
  <2> QED
      BY <1>2, <1>3, <2>1
<1> QED
    BY <1>1, <1>4, <1>5, AloneEnds

\* A request that overlapped with no other leaves the aggregate of its case
\* equal to the case's rows, whatever earlier races left behind.
THEOREM AloneExactAggregate == Spec => AloneLeavesExactAggregate
<1>1. IInv /\ [Next]_vars =>
        [\A t \in Tx :
           /\ tx[t].op \in RowOps \cup {"create"} /\ tx[t].alone
           /\ tx'[t] = Idle
           => item'[tx[t].case] = Aggregate(rows'[tx[t].case])]_vars
      BY AloneCommitIsExact
<1> QED
    BY <1>1, IInvHolds, PTL DEF Spec, AloneLeavesExactAggregate

\* A status request that overlapped with no other takes the run from the status
\* it requires to the one after it.
THEOREM AloneForward == Spec => AloneMovesForward
<1>1. IInv /\ [Next]_vars =>
        [\A t \in Tx :
           /\ tx[t].op \in DOMAIN Requires /\ tx[t].alone /\ tx'[t] = Idle
           /\ run # run'
           => run = Requires[tx[t].op] /\ run' = Target[tx[t].op]]_vars
  <2> SUFFICES ASSUME IInv, Next, NEW t \in Tx,
                      tx[t].op \in DOMAIN Requires, tx[t].alone, tx'[t] = Idle, run # run'
               PROVE  run = Requires[tx[t].op] /\ run' = Target[tx[t].op]
      OBVIOUS
  <2>1. /\ Open(t) /\ tx[t].op \notin RowOps
        /\ tx[t].op \notin {"create", "delete_item", "delete_run"}
        BY DEF Open, RowOps, Requires
  <2>2. CommitStatus(t)
        BY <2>1, AloneEnds
  <2>3. AloneOK(t)
        BY DEF IInv
  <2> QED
      BY <2>1, <2>2, <2>3 DEF AloneOK, CommitStatus
<1> QED
    BY <1>1, IInvHolds, PTL DEF Spec, AloneMovesForward

\* A completion that overlapped with no other request leaves no row of any case
\* in progress.
THEOREM AloneSettled == Spec => AloneCompletesSettledRuns
<1>1. IInv /\ [Next]_vars =>
        [\A t \in Tx :
           /\ tx[t].op = "complete" /\ tx[t].alone /\ tx'[t] = Idle
           /\ run # run'
           => \A c \in Cases, k \in Orders : rows'[c][k] # "in_progress"]_vars
  <2> SUFFICES ASSUME IInv, Next, NEW t \in Tx,
                      tx[t].op = "complete", tx[t].alone, tx'[t] = Idle, run # run'
               PROVE  \A c \in Cases, k \in Orders : rows'[c][k] # "in_progress"
      OBVIOUS
  <2>1. Open(t) /\ tx[t].op \notin RowOps /\ tx[t].op \notin {"create", "delete_item", "delete_run"}
        BY DEF Open, RowOps
  <2>2. CommitStatus(t)
        BY <2>1, AloneEnds
  <2>3. tx[t].step = "flushed" /\ UNCHANGED rows
        BY <2>2 DEF CommitStatus
  <2>4. AloneOK(t)
        BY DEF IInv
  <2>5. NoneInProgress
        BY <2>1, <2>3, <2>4 DEF AloneOK
  <2> QED
      BY <2>3, <2>5 DEF NoneInProgress
<1> QED
    BY <1>1, IInvHolds, PTL DEF Spec, AloneCompletesSettledRuns

-----------------------------------------------------------------------------
(* Runs whose requests come one at a time. *)

\* No two requests are open together.
OneAtATime == \A t, u \in Tx : Open(t) /\ Open(u) => t = u

\* What an open request found when it began is still so.
SerialOK(t) ==
  Open(t) =>
    /\ tx[t].alone
    /\ tx[t].op \in ItemOps \cup {"create"} => run \notin Closed
    /\ tx[t].op \in DOMAIN Requires => run = Requires[tx[t].op]

SerialIInv ==
  /\ \A t \in Tx : SerialOK(t)
  /\ AggregateIsRollUp
  /\ ClosedMeansNothingInProgress

\* What a request has checked when it begins.
LEMMA RequestChecks ==
  ASSUME NEW t \in Tx, Request(t)
  PROVE  \E op, c, want :
           /\ Begin(t, op, c, want)
           /\ op # "idle"
           /\ op \in ItemOps \cup {"create"} => run \notin Closed
           /\ op \in DOMAIN Requires => run = Requires[op]
<1> DEFINE Checked(op, c, want) ==
             /\ Begin(t, op, c, want)
             /\ op # "idle"
             /\ op \in ItemOps \cup {"create"} => run \notin Closed
             /\ op \in DOMAIN Requires => run = Requires[op]
<1>1. DOMAIN Requires = {"start", "complete", "archive"}
      BY DEF Requires
<1>2. ASSUME NEW c \in Cases, NEW n \in Scenarios, CreateRunCase(t, c, n)
      PROVE  \E want : Checked("create", c, want)
      BY <1>1, <1>2 DEF CreateRunCase, Closed
<1>3. ASSUME NEW c \in Cases, NEW k \in Orders, NEW s \in Outcomes,
             PatchRunCaseRow(t, c, k, s)
      PROVE  \E want : Checked("patch_row", c, want)
      BY <1>1, <1>3 DEF PatchRunCaseRow, AllowsCaseMutation
<1>4. ASSUME NEW c \in Cases, NEW n \in 0 .. MaxRows, RerunRunCase(t, c, n)
      PROVE  \E want : Checked("rerun", c, want)
      BY <1>1, <1>4 DEF RerunRunCase, AllowsCaseMutation
<1>5. ASSUME NEW c \in Cases, DeleteRunCase(t, c)
      PROVE  Checked("delete_item", c, NoRows)
      BY <1>1, <1>5 DEF DeleteRunCase, AllowsCaseMutation
<1>6. ASSUME NEW op \in DOMAIN Requires, PatchTestRun(t, op)
      PROVE  Checked(op, AnyCase, NoRows)
      BY <1>1, <1>6 DEF PatchTestRun, ItemOps, RowOps
<1>7. ASSUME DeleteTestRun(t)
      PROVE  Checked("delete_run", AnyCase, NoRows)
      BY <1>1, <1>7 DEF DeleteTestRun, ItemOps, RowOps
<1>8. \E op, c, want : Checked(op, c, want)
  <2> HIDE DEF Checked
  <2> QED
      BY <1>2, <1>3, <1>4, <1>5, <1>6, <1>7 DEF Request
<1> QED
    BY <1>8

LEMMA SerialRequest ==
  ASSUME IInv, SerialIInv, OneAtATime', NEW t \in Tx, Request(t)
  PROVE  SerialIInv'
<1>1. PICK op, c, want :
             /\ Begin(t, op, c, want)
             /\ op # "idle"
             /\ op \in ItemOps \cup {"create"} => run \notin Closed
             /\ op \in DOMAIN Requires => run = Requires[op]
      BY RequestChecks
<1>2. /\ tx'[t].op = op /\ tx'[t].alone = (\A v \in Tx \ {t} : ~Open(v))
      /\ \A v \in Tx \ {t} : tx'[v] = [tx[v] EXCEPT !.alone = FALSE]
      /\ UNCHANGED << run, item, rows >>
      BY <1>1 DEF Begin
<1>3. \A v \in Tx \ {t} : ~Open(v)' /\ (Open(v)' <=> Open(v))
  <2> SUFFICES ASSUME NEW v \in Tx \ {t} PROVE ~Open(v)' /\ (Open(v)' <=> Open(v))
      OBVIOUS
  <2>1. Open(t)'
        BY <1>1, <1>2 DEF Open
  <2>2. ~Open(v)'
        BY <2>1 DEF OneAtATime
  <2>3. tx \in [Tx -> Reqs]
        BY DEF IInv, TypeOK, Reqs
  <2>4. tx'[v].op = tx[v].op
        BY <1>2, <2>3 DEF Reqs
  <2> QED
      BY <2>2, <2>4 DEF Open
<1>4. \A u \in Tx : SerialOK(u)'
  <2>1. SerialOK(t)'
        BY <1>1, <1>2, <1>3 DEF SerialOK
  <2>2. \A u \in Tx \ {t} : SerialOK(u)'
        BY <1>3 DEF SerialOK
  <2> QED
      BY <2>1, <2>2
<1>5. AggregateIsRollUp' /\ ClosedMeansNothingInProgress'
      BY <1>2 DEF SerialIInv, AggregateIsRollUp, ClosedMeansNothingInProgress
<1> QED
    BY <1>4, <1>5 DEF SerialIInv

\* A step by which a request prepares its commit, or ends without a trace.
LEMMA SerialQuietStep ==
  ASSUME IInv, SerialIInv, NEW t \in Tx, Open(t), UNCHANGED << run, item, rows >>,
         \/ Ends(t)
         \/ \E r : /\ tx' = [tx EXCEPT ![t] = r]
                  /\ r.op = tx[t].op /\ r.alone = tx[t].alone
  PROVE  SerialIInv'
<1>1. tx \in [Tx -> Reqs]
      BY DEF IInv, TypeOK, Reqs
<1>2. ASSUME NEW u \in Tx PROVE SerialOK(u)'
  <2>1. SerialOK(u)
        BY DEF SerialIInv
  <2>2. CASE u # t
    <3>1. tx'[u] = tx[u]
          BY <1>1, <2>2 DEF Ends
    <3> QED
        BY <2>1, <3>1 DEF SerialOK, Open
  <2>3. CASE u = t /\ Ends(t)
    <3>1. ~Open(u)'
          BY <1>1, <2>3 DEF Ends, Open, Idle
    <3> QED
        BY <3>1 DEF SerialOK
  <2>4. CASE u = t /\ ~Ends(t)
    <3>1. tx'[u].op = tx[u].op /\ tx'[u].alone = tx[u].alone
          BY <1>1, <2>4
    <3> QED
        BY <2>1, <3>1 DEF SerialOK, Open
  <2> QED
      BY <2>2, <2>3, <2>4
<1>3. AggregateIsRollUp' /\ ClosedMeansNothingInProgress'
      BY DEF SerialIInv, AggregateIsRollUp, ClosedMeansNothingInProgress
<1> QED
    BY <1>2, <1>3 DEF SerialIInv

LEMMA SerialCaseCommit ==
  ASSUME IInv, SerialIInv, Next, NEW t \in Tx,
         CommitRows(t) \/ CommitCreate(t) \/ CommitDeleteItem(t)
  PROVE  SerialIInv'
<1>1. /\ tx \in [Tx -> Reqs] /\ rows \in [Cases -> RowMaps]
      /\ item \in [Cases -> Items]
      BY DEF IInv, TypeOK, Reqs
<1>2. PICK c : c = tx[t].case
      OBVIOUS
<1>3. /\ c \in Cases /\ SerialOK(t) /\ AloneOK(t)
      BY <1>1, <1>2 DEF IInv, SerialIInv, Reqs
<1>4. /\ tx[t].op \in ItemOps \cup {"create"} /\ Open(t)
      /\ CommitDeleteItem(t) \/ tx[t].op \in RowOps \cup {"create"}
      BY DEF CommitRows, CommitCreate, CommitDeleteItem, ItemOps, RowOps, Open
<1>5. run \notin Closed /\ run' = run /\ tx[t].alone
      BY <1>3, <1>4 DEF SerialOK, CommitRows, CommitCreate, CommitDeleteItem
<1>6. tx'[t] = Idle
      BY <1>1 DEF CommitRows, CommitCreate, CommitDeleteItem, Ends
<1>7. \A u \in Tx : SerialOK(u)'
  <2> SUFFICES ASSUME NEW u \in Tx PROVE ~Open(u)'
      BY DEF SerialOK
  <2>1. CASE u = t
        BY <1>6, <2>1 DEF Open, Idle
  <2>2. CASE u # t
    <3>1. ~Open(u)
          BY <1>3, <1>4, <1>5, <2>2 DEF AloneOK
    <3>2. tx'[u] = tx[u] \/ tx'[u] = Idle
          BY <1>1, <2>2 DEF CommitRows, CommitCreate, CommitDeleteItem, Ends
    <3> QED
        BY <3>1, <3>2 DEF Open, Idle
  <2> QED
      BY <2>1, <2>2
<1>8. \A d \in Cases \ {c} : item'[d] = item[d] /\ rows'[d] = rows[d]
      BY <1>1, <1>2 DEF CommitRows, CommitCreate, CommitDeleteItem
<1>9. item'[c] = NoItem \/ item'[c] = Aggregate(rows'[c])
  <2>1. CASE CommitDeleteItem(t)
        BY <1>1, <1>2, <1>3, <2>1 DEF CommitDeleteItem
  <2>2. CASE tx[t].op \in RowOps \cup {"create"}
        BY <1>2, <1>5, <1>6, <2>2, AloneCommitIsExact
  <2> QED
      BY <1>4, <2>1, <2>2
<1>10. AggregateIsRollUp'
  <2> SUFFICES ASSUME NEW d \in Cases, item'[d] # NoItem
               PROVE  item'[d] = Aggregate(rows'[d])
      BY DEF AggregateIsRollUp, Aggregate, RollUp, Counting
  <2>1. CASE d = c
        BY <1>9, <2>1
  <2>2. CASE d # c
        BY <1>8, <2>2 DEF SerialIInv, AggregateIsRollUp
  <2> QED
      BY <2>1, <2>2
<1>11. ClosedMeansNothingInProgress'
      BY <1>5 DEF ClosedMeansNothingInProgress
<1> QED
    BY <1>7, <1>10, <1>11 DEF SerialIInv

LEMMA SerialRunCommit ==
  ASSUME IInv, SerialIInv, NEW t \in Tx, CommitStatus(t) \/ CommitDeleteRun(t)
  PROVE  SerialIInv'
<1>1. tx \in [Tx -> Reqs] /\ SerialOK(t) /\ AloneOK(t)
      BY DEF IInv, TypeOK, Reqs, SerialIInv
<1>2. /\ Open(t)
      /\ tx'[t] = Idle /\ \A u \in Tx : tx'[u] = tx[u] \/ tx'[u] = Idle
      /\ CommitStatus(t) => UNCHANGED << item, rows >>
      BY <1>1 DEF CommitStatus, CommitDeleteRun, Open, Target, Ends
<1>3. \A u \in Tx : SerialOK(u)'
  <2> SUFFICES ASSUME NEW u \in Tx PROVE ~Open(u)'
      BY DEF SerialOK
  <2>1. CASE u = t
        BY <1>2, <2>1 DEF Open, Idle
  <2>2. CASE u # t
    <3>1. ~Open(u)
          BY <1>1, <1>2, <2>2 DEF AloneOK, SerialOK
    <3> QED
        BY <1>2, <3>1 DEF Open, Idle
  <2> QED
      BY <2>1, <2>2
<1>4. AggregateIsRollUp'
  <2>1. CASE CommitStatus(t)
        BY <1>2, <2>1 DEF SerialIInv, AggregateIsRollUp
  <2>2. CASE CommitDeleteRun(t)
    <3>1. \A c \in Cases : item'[c] = NoItem
          BY <2>2 DEF CommitDeleteRun
    <3> QED
        BY <3>1 DEF AggregateIsRollUp
  <2> QED
      BY <2>1, <2>2
<1>5. ClosedMeansNothingInProgress'
  <2>1. CASE CommitDeleteRun(t) \/ tx[t].op = "start"
    <3>1. run' \notin Closed
          BY <2>1 DEF CommitDeleteRun, CommitStatus, Target, Closed
    <3> QED
        BY <3>1 DEF ClosedMeansNothingInProgress
  <2>2. CASE CommitStatus(t) /\ tx[t].op = "complete"
    <3>1. NoneInProgress /\ UNCHANGED rows
          BY <1>1, <1>2, <2>2 DEF AloneOK, SerialOK, CommitStatus
    <3> QED
        BY <3>1 DEF NoneInProgress, ClosedMeansNothingInProgress
  <2>3. CASE CommitStatus(t) /\ tx[t].op = "archive"
    <3>1. run = "completed" /\ UNCHANGED rows
          BY <1>1, <1>2, <2>3 DEF SerialOK, Requires
    <3> QED
        BY <3>1 DEF SerialIInv, ClosedMeansNothingInProgress, Closed
  <2>4. CommitStatus(t) => tx[t].op \in {"start", "complete", "archive"}
        BY DEF CommitStatus, Target
  <2> QED
      BY <2>1, <2>2, <2>3, <2>4
<1> QED
    BY <1>3, <1>4, <1>5 DEF SerialIInv

LEMMA SerialProgress ==
  ASSUME IInv, SerialIInv, Next, NEW t \in Tx, Progress(t)
  PROVE  SerialIInv'
<1>1. Open(t) /\ tx \in [Tx -> Reqs]
      BY ProgressIsOpen DEF IInv, TypeOK, Reqs
<1>2. CASE FlushRows(t)
  <2>1. PICK a : tx' = [tx EXCEPT ![t].step = "flushed", ![t].agg = a]
        BY <1>2 DEF FlushRows
  <2> DEFINE r == [tx[t] EXCEPT !.step = "flushed", !.agg = a]
  <2>2. tx' = [tx EXCEPT ![t] = r] /\ r.op = tx[t].op /\ r.alone = tx[t].alone
        BY <1>1, <2>1 DEF Reqs
  <2>3. UNCHANGED << run, item, rows >>
        BY <1>2 DEF FlushRows
  <2> HIDE DEF r
  <2> QED
      BY <1>1, <2>2, <2>3, SerialQuietStep
<1>3. CASE CountInProgress(t) \/ LoadHistory(t) \/ LoadItems(t)
  <2> DEFINE r == [tx[t] EXCEPT !.step = "flushed"]
  <2>1. tx' = [tx EXCEPT ![t] = r] /\ r.op = tx[t].op /\ r.alone = tx[t].alone
        BY <1>1, <1>3 DEF CountInProgress, LoadHistory, LoadItems, Reqs
  <2>2. UNCHANGED << run, item, rows >>
        BY <1>3 DEF CountInProgress, LoadHistory, LoadItems
  <2> HIDE DEF r
  <2> QED
      BY <1>1, <2>1, <2>2, SerialQuietStep
<1>4. CASE \/ RowOrderTaken(t) \/ CreateFails(t) \/ DeleteItemFails(t)
           \/ StillInProgress(t) \/ RunRequestFails(t)
  <2>1. Ends(t) /\ UNCHANGED << run, item, rows >>
        BY <1>4 DEF RowOrderTaken, CreateFails, DeleteItemFails, StillInProgress,
                    RunRequestFails, Abort
  <2> QED
      BY <1>1, <2>1, SerialQuietStep
<1>5. CASE CommitRows(t) \/ CommitCreate(t) \/ CommitDeleteItem(t)
      BY <1>5, SerialCaseCommit
<1>6. CASE CommitStatus(t) \/ CommitDeleteRun(t)
      BY <1>6, SerialRunCommit
<1> QED
    BY <1>2, <1>3, <1>4, <1>5, <1>6 DEF Progress

LEMMA SerialNext ==
  IInv /\ SerialIInv /\ OneAtATime' /\ [Next]_vars => SerialIInv'
<1> SUFFICES ASSUME IInv, SerialIInv, OneAtATime', [Next]_vars PROVE SerialIInv'
    OBVIOUS
<1>1. CASE Next
  <2>1. PICK t \in Tx : Request(t) \/ Progress(t)
        BY <1>1 DEF Next
  <2> QED
      BY <1>1, <2>1, SerialRequest, SerialProgress
<1>2. CASE UNCHANGED vars
      BY <1>2 DEF vars, SerialIInv, SerialOK, Open, AggregateIsRollUp,
                  ClosedMeansNothingInProgress
<1> QED
    BY <1>1, <1>2

LEMMA SerialIInvHolds == Spec /\ []OneAtATime => []SerialIInv
<1>1. Init => SerialIInv
  <2> SUFFICES ASSUME Init PROVE SerialIInv
      OBVIOUS
  <2>1. \A t \in Tx : SerialOK(t)
        BY DEF Init, SerialOK, Open, Idle
  <2>2. AggregateIsRollUp
        BY DEF Init, AggregateIsRollUp
  <2>3. ClosedMeansNothingInProgress
        BY DEF Init, ClosedMeansNothingInProgress, Closed
  <2> QED
      BY <2>1, <2>2, <2>3 DEF SerialIInv
<1>2. IInv /\ SerialIInv /\ OneAtATime' /\ [Next]_vars => SerialIInv'
      BY SerialNext
<1> QED
    BY <1>1, <1>2, IInvHolds, PTL DEF Spec

\* What the races break holds as long as requests come one at a time: every
\* aggregate is what its rows add up to, and a closed run has no row in
\* progress (recalc_run_case_aggregate, _apply_status_transition).
THEOREM SerialRunsAreSound ==
  Spec /\ []OneAtATime => [](AggregateIsRollUp /\ ClosedMeansNothingInProgress)
<1>1. SerialIInv => AggregateIsRollUp /\ ClosedMeansNothingInProgress
      BY DEF SerialIInv
<1> QED
    BY <1>1, SerialIInvHolds, PTL

\* Only the commits of a run's own requests change its status.
LEMMA StatusSteps ==
  ASSUME NEW t \in Tx, Request(t) \/ Progress(t), run' # run
  PROVE  CommitStatus(t) \/ CommitDeleteRun(t)
<1>1. CASE Request(t)
      BY <1>1 DEF Request, CreateRunCase, PatchRunCaseRow, RerunRunCase, DeleteRunCase,
                  PatchTestRun, DeleteTestRun, Begin
<1>2. CASE Progress(t)
      BY <1>2 DEF Progress, FlushRows, RowOrderTaken, CommitRows, CommitCreate,
                  CreateFails, LoadHistory, CommitDeleteItem, DeleteItemFails,
                  CountInProgress, StillInProgress, LoadItems, RunRequestFails, Abort
<1> QED
    BY <1>1, <1>2

\* One at a time, status changes also never take a run back or past a status:
\* it goes from the status each transition requires to the one after it, or is
\* deleted (patch_test_run).
THEOREM SerialRunsMoveForward ==
  Spec /\ []OneAtATime =>
    [][run' # run => \/ run' = "deleted"
                     \/ \E op \in DOMAIN Requires :
                          run = Requires[op] /\ run' = Target[op]]_vars
<1>1. IInv /\ SerialIInv /\ [Next]_vars =>
        [run' # run => \/ run' = "deleted"
                       \/ \E op \in DOMAIN Requires :
                            run = Requires[op] /\ run' = Target[op]]_vars
  <2> SUFFICES ASSUME SerialIInv, Next, run' # run, run' # "deleted"
               PROVE  \E op \in DOMAIN Requires : run = Requires[op] /\ run' = Target[op]
      OBVIOUS
  <2>1. PICK t \in Tx : Request(t) \/ Progress(t)
        BY DEF Next
  <2>2. CommitStatus(t)
        BY <2>1, StatusSteps DEF CommitDeleteRun
  <2>3. tx[t].op \in DOMAIN Requires /\ run' = Target[tx[t].op]
        BY <2>2 DEF CommitStatus, Requires, Target
  <2>4. run = Requires[tx[t].op]
        BY <2>3 DEF SerialIInv, SerialOK, Open, Requires
  <2> QED
      BY <2>3, <2>4
<1> QED
    BY <1>1, IInvHolds, SerialIInvHolds, PTL DEF Spec
=============================================================================
