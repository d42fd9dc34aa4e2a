--------------------------- MODULE ModelTaskProofs ---------------------------
(***************************************************************************)
(* Theorems about ModelTaskSystem, for every set of targets, any number of *)
(* task rows and any faults.  Types hold, and deployed models are kept     *)
(* from deletion unless a creation overlaps a deletion, however many other *)
(* transactions overlap; the rest is proved, as for deployments, of a      *)
(* Central that serves one request at a time.                              *)
(***************************************************************************)
EXTENDS ModelTaskSystem, TLAPS

(***************************************************************************)
(* The inductive invariant behind the types.  An outcome is written into   *)
(* the row it belongs to whatever the row is, so what commands, reports    *)
(* and transactions say of a task must fit its row: the two tables have    *)
(* different statuses.                                                     *)
(***************************************************************************)
SameTask(i, row) == tasks[i].kind = row.kind /\ tasks[i].target = row.target

Fits(m) ==
  /\ tasks[m.task].status # "unused"
  /\ m.attempt <= tasks[m.task].attempt
  /\ m.outcome = "cancelled" => tasks[m.task].kind = "download"

CommandFits ==
  phase \in Executing =>
    /\ cmd \in Command
    /\ tasks[cmd.task].status # "unused"
    /\ SameTask(cmd.task, cmd)
    /\ cmd.attempt <= tasks[cmd.task].attempt
    /\ phase # "begin" => cmd.kind = "download"

ReportsFit == \A m \in reports : Fits(m)

ReadFits(s) ==
  /\ s.kind \in {"cancel", "retry"} =>
       /\ tasks[s.task].status # "unused"
       /\ SameTask(s.task, s.row)
       /\ s.row.kind = "download"
  /\ s.kind = "complete" => SameTask(s.report.task, s.row) /\ Fits(s.report)
ReadsFit == \A x \in Txns : ReadFits(txn[x])

Inv == TypeOK /\ CommandFits /\ ReportsFit /\ ReadsFit

-----------------------------------------------------------------------------
(* Rows. *)

\* The fields of a task row.
LEMMA FieldsOfRow ==
  ASSUME NEW r \in TaskRow
  PROVE  /\ r.target \in Targets /\ r.attempt \in Nat /\ r.lease \in Leases
         /\ r.size \in 0 .. Size /\ r.asked \in BOOLEAN
         /\ r.status # "unused" /\ r.kind # "none"
         /\ \/ r.kind = "download" /\ r.status \in DownloadStatuses
            \/ r.kind = "delete" /\ r.status \in DeleteStatuses
         /\ r = [kind |-> r.kind, target |-> r.target, status |-> r.status,
                 attempt |-> r.attempt, lease |-> r.lease, size |-> r.size, asked |-> r.asked]
  BY DEF TaskRow, TaskRows, DownloadStatuses, DeleteStatuses

\* A row that is used is a row of one of the tables.
LEMMA UsedRow ==
  ASSUME BaseTypeOK, NEW i \in TaskIds
  PROVE  /\ tasks[i].status # "unused" => tasks[i] \in TaskRow
         /\ tasks[i].status = "unused" => tasks[i] = NoTask
  <1>1. tasks[i] \in TaskRow \cup {NoTask}
    BY DEF BaseTypeOK
  <1>2. CASE tasks[i] \in TaskRow
    BY <1>2, FieldsOfRow
  <1>3. CASE tasks[i] = NoTask
    BY <1>3 DEF NoTask
  <1> QED
    BY <1>1, <1>2, <1>3

\* What happens to a row that is used: its task stays the same one.
RowKept(i) ==
  /\ tasks'[i].status # "unused"
  /\ tasks'[i].kind = tasks[i].kind
  /\ tasks'[i].target = tasks[i].target
  /\ tasks[i].attempt <= tasks'[i].attempt
Grows ==
  /\ tasks' \in [TaskIds -> TaskRow \cup {NoTask}]
  /\ \A i \in TaskIds : tasks[i].status # "unused" => RowKept(i)

LEMMA SameRowsGrow ==
  ASSUME BaseTypeOK, tasks' = tasks
  PROVE  Grows
  <1> SUFFICES ASSUME NEW i \in TaskIds, tasks[i].status # "unused"
               PROVE  RowKept(i)
    BY DEF Grows, BaseTypeOK
  <1>1. tasks[i].attempt \in Nat
    BY UsedRow, FieldsOfRow
  <1> QED
    BY <1>1 DEF RowKept

\* One row is written.
LEMMA OneRowGrows ==
  ASSUME BaseTypeOK, NEW i \in TaskIds, NEW row \in TaskRow, tasks' = [tasks EXCEPT ![i] = row],
         tasks[i].status # "unused" =>
           /\ row.kind = tasks[i].kind /\ row.target = tasks[i].target
           /\ tasks[i].attempt <= row.attempt
  PROVE  Grows
  <1>1. /\ tasks' \in [TaskIds -> TaskRow \cup {NoTask}]
        /\ tasks'[i] = row /\ \A j \in TaskIds : j # i => tasks'[j] = tasks[j]
    BY DEF BaseTypeOK
  <1> SUFFICES ASSUME NEW j \in TaskIds, tasks[j].status # "unused"
               PROVE  RowKept(j)
    BY <1>1 DEF Grows
  <1>2. tasks[j].attempt \in Nat
    BY UsedRow, FieldsOfRow
  <1>3. row.status # "unused"
    BY FieldsOfRow
  <1> QED
    BY <1>1, <1>2, <1>3 DEF RowKept

-----------------------------------------------------------------------------
(* Transactions. *)

\* Only the members of TxnStates with a kind have its fields.
LEMMA KindsOfTxn ==
  ASSUME NEW s \in TxnStates
  PROVE  /\ s.kind \in {"download", "delete", "deploy"} => s \in CreateTxn
         /\ s.kind \in {"cancel", "retry"} => s \in MutateTxn
         /\ s.kind = "claim" => s \in ClaimTxn
         /\ s.kind = "complete" => s \in CompleteTxn
  BY DEF TxnStates, NoTxn, CreateTxn, MutateTxn, ClaimTxn, CompleteTxn

\* What a transaction that rewrites a row makes of it.
LEMMA RewrittenRow ==
  ASSUME BaseTypeOK, NEW i \in TaskIds, tasks[i].status # "unused",
         NEW loaded \in TaskRow, SameTask(i, loaded), NEW new,
         new.attempt = loaded.attempt, new.lease \in Leases, new.size \in 0 .. Size,
         new.asked \in BOOLEAN,
         \/ loaded.kind = "download" /\ new.status \in DownloadStatuses
         \/ loaded.kind = "delete" /\ new.status \in DeleteStatuses
  PROVE  /\ Rewritten(i, loaded, new) \in TaskRow
         /\ Rewritten(i, loaded, new).kind = tasks[i].kind
         /\ Rewritten(i, loaded, new).target = tasks[i].target
         /\ Rewritten(i, loaded, new).attempt = tasks[i].attempt
         /\ Rewritten(i, loaded, new).status = Stored(loaded.status, new.status, tasks[i].status)
         /\ Rewritten(i, loaded, new).lease = Stored(loaded.lease, new.lease, tasks[i].lease)
  <1>1. tasks[i] \in TaskRow
    BY UsedRow
  <1>3. /\ tasks[i].target \in Targets /\ tasks[i].attempt \in Nat /\ tasks[i].lease \in Leases
        /\ tasks[i].size \in 0 .. Size /\ tasks[i].asked \in BOOLEAN
        /\ \/ tasks[i].kind = "download" /\ tasks[i].status \in DownloadStatuses
           \/ tasks[i].kind = "delete" /\ tasks[i].status \in DeleteStatuses
    BY <1>1, FieldsOfRow
  <1> DEFINE s == Stored(loaded.status, new.status, tasks[i].status)
             l == Stored(loaded.lease, new.lease, tasks[i].lease)
             z == Stored(loaded.size, new.size, tasks[i].size)
             q == Stored(loaded.asked, new.asked, tasks[i].asked)
  <1>4. Stored(loaded.attempt, new.attempt, tasks[i].attempt) = tasks[i].attempt
    BY DEF Stored
  <1>5. l \in Leases /\ z \in 0 .. Size
    BY <1>3 DEF Stored
  <1>6. q \in BOOLEAN
    BY <1>3, Zenon DEF Stored
  <1>7. \/ tasks[i].kind = "download" /\ s \in DownloadStatuses
        \/ tasks[i].kind = "delete" /\ s \in DeleteStatuses
    BY <1>3 DEF Stored, SameTask
  <1>8. Rewritten(i, loaded, new) =
          [kind |-> tasks[i].kind, target |-> tasks[i].target, status |-> s,
           attempt |-> tasks[i].attempt, lease |-> l, size |-> z, asked |-> q]
    BY <1>4 DEF Rewritten
  <1> HIDE DEF s, l, z, q
  <1>9. Rewritten(i, loaded, new) \in TaskRow
    BY <1>3, <1>5, <1>6, <1>7, <1>8 DEF TaskRow, TaskRows
  <1> QED
    BY <1>8, <1>9 DEF s, l

-----------------------------------------------------------------------------
(* What the steps that write a row make of it. *)

\* Row i, which is used, is written and stays the row of its task.
Writes(i, row) ==
  /\ tasks' = [tasks EXCEPT ![i] = row]
  /\ tasks[i].status # "unused"
  /\ row.kind = tasks[i].kind
  /\ row.target = tasks[i].target
  /\ tasks[i].attempt <= row.attempt

\* A task is inserted.
LEMMA TaskCommitRow ==
  ASSUME Inv, NEW x \in Txns, NEW i \in TaskIds, TaskCommit(x, i)
  PROVE  /\ txn[x] \in CreateTxn /\ txn[x].kind \in {"download", "delete"}
         /\ QueuedTask(txn[x].kind, txn[x].target) \in TaskRow
         /\ tasks' = [tasks EXCEPT ![i] = QueuedTask(txn[x].kind, txn[x].target)]
         /\ tasks[i].status = "unused"
  <1>1. txn[x] \in CreateTxn /\ txn[x].kind \in {"download", "delete"}
    BY KindsOfTxn DEF TaskCommit, Inv, TypeOK, CentralTypeOK
  <1>2. txn[x].target \in Targets
    BY <1>1 DEF CreateTxn
  <1>3. QueuedTask(txn[x].kind, txn[x].target) \in TaskRow
    BY <1>1, <1>2, TaskBoundsAssumption
       DEF QueuedTask, TaskRow, TaskRows, Leases, DownloadStatuses, DeleteStatuses
  <1> QED
    BY <1>1, <1>3 DEF TaskCommit, IsNextTask

\* A cancellation or a retry finds a download.
LEMMA MutatedRow ==
  ASSUME Inv, NEW x \in Txns, txn[x].kind \in {"cancel", "retry"}
  PROVE  /\ txn[x].task \in TaskIds /\ txn[x].row \in TaskRow
         /\ tasks[txn[x].task] \in TaskRow
         /\ tasks[txn[x].task].status # "unused"
         /\ SameTask(txn[x].task, txn[x].row)
         /\ txn[x].row.kind = "download"
  <1>1. txn[x] \in MutateTxn
    BY KindsOfTxn DEF Inv, TypeOK, CentralTypeOK
  <1>2. txn[x].task \in TaskIds /\ txn[x].row \in TaskRow
    BY <1>1 DEF MutateTxn
  <1>3. /\ tasks[txn[x].task].status # "unused"
        /\ SameTask(txn[x].task, txn[x].row)
        /\ txn[x].row.kind = "download"
    BY DEF Inv, ReadsFit, ReadFits
  <1>4. tasks[txn[x].task] \in TaskRow
    BY <1>2, <1>3, UsedRow DEF Inv, TypeOK
  <1> QED
    BY <1>2, <1>3, <1>4

LEMMA CancelRow ==
  ASSUME Inv, NEW x \in Txns, CancelCommit(x)
  PROVE  \E row \in TaskRow :
           /\ txn[x].task \in TaskIds
           /\ Writes(txn[x].task, row)
           /\ row.attempt = tasks[txn[x].task].attempt
           /\ row.lease = tasks[txn[x].task].lease
           /\ row.status = Stored(txn[x].row.status,
                                  IF txn[x].row.status = "queued" THEN "cancelled" ELSE "cancelling",
                                  tasks[txn[x].task].status)
  <1> DEFINE y == txn[x]
             s == IF y.row.status = "queued" THEN "cancelled" ELSE "cancelling"
             new == [y.row EXCEPT !.status = s, !.asked = TRUE]
  <1>1. /\ y.task \in TaskIds /\ y.row \in TaskRow /\ tasks[y.task] \in TaskRow
        /\ tasks[y.task].status # "unused" /\ SameTask(y.task, y.row)
        /\ y.row.kind = "download"
    BY MutatedRow DEF CancelCommit
  <1>2. s \in DownloadStatuses
    BY DEF DownloadStatuses
  <1>3. y.row.lease \in Leases /\ y.row.size \in 0 .. Size
    BY <1>1, FieldsOfRow
  <1>4. /\ new.status = s /\ new.asked = TRUE /\ new.attempt = y.row.attempt
        /\ new.lease = y.row.lease /\ new.size = y.row.size
    BY <1>1, FieldsOfRow
  <1> DEFINE row == Rewritten(y.task, y.row, new)
  <1>5. tasks' = [tasks EXCEPT ![y.task] = row]
    BY DEF CancelCommit
  <1> HIDE DEF s, new
  <1>6. /\ row \in TaskRow
        /\ row.kind = tasks[y.task].kind /\ row.target = tasks[y.task].target
        /\ row.attempt = tasks[y.task].attempt
        /\ row.status = Stored(y.row.status, s, tasks[y.task].status)
        /\ row.lease = Stored(y.row.lease, y.row.lease, tasks[y.task].lease)
    <2>1. new.asked \in BOOLEAN
      BY <1>4
    <2> QED
      BY <1>1, <1>2, <1>3, <1>4, <2>1, RewrittenRow DEF Inv, TypeOK
  <1>7. tasks[y.task].attempt \in Nat
    BY <1>1, FieldsOfRow
  <1>8. row.lease = tasks[y.task].lease
    BY <1>6 DEF Stored
  <1>9. Writes(y.task, row)
    BY <1>1, <1>5, <1>6, <1>7 DEF Writes
  <1> HIDE DEF row
  <1> QED
    BY <1>1, <1>6, <1>8, <1>9 DEF s

LEMMA RetryRow ==
  ASSUME Inv, NEW x \in Txns, RetryCommit(x)
  PROVE  \E row \in TaskRow :
           /\ txn[x].task \in TaskIds
           /\ Writes(txn[x].task, row)
           /\ row.attempt = tasks[txn[x].task].attempt
           /\ row.lease = Stored(txn[x].row.lease, "none", tasks[txn[x].task].lease)
           /\ row.status = Stored(txn[x].row.status, "queued", tasks[txn[x].task].status)
  <1> DEFINE y == txn[x]
             new == [y.row EXCEPT !.status = "queued", !.lease = "none",
                                  !.size = 0, !.asked = FALSE]
             row == Rewritten(y.task, y.row, new)
  <1>1. /\ y.task \in TaskIds /\ y.row \in TaskRow /\ tasks[y.task] \in TaskRow
        /\ tasks[y.task].status # "unused" /\ SameTask(y.task, y.row)
        /\ y.row.kind = "download"
    BY MutatedRow DEF RetryCommit
  <1>2. tasks' = [tasks EXCEPT ![y.task] = row]
    BY DEF RetryCommit
  <1>3. "queued" \in DownloadStatuses /\ "none" \in Leases /\ 0 \in 0 .. Size
    BY TaskBoundsAssumption DEF DownloadStatuses, Leases
  <1>4. /\ new.status = "queued" /\ new.asked = FALSE /\ new.attempt = y.row.attempt
        /\ new.lease = "none" /\ new.size = 0
    BY <1>1, FieldsOfRow
  <1> HIDE DEF new
  <1>5. /\ row \in TaskRow
        /\ row.kind = tasks[y.task].kind /\ row.target = tasks[y.task].target
        /\ row.attempt = tasks[y.task].attempt
        /\ row.status = Stored(y.row.status, "queued", tasks[y.task].status)
        /\ row.lease = Stored(y.row.lease, "none", tasks[y.task].lease)
    <2>1. new.asked \in BOOLEAN
      BY <1>4
    <2> QED
      BY <1>1, <1>3, <1>4, <2>1, RewrittenRow DEF Inv, TypeOK
  <1>6. tasks[y.task].attempt \in Nat
    BY <1>1, FieldsOfRow
  <1>7. Writes(y.task, row)
    BY <1>1, <1>2, <1>5, <1>6 DEF Writes
  <1> HIDE DEF row
  <1> QED
    BY <1>1, <1>5, <1>7

LEMMA CompleteRow ==
  ASSUME Inv, NEW x \in Txns, CompleteCommit(x)
  PROVE  \E row \in TaskRow :
           /\ txn[x].report.task \in TaskIds
           /\ Writes(txn[x].report.task, row)
           /\ row.attempt = tasks[txn[x].report.task].attempt
           /\ row.status = Stored(txn[x].row.status, txn[x].report.outcome,
                                  tasks[txn[x].report.task].status)
  <1> DEFINE y == txn[x]
             i == y.report.task
             size == IF y.row.kind = "download" THEN y.report.size ELSE y.row.size
             new == [y.row EXCEPT !.status = y.report.outcome, !.size = size, !.lease = "none"]
             row == Rewritten(i, y.row, new)
  <1>1. y \in CompleteTxn
    BY KindsOfTxn DEF Inv, TypeOK, CentralTypeOK, CompleteCommit
  <1>2. /\ i \in TaskIds /\ y.row \in TaskRow /\ y.report.outcome \in Outcomes
        /\ y.report.size \in 0 .. Size
    BY <1>1 DEF CompleteTxn, Report
  <1>3. /\ tasks[i].status # "unused" /\ SameTask(i, y.row)
        /\ y.report.outcome = "cancelled" => tasks[i].kind = "download"
    BY DEF Inv, ReadsFit, ReadFits, Fits, CompleteCommit
  <1>4. tasks[i] \in TaskRow
    BY <1>2, <1>3, UsedRow DEF Inv, TypeOK
  <1>5. tasks' = [tasks EXCEPT ![i] = row]
    BY DEF CompleteCommit
  <1>6. \/ y.row.kind = "download" /\ y.report.outcome \in DownloadStatuses
        \/ y.row.kind = "delete" /\ y.report.outcome \in DeleteStatuses
    BY <1>2, <1>3, FieldsOfRow DEF SameTask, Outcomes, DownloadStatuses, DeleteStatuses
  <1>7. y.row.size \in 0 .. Size /\ y.row.asked \in BOOLEAN /\ "none" \in Leases
    BY <1>2, FieldsOfRow DEF Leases
  <1>8. size \in 0 .. Size
    BY <1>2, <1>7
  <1>9. /\ new.status = y.report.outcome /\ new.asked = y.row.asked
        /\ new.attempt = y.row.attempt /\ new.lease = "none" /\ new.size = size
    BY <1>2, FieldsOfRow
  <1> HIDE DEF size, new
  <1>10. /\ row \in TaskRow
         /\ row.kind = tasks[i].kind /\ row.target = tasks[i].target
         /\ row.attempt = tasks[i].attempt
         /\ row.status = Stored(y.row.status, y.report.outcome, tasks[i].status)
    <2>1. new.asked \in BOOLEAN
      BY <1>7, <1>9
    <2> QED
      BY <1>2, <1>3, <1>6, <1>7, <1>8, <1>9, <2>1, RewrittenRow DEF Inv, TypeOK
  <1>11. tasks[i].attempt \in Nat
    BY <1>4, FieldsOfRow
  <1>12. Writes(i, row)
    BY <1>3, <1>5, <1>10, <1>11 DEF Writes
  <1> HIDE DEF row
  <1> QED
    BY <1>2, <1>10, <1>12

\* Steps that write single columns of a row.
LEMMA ClaimRow ==
  ASSUME Inv, NEW x \in Txns, NEW i \in TaskIds, ClaimCommit(x, i)
  PROVE  \E row \in TaskRow :
           /\ Writes(i, row)
           /\ row.attempt = tasks[i].attempt + 1
           /\ row.lease = "live"
           /\ row.status = HandedOutStatus(tasks[i])
           /\ tasks[i] \in TaskRow
  <1>1. tasks[i] \in TaskRow
    BY UsedRow DEF Inv, TypeOK, ClaimCommit, IsCandidate, Claimable, HandedOut
  <1> DEFINE r == tasks[i]
             row == [kind |-> r.kind, target |-> r.target, status |-> HandedOutStatus(r),
                     attempt |-> r.attempt + 1, lease |-> "live", size |-> r.size,
                     asked |-> r.asked]
  <1>2. /\ r.target \in Targets /\ r.attempt \in Nat /\ r.size \in 0 .. Size
        /\ r.asked \in BOOLEAN
        /\ \/ r.kind = "download" /\ r.status \in DownloadStatuses
           \/ r.kind = "delete" /\ r.status \in DeleteStatuses
    BY <1>1, FieldsOfRow
  <1>3. \/ r.kind = "download" /\ HandedOutStatus(r) \in DownloadStatuses
        \/ r.kind = "delete" /\ HandedOutStatus(r) \in DeleteStatuses
    BY <1>2 DEF HandedOutStatus, DownloadStatuses, DeleteStatuses
  <1>4. row \in TaskRow
    BY <1>2, <1>3 DEF TaskRow, TaskRows, Leases
  <1>5. tasks' = [tasks EXCEPT ![i] = row]
    BY <1>1, FieldsOfRow DEF ClaimCommit, Inv, TypeOK, BaseTypeOK
  <1>6. r.status # "unused"
    BY <1>1, FieldsOfRow
  <1> QED
    <2>1. Writes(i, row) /\ row.attempt = r.attempt + 1 /\ row.lease = "live"
          /\ row.status = HandedOutStatus(r)
      BY <1>2, <1>5, <1>6 DEF Writes
    <2> HIDE DEF row
    <2> QED
      BY <1>1, <1>4, <2>1

LEMMA ClaimFailsRow ==
  ASSUME Inv, NEW x \in Txns, NEW i \in TaskIds, ClaimFails(x, i)
  PROVE  \E row \in TaskRow :
           /\ Writes(i, row)
           /\ row.attempt = tasks[i].attempt
           /\ row.status = "failed"
           /\ tasks[i] \in TaskRow
  <1>1. tasks[i] \in TaskRow
    BY UsedRow DEF Inv, TypeOK, ClaimFails, IsCandidate, Claimable, HandedOut
  <1> DEFINE r == tasks[i]
             row == [r EXCEPT !.status = "failed"]
  <1>2. /\ r.attempt \in Nat /\ r.status # "unused"
        /\ \/ r.kind = "download" /\ r.status \in DownloadStatuses
           \/ r.kind = "delete" /\ r.status \in DeleteStatuses
    BY <1>1, FieldsOfRow
  <1>3. row \in TaskRow
    BY <1>1 DEF TaskRow, TaskRows, DownloadStatuses, DeleteStatuses
  <1>4. /\ row.kind = r.kind /\ row.target = r.target /\ row.attempt = r.attempt
        /\ row.status = "failed"
    BY <1>1, FieldsOfRow
  <1>5. tasks' = [tasks EXCEPT ![i] = row]
    BY DEF ClaimFails
  <1>6. Writes(i, row)
    BY <1>2, <1>4, <1>5 DEF Writes
  <1> HIDE DEF row
  <1> QED
    BY <1>1, <1>3, <1>4, <1>6

LEMMA LeaseRow ==
  ASSUME Inv, NEW i \in TaskIds, LeaseExpires(i)
  PROVE  \E row \in TaskRow :
           /\ Writes(i, row)
           /\ row.attempt = tasks[i].attempt
           /\ row.status = tasks[i].status
           /\ row.lease = "expired"
  <1>1. tasks[i] \in TaskRow
    BY UsedRow DEF Inv, TypeOK, LeaseExpires, NoTask
  <1> DEFINE r == tasks[i]
             row == [r EXCEPT !.lease = "expired"]
  <1>2. r.attempt \in Nat /\ r.status # "unused"
    BY <1>1, FieldsOfRow
  <1>3. row \in TaskRow
    BY <1>1 DEF TaskRow, TaskRows, Leases
  <1>4. /\ row.kind = r.kind /\ row.target = r.target /\ row.attempt = r.attempt
        /\ row.status = r.status /\ row.lease = "expired"
    BY <1>1, FieldsOfRow
  <1>5. tasks' = [tasks EXCEPT ![i] = row]
    BY DEF LeaseExpires
  <1>6. Writes(i, row)
    BY <1>2, <1>4, <1>5 DEF Writes
  <1> HIDE DEF row
  <1> QED
    BY <1>3, <1>4, <1>6

LEMMA ProgressRow ==
  ASSUME Inv, NEW i \in TaskIds, NEW size \in 0 .. Size, NEW a,
         TakesProgress(i, a, size), Progress(i, size)
  PROVE  \E row \in TaskRow :
           /\ Writes(i, row)
           /\ row.attempt = tasks[i].attempt
           /\ row.status = tasks[i].status
           /\ row.lease = tasks[i].lease
  <1>1. tasks[i] \in TaskRow
    BY UsedRow DEF Inv, TypeOK, TakesProgress, LeaseHeldBy, HandedOut
  <1> DEFINE r == tasks[i]
             row == [r EXCEPT !.size = size]
  <1>2. r.attempt \in Nat /\ r.status # "unused"
    BY <1>1, FieldsOfRow
  <1>3. row \in TaskRow
    BY <1>1 DEF TaskRow, TaskRows
  <1>4. /\ row.kind = r.kind /\ row.target = r.target /\ row.attempt = r.attempt
        /\ row.status = r.status /\ row.lease = r.lease
    BY <1>1, FieldsOfRow
  <1>5. tasks' = [tasks EXCEPT ![i] = row]
    BY DEF Progress
  <1>6. Writes(i, row)
    BY <1>2, <1>4, <1>5 DEF Writes
  <1> HIDE DEF row
  <1> QED
    BY <1>3, <1>4, <1>6
-----------------------------------------------------------------------------
(* What a step does to the rows. *)

\* A row that is written stays the row of its task.
LEMMA WritesGrows ==
  ASSUME Inv, NEW i \in TaskIds, NEW row \in TaskRow, Writes(i, row)
  PROVE  Grows
  BY OneRowGrows DEF Writes, Inv, TypeOK

\* The steps that leave all rows as they are.
QuietStep ==
  \/ \E x \in Txns, t \in Targets : DownloadLoad(x, t) \/ DeleteLoad(x, t) \/ DeployLoad(x, t)
  \/ \E x \in Txns, i \in TaskIds : CancelLoad(x, i) \/ RetryLoad(x, i)
  \/ \E x \in Txns : DeployCommit(x) \/ RequestEnds(x) \/ AgentClaims(x)
  \/ \E x \in Txns : ClaimFindsNothing(x) /\ ClaimEmpty(x)
  \/ \E t \in Targets : Undeploy(t) \/ AgentScans(t) \/ ScanApplied(t)
  \/ AgentPolls \/ ClaimTimesOut \/ ProgressLost \/ (ReportsProgress /\ tasks' = tasks)
  \/ AgentDisturbed \/ AgentProceeds \/ MessageLost
  \/ \E m \in reports : CompleteRefused(m) \/ \E x \in Txns : CompleteLoad(x, m)
  \/ UNCHANGED vars

LEMMA QuietRows ==
  ASSUME QuietStep
  PROVE  tasks' = tasks
  BY DEF QuietStep, DownloadLoad, DeleteLoad, DeployLoad, CancelLoad, RetryLoad, DeployCommit,
     RequestEnds, AgentClaims, ClaimLoad, ClaimFindsNothing, Undeploy, AgentScans, Scan,
     ScanApplied, AgentPolls, ClaimTimesOut, ProgressLost, AgentDisturbed, AgentProceeds,
     Execute, MessageLost, CompleteRefused, CompleteLoad, rowVars, vars

\* The steps that write one.
WritingStep ==
  \/ \E x \in Txns, i \in TaskIds : \/ TaskCommit(x, i) \/ ClaimCommit(x, i)
                                    \/ ClaimFails(x, i)
  \/ \E x \in Txns : CancelCommit(x) \/ RetryCommit(x) \/ CompleteCommit(x)
  \/ \E i \in TaskIds : LeaseRunsOut(i)
  \/ ReportsProgress /\ TakesProgress(cmd.task, cmd.attempt, progress) /\ Progress(cmd.task, progress)

LEMMA Steps ==
  ASSUME [Next]_vars
  PROVE  QuietStep \/ WritingStep
  <1>1. CASE Administer
    BY <1>1 DEF Administer, QuietStep, WritingStep
  <1>2. CASE Claiming
    BY <1>2 DEF Claiming, ClaimAnswered, ClaimUnheard, ClaimEmpty, QuietStep, WritingStep
  <1>3. CASE ReportsProgress
    BY <1>3 DEF ReportsProgress, rowVars, QuietStep, WritingStep
  <1>4. CASE Reported
    BY <1>4 DEF Reported, QuietStep, WritingStep
  <1>5. CASE \/ AgentPolls \/ ClaimTimesOut \/ ProgressLost \/ AgentDisturbed \/ AgentProceeds
             \/ \E t \in Targets : AgentScans(t)
             \/ MessageLost \/ \E i \in TaskIds : LeaseRunsOut(i)
             \/ UNCHANGED vars
    BY <1>5 DEF QuietStep, WritingStep
  <1> QED
    BY <1>1, <1>2, <1>3, <1>4, <1>5 DEF Next

\* A progress report is about the command that is executed.
LEMMA FetchingTypes ==
  ASSUME Inv, Fetching
  PROVE  cmd.task \in TaskIds /\ progress \in 0 .. Size
  BY DEF Inv, TypeOK, AgentTypeOK, CommandFits, Fetching, Command

LEMMA StepGrows ==
  ASSUME Inv, [Next]_vars
  PROVE  Grows
  <1>1. CASE QuietStep
    BY <1>1, QuietRows, SameRowsGrow DEF Inv, TypeOK
  <1>2. CASE \E x \in Txns, i \in TaskIds : TaskCommit(x, i)
    BY <1>2, TaskCommitRow, OneRowGrows DEF Inv, TypeOK
  <1>3. CASE \E x \in Txns, i \in TaskIds : ClaimCommit(x, i)
    BY <1>3, ClaimRow, WritesGrows
  <1>4. CASE \E x \in Txns, i \in TaskIds : ClaimFails(x, i)
    BY <1>4, ClaimFailsRow, WritesGrows
  <1>5. CASE \E x \in Txns : CancelCommit(x)
    BY <1>5, CancelRow, WritesGrows
  <1>6. CASE \E x \in Txns : RetryCommit(x)
    BY <1>6, RetryRow, WritesGrows
  <1>7. CASE \E x \in Txns : CompleteCommit(x)
    BY <1>7, CompleteRow, WritesGrows
  <1>8. CASE \E i \in TaskIds : LeaseRunsOut(i)
    BY <1>8, LeaseRow, WritesGrows DEF LeaseRunsOut
  <1>9. CASE /\ ReportsProgress
             /\ TakesProgress(cmd.task, cmd.attempt, progress) /\ Progress(cmd.task, progress)
    BY <1>9, FetchingTypes, ProgressRow, WritesGrows DEF ReportsProgress
  <1> QED
    BY <1>1, <1>2, <1>3, <1>4, <1>5, <1>6, <1>7, <1>8, <1>9, Steps DEF WritingStep

-----------------------------------------------------------------------------
(* What a step does to transactions. *)

\* Beginning a transaction with what it reads, which fits.
LEMMA BeginReads ==
  ASSUME Inv, NEW x \in Txns, NEW s \in TxnStates, Begin(x, s), ReadFits(s)
  PROVE  /\ CentralTypeOK'
         /\ \A u \in Txns : ReadFits(txn'[u])
  <1>1. txn \in [Txns -> TxnStates] /\ \A u \in Txns : ReadFits(txn[u])
    BY DEF Inv, TypeOK, CentralTypeOK, ReadsFit
  <1>2. txn' = [txn EXCEPT ![x] = s]
    BY DEF Begin
  <1>3. \A u \in Txns : txn'[u] = IF u = x THEN s ELSE txn[u]
    BY <1>1, <1>2
  <1>4. \A u \in Txns : ReadFits(txn'[u])
    <2> SUFFICES ASSUME NEW u \in Txns
                 PROVE  ReadFits(txn'[u])
      OBVIOUS
    <2>1. CASE u = x
      BY <1>3, <2>1
    <2>2. CASE u # x
      BY <1>1, <1>3, <2>2
    <2> QED
      BY <2>1, <2>2
  <1> QED
    BY <1>1, <1>2, <1>4 DEF CentralTypeOK

\* The end of a transaction.
LEMMA EndReads ==
  ASSUME Inv, NEW x \in Txns, End(x)
  PROVE  /\ CentralTypeOK'
         /\ \A u \in Txns : ReadFits(txn'[u])
  <1>1. txn \in [Txns -> TxnStates] /\ \A u \in Txns : ReadFits(txn[u])
    BY DEF Inv, TypeOK, CentralTypeOK, ReadsFit
  <1>2. \A u \in Txns : txn'[u] = IF u = x THEN NoTxn ELSE txn[u]
    BY <1>1 DEF End
  <1>3. NoTxn \in TxnStates /\ ReadFits(NoTxn)
    BY DEF TxnStates, NoTxn, ReadFits
  <1>4. CentralTypeOK'
    BY <1>1, <1>3 DEF End, CentralTypeOK
  <1>5. \A u \in Txns : ReadFits(txn'[u])
    <2> SUFFICES ASSUME NEW u \in Txns
                 PROVE  ReadFits(txn'[u])
      OBVIOUS
    <2>1. CASE u = x
      BY <1>2, <1>3, <2>1
    <2>2. CASE u # x
      BY <1>1, <1>2, <2>2
    <2> QED
      BY <2>1, <2>2
  <1> QED
    BY <1>4, <1>5

\* Nobody waits for the answer of a claim any more.
LEMMA DeafenedTxns ==
  ASSUME CentralTypeOK, txn' = Deafened
  PROVE  /\ CentralTypeOK'
         /\ \A u \in Txns : /\ txn'[u].kind = txn[u].kind
                            /\ txn[u].kind # "claim" => txn'[u] = txn[u]
  <1>1. \A u \in Txns : /\ txn'[u] \in TxnStates
                        /\ txn'[u].kind = txn[u].kind
                        /\ txn[u].kind # "claim" => txn'[u] = txn[u]
    <2> SUFFICES ASSUME NEW u \in Txns
                 PROVE  /\ txn'[u] \in TxnStates
                        /\ txn'[u].kind = txn[u].kind
                        /\ txn[u].kind # "claim" => txn'[u] = txn[u]
      OBVIOUS
    <2>1. txn[u] \in TxnStates
      BY DEF CentralTypeOK
    <2>2. CASE txn[u].kind = "claim"
      <3>1. txn[u] \in ClaimTxn
        BY <2>1, <2>2, KindsOfTxn
      <3>2. txn'[u] = [txn[u] EXCEPT !.heard = FALSE]
        BY <2>2 DEF Deafened
      <3> QED
        BY <2>2, <3>1, <3>2 DEF ClaimTxn, TxnStates
    <2>3. CASE txn[u].kind # "claim"
      BY <2>1, <2>3 DEF Deafened
    <2> QED
      BY <2>2, <2>3
  <1> QED
    BY <1>1 DEF CentralTypeOK, Deafened

LEMMA StepReads ==
  ASSUME Inv, [Next]_vars
  PROVE  /\ CentralTypeOK'
         /\ \A u \in Txns : ReadFits(txn'[u])
  <1> DEFINE Goal == CentralTypeOK' /\ \A u \in Txns : ReadFits(txn'[u])
  <1>0. BaseTypeOK /\ CentralTypeOK
    BY DEF Inv, TypeOK
  <1>1. CASE \E x \in Txns, t \in Targets :
                DownloadLoad(x, t) \/ DeleteLoad(x, t) \/ DeployLoad(x, t)
    <2>1. PICK x \in Txns, t \in Targets :
               DownloadLoad(x, t) \/ DeleteLoad(x, t) \/ DeployLoad(x, t)
      BY <1>1
    <2>2. PICK k \in {"download", "delete", "deploy"} : Begin(x, [kind |-> k, target |-> t])
      BY <2>1 DEF DownloadLoad, DeleteLoad, DeployLoad
    <2>3. [kind |-> k, target |-> t] \in TxnStates /\ ReadFits([kind |-> k, target |-> t])
      BY DEF TxnStates, CreateTxn, ReadFits
    <2> QED
      BY <2>2, <2>3, BeginReads
  <1>2. CASE \E x \in Txns, i \in TaskIds : CancelLoad(x, i) \/ RetryLoad(x, i)
    <2>1. PICK x \in Txns, i \in TaskIds : CancelLoad(x, i) \/ RetryLoad(x, i)
      BY <1>2
    <2>2. PICK k \in {"cancel", "retry"} : Begin(x, [kind |-> k, task |-> i, row |-> tasks[i]])
      BY <2>1 DEF CancelLoad, RetryLoad
    <2>3. tasks[i].kind = "download" /\ tasks[i].status # "unused"
      BY <2>1 DEF CancelLoad, RetryLoad
    <2>4. tasks[i] \in TaskRow
      BY <1>0, <2>3, UsedRow
    <2>5. /\ [kind |-> k, task |-> i, row |-> tasks[i]] \in TxnStates
          /\ ReadFits([kind |-> k, task |-> i, row |-> tasks[i]])
      BY <2>3, <2>4 DEF TxnStates, MutateTxn, ReadFits, SameTask
    <2> QED
      BY <2>2, <2>5, BeginReads
  <1>3. CASE \E x \in Txns : AgentClaims(x)
    <2>1. /\ [kind |-> "claim", heard |-> TRUE] \in TxnStates
          /\ ReadFits([kind |-> "claim", heard |-> TRUE])
      BY DEF TxnStates, ClaimTxn, ReadFits
    <2> QED
      BY <1>3, <2>1, BeginReads DEF AgentClaims, ClaimLoad
  <1>4. CASE \E m \in reports, x \in Txns : CompleteLoad(x, m)
    <2>1. PICK m \in reports, x \in Txns : CompleteLoad(x, m)
      BY <1>4
    <2>2. m \in Report /\ m.task \in TaskIds /\ Fits(m)
      BY <1>0 DEF BaseTypeOK, Report, Inv, ReportsFit
    <2>3. tasks[m.task] \in TaskRow
      BY <1>0, <2>2, UsedRow DEF Fits
    <2>4. file[tasks[m.task].target] \in FileStatuses
      BY <1>0, <2>3, FieldsOfRow DEF BaseTypeOK
    <2> DEFINE s == [kind |-> "complete", report |-> m, row |-> tasks[m.task],
                     file |-> file[tasks[m.task].target]]
    <2>5. s \in TxnStates /\ ReadFits(s)
      BY <2>2, <2>3, <2>4 DEF TxnStates, CompleteTxn, ReadFits, SameTask
    <2>6. Begin(x, s)
      BY <2>1 DEF CompleteLoad
    <2> HIDE DEF s
    <2> QED
      BY <2>5, <2>6, BeginReads
  <1>5. CASE \E x \in Txns : End(x)
    BY <1>5, EndReads
  <1>6. CASE txn' = Deafened
    <2>1. /\ CentralTypeOK'
          /\ \A u \in Txns : /\ txn'[u].kind = txn[u].kind
                             /\ txn[u].kind # "claim" => txn'[u] = txn[u]
      BY <1>0, <1>6, DeafenedTxns
    <2>2. ASSUME NEW u \in Txns PROVE ReadFits(txn'[u])
      <3>1. CASE txn[u].kind = "claim"
        BY <2>1, <3>1 DEF ReadFits
      <3>2. CASE txn[u].kind # "claim"
        BY <2>1, <3>2 DEF Inv, ReadsFit
      <3> QED
        BY <3>1, <3>2
    <2> QED
      BY <2>1, <2>2
  <1>7. CASE txn' = txn
    BY <1>0, <1>7 DEF CentralTypeOK, Inv, ReadsFit
  <1> HIDE DEF Goal
  <1>8. CASE Administer
    BY <1>1, <1>2, <1>5, <1>7, <1>8
       DEF Administer, TaskCommit, DeployCommit, CancelCommit, RetryCommit, RequestEnds, Undeploy,
           Goal
  <1>9. CASE Claiming
    BY <1>3, <1>5, <1>9
       DEF Claiming, ClaimAnswered, ClaimUnheard, ClaimEmpty, ClaimCommit, ClaimFails,
           ClaimFindsNothing, Goal
  <1>10. CASE Reported
    BY <1>4, <1>5, <1>7, <1>10 DEF Reported, CompleteRefused, CompleteCommit, ScanApplied, Goal
  <1>11. CASE ClaimTimesOut \/ AgentDisturbed
    BY <1>6, <1>7, <1>11 DEF ClaimTimesOut, AgentDisturbed, Goal
  <1>12. CASE \/ AgentPolls \/ ReportsProgress \/ ProgressLost \/ AgentProceeds
              \/ \E t \in Targets : AgentScans(t)
              \/ MessageLost \/ UNCHANGED vars
              \/ \E i \in TaskIds : LeaseRunsOut(i)
    BY <1>7, <1>12 DEF AgentPolls, ReportsProgress, Progress, ProgressLost, AgentProceeds,
                       AgentScans,
       MessageLost, LeaseRunsOut, LeaseExpires, vars, Goal
  <1> QED
    BY <1>8, <1>9, <1>10, <1>11, <1>12 DEF Next, Goal
-----------------------------------------------------------------------------
(* What a step does to the Agent and to the rest. *)

\* The Agent reports on the task it executes.
LEMMA FinishReport ==
  ASSUME Inv, phase \in Executing, NEW outcome \in Outcomes, Finish(outcome),
         outcome = "cancelled" => cmd.kind = "download"
  PROVE  /\ \E m \in Report : /\ reports' = reports \cup {m}
                              /\ m.task = cmd.task /\ m.attempt = cmd.attempt
                              /\ m.outcome = outcome /\ Fits(m)
         /\ phase' = "idle" /\ cmd' = NoCommand /\ cancel' = FALSE
         /\ failures' = 0 /\ progress' = 0 /\ stopping' = stopping
  <1> DEFINE m == [task |-> cmd.task, attempt |-> cmd.attempt,
                   outcome |-> outcome, size |-> progress]
  <1>1. cmd \in Command /\ progress \in 0 .. Size
    BY DEF Inv, CommandFits, TypeOK, AgentTypeOK
  <1>2. m \in Report
    BY <1>1 DEF Command, Report
  <1>3. Fits(m)
    BY DEF Inv, CommandFits, Fits, SameTask
  <1>4. reports' = reports \cup {m}
    BY DEF Finish
  <1> QED
    BY <1>2, <1>3, <1>4 DEF Finish, Forget

\* What the executing thread may do besides: go on with its task.
GoesOn ==
  /\ phase \in Executing /\ phase' \in {"fetching", "published"}
  /\ cmd.kind = "download"
  /\ UNCHANGED <<cmd, cancel, failures, stopping, reports>>
  /\ progress' \in 0 .. Size

\* Each step of the thread either ends in a report or goes on.
LEMMA ExecuteCases ==
  ASSUME Inv, Execute \/ DeleteBreaksOff
  PROVE  /\ phase \in Executing
         /\ \/ GoesOn
            \/ \E outcome \in Outcomes : /\ Finish(outcome)
                                         /\ outcome = "cancelled" => cmd.kind = "download"
         /\ disk' \in [Targets -> DiskStatuses]
  <1>1. /\ progress \in 0 .. Size /\ Size \in Nat /\ disk \in [Targets -> DiskStatuses]
        /\ phase = "fetching" => cmd.kind = "download"
    BY TaskBoundsAssumption DEF Inv, TypeOK, BaseTypeOK, AgentTypeOK, CommandFits, Executing
  <1>2. phase \in Executing
    BY DEF Execute, BeginDownload, Fetch, CancelNoticed, Publish, DownloadDone, Delete, TaskFails,
       DeleteBreaksOff, Executing
  <1>3. disk' \in [Targets -> DiskStatuses]
    <2>1. CASE Execute
      BY <1>1, <2>1 DEF Execute, BeginDownload, Fetch, CancelNoticed, Publish, DownloadDone,
         Delete, TaskFails, DiskStatuses
    <2>2. CASE DeleteBreaksOff
      BY <1>1, <2>2 DEF DeleteBreaksOff, Remains, DiskStatuses
    <2> QED
      BY <2>1, <2>2
  <1>4. CASE \E outcome \in {"completed", "failed"} : Finish(outcome)
    BY <1>2, <1>3, <1>4 DEF Outcomes
  <1>5. CASE Finish("cancelled") /\ cmd.kind = "download"
    BY <1>2, <1>3, <1>5 DEF Outcomes
  <1>6. CASE GoesOn
    BY <1>2, <1>3, <1>6
  <1>7. CASE BeginDownload
    <2>1. \/ Finish("failed") \/ (Finish("cancelled") /\ cmd.kind = "download")
          \/ /\ phase' \in {"fetching", "published"}
             /\ UNCHANGED <<cmd, cancel, failures, stopping, reports>>
             /\ progress' \in {progress, Size}
      BY <1>7 DEF BeginDownload
    <2>2. cmd.kind = "download"
      BY <1>7 DEF BeginDownload
    <2> QED
      BY <1>1, <1>2, <1>4, <1>5, <1>6, <2>1, <2>2 DEF GoesOn
  <1>8. CASE Fetch \/ Publish
    <2>1. /\ phase' \in {"fetching", "published"} /\ phase = "fetching"
          /\ UNCHANGED <<cmd, cancel, failures, stopping, reports>>
          /\ \/ progress < Size /\ progress' = progress + 1
             \/ progress' = Size
      BY <1>8 DEF Fetch, Publish
    <2> QED
      BY <1>1, <1>2, <1>6, <2>1 DEF GoesOn
  <1>9. CASE CancelNoticed
    BY <1>1, <1>5, <1>9 DEF CancelNoticed
  <1>10. CASE DownloadDone \/ Delete \/ TaskFails \/ DeleteBreaksOff
    BY <1>4, <1>10 DEF DownloadDone, Delete, TaskFails, DeleteBreaksOff
  <1> QED
    BY <1>7, <1>8, <1>9, <1>10 DEF Execute

\* A candidate makes a command.
LEMMA CommandType ==
  ASSUME Inv, NEW x \in Txns, NEW i \in TaskIds, ClaimCommit(x, i)
  PROVE  /\ CommandFor(i) \in Command
         /\ CommandFor(i).kind = tasks[i].kind /\ CommandFor(i).target = tasks[i].target
         /\ CommandFor(i).attempt = tasks[i].attempt + 1 /\ CommandFor(i).task = i
         /\ tasks'[i].status # "unused" /\ tasks'[i].kind = tasks[i].kind
         /\ tasks'[i].target = tasks[i].target /\ tasks'[i].attempt = tasks[i].attempt + 1
  <1>1. PICK row \in TaskRow : /\ Writes(i, row) /\ row.attempt = tasks[i].attempt + 1
                               /\ tasks[i] \in TaskRow
    BY ClaimRow
  <1>2. tasks'[i] = row /\ row.status # "unused"
    BY <1>1, FieldsOfRow DEF Writes, Inv, TypeOK, BaseTypeOK
  <1>3. /\ tasks[i].attempt \in Nat /\ tasks[i].target \in Targets
        /\ tasks[i].kind \in {"download", "delete"} /\ tasks[i].asked \in BOOLEAN
    BY <1>1, FieldsOfRow
  <1>4. CommandFor(i) \in Command
    BY <1>3 DEF CommandFor, Command
  <1> QED
    BY <1>1, <1>2, <1>4 DEF CommandFor, Writes

\* The Agent's types.
LEMMA StepAgentType ==
  ASSUME Inv, [Next]_vars
  PROVE  AgentTypeOK'
  <1> DEFINE Goal == AgentTypeOK'
  <1>0. AgentTypeOK
    BY DEF Inv, TypeOK
  <1>1. CASE UNCHANGED agentVars
    BY <1>0, <1>1 DEF agentVars, AgentTypeOK
  <1>2. CASE HeartbeatAnswered \/ BeginClaim \/ ClaimIsOver \/ Stopped \/ Restart
    BY <1>0, <1>2 DEF HeartbeatAnswered, BeginClaim, ClaimIsOver, Stopped, Restart, AgentTypeOK,
                      Phases
  <1>3. CASE /\ phase' \in {"idle", "down"} /\ cmd' = NoCommand /\ cancel' = FALSE
             /\ failures' = 0 /\ progress' = 0 /\ stopping' = stopping
    <2>1. cancel' \in BOOLEAN /\ stopping' \in BOOLEAN
      BY <1>0, <1>3, Zenon DEF AgentTypeOK
    <2> QED
      BY <1>0, <1>3, <2>1, TaskBoundsAssumption DEF AgentTypeOK, Phases, MaxFailures
  <1>4. CASE GoesOn
    BY <1>0, <1>4 DEF GoesOn, AgentTypeOK, Phases, Executing
  <1>5. CASE \E c \in Command : ReceiveCommand(c)
    BY <1>0, <1>5 DEF ReceiveCommand, AgentTypeOK, Phases, Executing
  <1>6. CASE Stop
    BY <1>0, <1>6 DEF Stop, AgentTypeOK
  <1>7. CASE ProgressFailed
    BY <1>0, <1>7 DEF ProgressFailed, AgentTypeOK, MaxFailures
  <1>8. CASE \E asked \in BOOLEAN : ProgressTaken(asked)
    BY <1>0, <1>8 DEF ProgressTaken, AgentTypeOK, MaxFailures
  <1> HIDE DEF Goal
  <1>9. CASE Execute \/ DeleteBreaksOff
    <2>1. CASE \E outcome \in Outcomes : /\ Finish(outcome)
                                         /\ outcome = "cancelled" => cmd.kind = "download"
      BY <1>3, <1>9, <2>1, ExecuteCases, FinishReport
    <2> QED
      BY <1>4, <1>9, <2>1, ExecuteCases
  <1>10. CASE Claiming
    BY <1>1, <1>2, <1>5, <1>10, CommandType
       DEF Claiming, AgentClaims, ClaimAnswered, ClaimUnheard, ClaimEmpty
  <1>11. CASE AgentDisturbed \/ AgentProceeds
    BY <1>2, <1>3, <1>6, <1>9, <1>11 DEF AgentDisturbed, AgentProceeds, Crash, Forget
  <1>12. CASE ReportsProgress \/ ProgressLost
    <2>1. CASE ProgressTaken(tasks[cmd.task].asked) /\ TakesProgress(cmd.task, cmd.attempt, progress)
               /\ Fetching
      BY <1>8, <2>1, UsedRow, FieldsOfRow, FetchingTypes
         DEF TakesProgress, LeaseHeldBy, HandedOut, Inv, TypeOK
    <2> QED
      BY <1>7, <1>12, <2>1 DEF ReportsProgress, ProgressLost
  <1>13. CASE \/ Administer \/ Reported \/ MessageLost \/ UNCHANGED vars
              \/ \E i \in TaskIds : LeaseRunsOut(i)
              \/ \E t \in Targets : AgentScans(t)
    BY <1>1, <1>13 DEF Administer, Reported, MessageLost, vars, LeaseRunsOut, AgentScans, Scan
  <1>14. CASE AgentPolls \/ ClaimTimesOut
    BY <1>2, <1>14 DEF AgentPolls, ClaimTimesOut
  <1> QED
    BY <1>9, <1>10, <1>11, <1>12, <1>13, <1>14 DEF Next

\* What becomes of the command that is executed: it is kept, or was handed out
\* in this step.
CommandKept ==
  /\ phase \in Executing /\ cmd' = cmd
  /\ phase' # "begin" => phase # "begin" \/ cmd.kind = "download"
CommandHanded ==
  /\ phase = "claiming" /\ phase' = "begin"
  /\ \E x \in Txns : \E i \in TaskIds : ClaimCommit(x, i) /\ cmd' = CommandFor(i)

LEMMA StepCommand ==
  ASSUME Inv, [Next]_vars, phase' \in Executing
  PROVE  CommandKept \/ CommandHanded
  <1>1. CASE UNCHANGED <<phase, cmd>>
    BY <1>1 DEF CommandKept
  <1>2. CASE phase' \notin Executing
    BY <1>2
  <1>3. CASE GoesOn
    BY <1>3 DEF GoesOn, CommandKept
  <1>4. CASE Execute \/ DeleteBreaksOff
    BY <1>2, <1>3, <1>4, ExecuteCases DEF Finish, Executing
  <1>5. CASE \E x \in Txns, i \in TaskIds : ClaimAnswered(x, i)
    BY <1>5 DEF ClaimAnswered, ReceiveCommand, CommandHanded
  <1>6. CASE Claiming
    BY <1>1, <1>2, <1>5, <1>6
       DEF Claiming, AgentClaims, BeginClaim, ClaimUnheard, ClaimEmpty, ClaimIsOver, agentVars,
           Executing
  <1>7. CASE AgentDisturbed \/ AgentProceeds
    BY <1>1, <1>2, <1>4, <1>7
       DEF AgentDisturbed, AgentProceeds, Crash, Stop, Stopped, Restart, Executing
  <1>8. CASE \/ Administer \/ Reported \/ MessageLost \/ UNCHANGED vars
             \/ ReportsProgress \/ ProgressLost
             \/ \E i \in TaskIds : LeaseRunsOut(i)
             \/ \E t \in Targets : AgentScans(t)
    BY <1>1, <1>8 DEF Administer, Reported, MessageLost, vars, agentVars, LeaseRunsOut, AgentScans,
       Scan, ReportsProgress, ProgressLost, ProgressTaken, ProgressFailed
  <1>9. CASE AgentPolls \/ ClaimTimesOut
    BY <1>2, <1>9 DEF AgentPolls, HeartbeatAnswered, ClaimTimesOut, ClaimIsOver, Executing
  <1> QED
    BY <1>4, <1>6, <1>7, <1>8, <1>9 DEF Next

\* Only the execution of a task reports.
ExecutingStep == (Execute \/ DeleteBreaksOff) /\ tasks' = tasks /\ txn' = txn

LEMMA NoOtherReports ==
  ASSUME [Next]_vars
  PROVE  ExecutingStep \/ reports' \subseteq reports
  <1> DEFINE Goal == ExecutingStep \/ reports' \subseteq reports
  <1>1. CASE Administer
    BY <1>1
       DEF Administer, DownloadLoad, DeleteLoad, DeployLoad, CancelLoad, RetryLoad, TaskCommit,
           DeployCommit, CancelCommit, RetryCommit, RequestEnds, Undeploy
  <1>2. CASE Claiming
    BY <1>2 DEF Claiming, AgentClaims, ClaimLoad, ClaimAnswered, ClaimUnheard, ClaimEmpty,
       ClaimCommit, ClaimFindsNothing, ClaimFails
  <1>3. CASE Reported
    BY <1>3 DEF Reported, CompleteRefused, CompleteLoad, CompleteCommit, ScanApplied
  <1>4. CASE \/ AgentPolls \/ ClaimTimesOut \/ ReportsProgress \/ ProgressLost \/ MessageLost
             \/ UNCHANGED vars
             \/ \E t \in Targets : AgentScans(t)
             \/ \E i \in TaskIds : LeaseRunsOut(i)
    BY <1>4 DEF AgentPolls, ClaimTimesOut, ReportsProgress, Progress, ProgressLost, MessageLost,
       vars, AgentScans, Scan, LeaseRunsOut, LeaseExpires
  <1>5. CASE AgentDisturbed \/ AgentProceeds
    BY <1>5 DEF AgentDisturbed, AgentProceeds, Execute, rowVars, ExecutingStep
  <1> HIDE DEF Goal
  <1> QED
    BY <1>1, <1>2, <1>3, <1>4, <1>5 DEF Next, Goal

\* Reports that a step leaves were there, or it fits what is reported.
LEMMA StepReports ==
  ASSUME Inv, [Next]_vars
  PROVE  \A m \in reports' : m \in Report /\ Fits(m)
  <1>0. \A m \in reports : m \in Report /\ Fits(m)
    BY DEF Inv, TypeOK, BaseTypeOK, ReportsFit
  <1>1. CASE reports' \subseteq reports
    BY <1>0, <1>1
  <1>2. CASE ExecutingStep
    <2>1. CASE GoesOn
      BY <1>1, <2>1 DEF GoesOn
    <2>2. CASE \E outcome \in Outcomes : /\ Finish(outcome)
                                         /\ outcome = "cancelled" => cmd.kind = "download"
      <3>1. \E m \in Report : reports' = reports \cup {m} /\ Fits(m)
        BY <1>2, <2>2, ExecuteCases, FinishReport DEF ExecutingStep
      <3> QED
        BY <1>0, <3>1
    <2> QED
      BY <1>2, <2>1, <2>2, ExecuteCases DEF ExecutingStep
  <1> QED
    BY <1>1, <1>2, NoOtherReports

\* The columns and messages that no task hangs on keep their types.
LEMMA StepRest ==
  ASSUME Inv, [Next]_vars
  PROVE  /\ file' \in [Targets -> FileStatuses]
         /\ deployed' \in [Targets -> BOOLEAN]
         /\ disk' \in [Targets -> DiskStatuses]
         /\ seen' \in [Targets -> {"nothing", "none", "published"}]
         /\ faults' \in 0 .. MaxFaults
  <1> DEFINE Goal == /\ file' \in [Targets -> FileStatuses]
                     /\ deployed' \in [Targets -> BOOLEAN]
                     /\ disk' \in [Targets -> DiskStatuses]
                     /\ seen' \in [Targets -> {"nothing", "none", "published"}]
                     /\ faults' \in 0 .. MaxFaults
  <1>0. /\ file \in [Targets -> FileStatuses]
        /\ deployed \in [Targets -> BOOLEAN]
        /\ disk \in [Targets -> DiskStatuses]
        /\ seen \in [Targets -> {"nothing", "none", "published"}]
        /\ faults \in 0 .. MaxFaults /\ MaxFaults \in Nat
    BY MaxFaultsAssumption DEF Inv, TypeOK, BaseTypeOK
  <1>1. NoFault \/ Fault => faults' \in 0 .. MaxFaults
    BY <1>0 DEF NoFault, Fault
  <1>2. CASE UNCHANGED <<file, deployed, disk, seen>> /\ (NoFault \/ Fault)
    BY <1>0, <1>1, <1>2
  <1>3. CASE (\E x \in Txns : DeployCommit(x) \/ \E t \in Targets : Undeploy(t)) /\ NoFault
    BY <1>0, <1>1, <1>3 DEF DeployCommit, Undeploy
  <1>4. CASE \E x \in Txns : CompleteCommit(x) /\ NoFault
    <2>1. PICK x \in Txns : CompleteCommit(x) /\ NoFault
      BY <1>4
    <2>2. \/ file' = file
          \/ file' = [file EXCEPT ![txn[x].row.target] =
                         Stored(txn[x].file, "missing", file[txn[x].row.target])]
      BY <2>1 DEF CompleteCommit
    <2>3. file' \in [Targets -> FileStatuses]
      BY <1>0, <2>2 DEF Stored, FileStatuses
    <2> QED
      BY <1>0, <1>1, <2>1, <2>3 DEF CompleteCommit
  <1>5. CASE \E t \in Targets : ScanApplied(t) /\ NoFault
    BY <1>0, <1>1, <1>5 DEF ScanApplied, FileStatuses
  <1>6. CASE (Execute \/ DeleteBreaksOff) /\ UNCHANGED <<file, deployed, seen>> /\ (NoFault \/ Fault)
    BY <1>0, <1>1, <1>6, ExecuteCases
  <1>7. CASE Crash /\ UNCHANGED <<file, deployed, seen>> /\ Fault
    BY <1>0, <1>1, <1>7 DEF Crash, Remains, DiskStatuses
  <1>8. CASE \E t \in Targets : AgentScans(t)
    BY <1>0, <1>1, <1>8 DEF AgentScans, Scan
  <1>9. CASE MessageLost
    BY <1>0, <1>1, <1>9 DEF MessageLost, rowVars
  <1> HIDE DEF Goal
  <1>10. CASE Administer
    <2>1. CASE \E t \in Targets : Undeploy(t)
      <3>1. PICK t \in Targets : Undeploy(t)
        BY <2>1
      <3>2. deployed' \in [Targets -> BOOLEAN] /\ UNCHANGED <<file, disk, seen>>
        BY <1>0, <3>1 DEF Undeploy
      <3> QED
        BY <1>0, <1>1, <1>10, <3>2 DEF Administer, Goal
    <2> QED
      BY <1>2, <1>3, <1>10, <2>1
         DEF Administer, DownloadLoad, DeleteLoad, DeployLoad, CancelLoad, RetryLoad, TaskCommit,
             CancelCommit, RetryCommit, RequestEnds
  <1>11. CASE Claiming
    BY <1>2, <1>11 DEF Claiming, AgentClaims, ClaimLoad, ClaimAnswered, ClaimUnheard, ClaimEmpty,
       ClaimCommit, ClaimFindsNothing, ClaimFails
  <1>12. CASE Reported
    BY <1>2, <1>4, <1>5, <1>12 DEF Reported, CompleteRefused, CompleteLoad
  <1>13. CASE AgentPolls \/ ClaimTimesOut \/ ProgressLost \/ UNCHANGED vars
    BY <1>2, <1>13 DEF AgentPolls, ClaimTimesOut, ProgressLost, rowVars, vars, NoFault
  <1>14. CASE ReportsProgress \/ \E i \in TaskIds : LeaseRunsOut(i)
    BY <1>2, <1>14 DEF ReportsProgress, Progress, rowVars, LeaseRunsOut, LeaseExpires
  <1>15. CASE AgentDisturbed
    BY <1>2, <1>6, <1>7, <1>15 DEF AgentDisturbed, rowVars
  <1>16. CASE AgentProceeds
    BY <1>2, <1>6, <1>16 DEF AgentProceeds, Execute, rowVars
  <1> QED
    BY <1>8, <1>9, <1>10, <1>11, <1>12, <1>13, <1>14, <1>15, <1>16 DEF Next, Goal

-----------------------------------------------------------------------------
(* Types. *)

LEMMA InitInv == Init => Inv
  <1> SUFFICES ASSUME Init PROVE Inv
    OBVIOUS
  <1> USE DEF Init, BaseInit, CentralInit, AgentInit
  <1>1. BaseTypeOK
    BY DEF BaseTypeOK, FileStatuses, DiskStatuses
  <1>2. CentralTypeOK
    BY DEF CentralTypeOK, TxnStates
  <1>3. AgentTypeOK
    <2>1. cancel \in BOOLEAN /\ stopping \in BOOLEAN
      BY Zenon
    <2> QED
      BY <2>1, TaskBoundsAssumption DEF AgentTypeOK, Phases, MaxFailures
  <1>4. faults \in 0 .. MaxFaults
    BY MaxFaultsAssumption
  <1>5. CommandFits /\ ReportsFit /\ ReadsFit
    BY DEF CommandFits, Executing, ReportsFit, ReadsFit, ReadFits, NoTxn
  <1> QED
    BY <1>1, <1>2, <1>3, <1>4, <1>5 DEF Inv, TypeOK

\* What is said of a task stays so: its row grows.
LEMMA FitsKept ==
  ASSUME Inv, Grows, NEW m \in Report, Fits(m)
  PROVE  /\ tasks'[m.task].status # "unused"
         /\ m.attempt <= tasks'[m.task].attempt
         /\ m.outcome = "cancelled" => tasks'[m.task].kind = "download"
         /\ tasks'[m.task].kind = tasks[m.task].kind
         /\ tasks'[m.task].target = tasks[m.task].target
  <1>1. m.task \in TaskIds /\ m.attempt \in Nat
    BY DEF Report
  <1>2. RowKept(m.task)
    BY <1>1 DEF Grows, Fits
  <1>3. tasks'[m.task] \in TaskRow
    BY <1>1, <1>2 DEF Grows, RowKept, NoTask
  <1>4. tasks[m.task].attempt \in Nat /\ tasks'[m.task].attempt \in Nat
    BY <1>1, <1>3, UsedRow, FieldsOfRow DEF Fits, Inv, TypeOK
  <1> QED
    BY <1>1, <1>2, <1>4 DEF RowKept, Fits

LEMMA CommandFitsStep ==
  ASSUME Inv, [Next]_vars
  PROVE  CommandFits'
  <1> SUFFICES ASSUME phase' \in Executing
               PROVE  /\ cmd' \in Command
                      /\ tasks'[cmd'.task].status # "unused"
                      /\ tasks'[cmd'.task].kind = cmd'.kind
                      /\ tasks'[cmd'.task].target = cmd'.target
                      /\ cmd'.attempt <= tasks'[cmd'.task].attempt
                      /\ phase' # "begin" => cmd'.kind = "download"
    BY DEF CommandFits, SameTask
  <1>1. CASE CommandKept
    <2>1. /\ cmd \in Command /\ tasks[cmd.task].status # "unused"
          /\ tasks[cmd.task].kind = cmd.kind /\ tasks[cmd.task].target = cmd.target
          /\ cmd.attempt <= tasks[cmd.task].attempt
          /\ phase # "begin" => cmd.kind = "download"
      BY <1>1 DEF CommandKept, Inv, CommandFits, SameTask
    <2>2. cmd.task \in TaskIds /\ cmd.attempt \in Nat
      BY <2>1 DEF Command
    <2>3. tasks[cmd.task].attempt \in Nat
      BY <2>1, <2>2, UsedRow, FieldsOfRow DEF Inv, TypeOK
    <2>4. RowKept(cmd.task) /\ tasks'[cmd.task] \in TaskRow
      BY <2>1, <2>2, StepGrows DEF Grows, RowKept, NoTask
    <2>5. tasks'[cmd.task].attempt \in Nat
      BY <2>4, FieldsOfRow
    <2> QED
      BY <1>1, <2>1, <2>2, <2>3, <2>4, <2>5 DEF CommandKept, RowKept
  <1>2. CASE CommandHanded
    <2>1. PICK x \in Txns : \E i \in TaskIds : ClaimCommit(x, i) /\ cmd' = CommandFor(i)
      BY <1>2 DEF CommandHanded
    <2>2. PICK i \in TaskIds : ClaimCommit(x, i) /\ cmd' = CommandFor(i)
      BY <2>1
    <2>3. cmd' \in Command /\ cmd'.attempt \in Nat
      BY <2>2, CommandType DEF Command
    <2> QED
      BY <1>2, <2>2, <2>3, CommandType DEF CommandHanded
  <1> QED
    BY <1>1, <1>2, StepCommand

LEMMA ReadsFitStep ==
  ASSUME Inv, [Next]_vars
  PROVE  ReadsFit'
  <1> SUFFICES ASSUME NEW u \in Txns
               PROVE  ReadFits(txn[u])'
    BY DEF ReadsFit
  <1>1. PICK s \in TxnStates : s = txn'[u] /\ ReadFits(s)
    BY StepReads DEF CentralTypeOK
  <1>2. Grows
    BY StepGrows
  <1>3. CASE s.kind \in {"cancel", "retry"}
    <2>1. s.task \in TaskIds
      BY <1>3, KindsOfTxn DEF MutateTxn
    <2>2. RowKept(s.task)
      BY <1>1, <1>2, <1>3, <2>1 DEF Grows, ReadFits
    <2> QED
      BY <1>1, <1>3, <2>2 DEF ReadFits, SameTask, RowKept
  <1>4. CASE s.kind = "complete"
    <2>1. s.report \in Report
      BY <1>4, KindsOfTxn DEF CompleteTxn
    <2>2. SameTask(s.report.task, s.row) /\ Fits(s.report)
      BY <1>1, <1>4 DEF ReadFits
    <2> QED
      BY <1>1, <1>2, <1>4, <2>1, <2>2, FitsKept DEF ReadFits, SameTask, Fits
  <1>5. CASE s.kind \notin {"cancel", "retry", "complete"}
    BY <1>1, <1>5 DEF ReadFits
  <1> QED
    BY <1>3, <1>4, <1>5

LEMMA StepInv ==
  ASSUME Inv, [Next]_vars
  PROVE  Inv'
  <1>1. \A m \in reports' : m \in Report /\ Fits(m)
    BY StepReports
  <1>2. BaseTypeOK'
    BY <1>1, StepGrows, StepRest DEF BaseTypeOK, Grows
  <1>3. TypeOK'
    BY <1>2, StepReads, StepAgentType, StepRest DEF TypeOK
  <1>4. ReportsFit'
    BY <1>1, StepGrows, FitsKept DEF ReportsFit, Fits
  <1> QED
    BY <1>3, <1>4, CommandFitsStep, ReadsFitStep DEF Inv

LEMMA InvIsInvariant == Spec => []Inv
  BY InitInv, StepInv, PTL DEF Spec

\* However many requests and reports overlap, every task row has a status of
\* its own table, an Agent works under a command of the last or an earlier
\* claim, and a transaction knows the task it rewrites.
THEOREM TypesAreKept == Spec => []TypeOK
  BY InvIsInvariant, PTL DEF Inv
-----------------------------------------------------------------------------
(***************************************************************************)
(* One request at a time.  A claim that has found no live lease, a change  *)
(* or an outcome that was checked against a row: what was read then still  *)
(* holds at the commit, since nothing else may commit in between.          *)
(***************************************************************************)
OneAtATime == \A x, y \in Txns : x = y

HandedOutHasLease == \A i \in HandedOut : tasks[i].lease # "none"

ClaimSeesNoLease ==
  \A x \in Txns : txn[x].kind = "claim" => LeasedTasks = {} /\ phase \notin Executing

MutationIsCurrent ==
  \A x \in Txns :
    /\ txn[x].kind \in {"cancel", "retry"} => tasks[txn[x].task].status = txn[x].row.status
    /\ txn[x].kind = "cancel" => txn[x].row.status \in {"queued", "downloading", "cancelling"}
    /\ txn[x].kind = "retry" => txn[x].row.status \in {"failed", "cancelled"}

\* Whose outcome is being written is executed no more.
CompletionIsOfLastClaim ==
  \A x \in Txns : txn[x].kind = "complete" =>
    /\ txn[x].report.task \in HandedOut
    /\ tasks[txn[x].report.task].status = txn[x].row.status
    /\ tasks[txn[x].report.task].attempt = txn[x].report.attempt
    /\ phase \notin Executing

\* While the Agent executes, no lease is live but that of its task, and it has
\* not reported on it yet.
ExecutingHoldsLease ==
  phase \in Executing => \A i \in LeasedTasks : i = cmd.task /\ tasks[i].attempt = cmd.attempt

OneReportPerClaim ==
  phase \in Executing => \A m \in reports : m.task # cmd.task \/ m.attempt # cmd.attempt

SerialInv ==
  /\ OneTaskLeased
  /\ HandedOutHasLease
  /\ ClaimSeesNoLease
  /\ MutationIsCurrent
  /\ CompletionIsOfLastClaim
  /\ ExecutingHoldsLease
  /\ OneReportPerClaim

LEMMA SerialInit == Init => SerialInv
  BY DEF Init, BaseInit, CentralInit, AgentInit, NoTask, NoTxn, SerialInv, OneTaskLeased,
     HandedOutHasLease, ClaimSeesNoLease, MutationIsCurrent, CompletionIsOfLastClaim,
     ExecutingHoldsLease, OneReportPerClaim, LeasedTasks, HandedOut, Executing

-----------------------------------------------------------------------------
(* What the commits make of a row when nothing else has written it. *)

OnlyRow(i) == \A j \in TaskIds : j # i => tasks'[j] = tasks[j]

LEMMA WrittenRow ==
  ASSUME Inv, NEW i \in TaskIds, NEW row, Writes(i, row)
  PROVE  tasks'[i] = row /\ OnlyRow(i)
  BY DEF Inv, TypeOK, BaseTypeOK, Writes, OnlyRow

LEMMA Inserted ==
  ASSUME Inv, NEW x \in Txns, NEW i \in TaskIds, TaskCommit(x, i)
  PROVE  /\ OnlyRow(i)
         /\ tasks'[i].status = "queued" /\ tasks'[i].attempt = 0
         /\ tasks'[i].kind = txn[x].kind /\ tasks'[i].target = txn[x].target
  <1>1. tasks'[i] = QueuedTask(txn[x].kind, txn[x].target) /\ OnlyRow(i)
    BY TaskCommitRow DEF Inv, TypeOK, BaseTypeOK, OnlyRow
  <1> QED
    BY <1>1 DEF QueuedTask

LEMMA Cancelled ==
  ASSUME Inv, MutationIsCurrent, NEW x \in Txns, CancelCommit(x)
  PROVE  \E i \in TaskIds :
           /\ i = txn[x].task /\ OnlyRow(i)
           /\ tasks[i].status \in {"queued", "downloading", "cancelling"}
           /\ tasks'[i].status = IF tasks[i].status = "queued" THEN "cancelled" ELSE "cancelling"
           /\ tasks'[i].attempt = tasks[i].attempt /\ tasks'[i].lease = tasks[i].lease
  <1> DEFINE i == txn[x].task
  <1>1. /\ i \in TaskIds /\ tasks[i].status = txn[x].row.status
        /\ txn[x].row.status \in {"queued", "downloading", "cancelling"}
    BY MutatedRow DEF CancelCommit, MutationIsCurrent
  <1>2. PICK row \in TaskRow :
          /\ Writes(i, row) /\ row.attempt = tasks[i].attempt /\ row.lease = tasks[i].lease
          /\ row.status = Stored(txn[x].row.status,
                                 IF txn[x].row.status = "queued" THEN "cancelled" ELSE "cancelling",
                                 tasks[i].status)
    BY CancelRow
  <1>3. row.status = IF tasks[i].status = "queued" THEN "cancelled" ELSE "cancelling"
    BY <1>1, <1>2 DEF Stored
  <1>4. tasks'[i] = row /\ OnlyRow(i)
    BY <1>1, <1>2, WrittenRow
  <1> QED
    BY <1>1, <1>2, <1>3, <1>4

LEMMA Retried ==
  ASSUME Inv, MutationIsCurrent, NEW x \in Txns, RetryCommit(x)
  PROVE  \E i \in TaskIds :
           /\ OnlyRow(i)
           /\ tasks[i].status \in {"failed", "cancelled"}
           /\ tasks'[i].status = "queued" /\ tasks'[i].kind = "download"
           /\ tasks'[i].attempt = tasks[i].attempt
  <1> DEFINE i == txn[x].task
  <1>1. /\ i \in TaskIds /\ tasks[i].status = txn[x].row.status /\ tasks[i].kind = "download"
        /\ txn[x].row.status \in {"failed", "cancelled"}
    BY MutatedRow DEF RetryCommit, MutationIsCurrent, SameTask
  <1>2. PICK row \in TaskRow :
          /\ Writes(i, row) /\ row.attempt = tasks[i].attempt
          /\ row.status = Stored(txn[x].row.status, "queued", tasks[i].status)
    BY RetryRow
  <1>3. row.status = "queued" /\ row.kind = "download"
    BY <1>1, <1>2 DEF Stored, Writes
  <1>4. tasks'[i] = row /\ OnlyRow(i)
    BY <1>1, <1>2, WrittenRow
  <1> QED
    BY <1>1, <1>2, <1>3, <1>4

LEMMA Completed ==
  ASSUME Inv, CompletionIsOfLastClaim, NEW x \in Txns, CompleteCommit(x)
  PROVE  \E i \in TaskIds :
           /\ i = txn[x].report.task /\ OnlyRow(i)
           /\ i \in HandedOut /\ tasks[i].attempt = txn[x].report.attempt
           /\ tasks'[i].status = txn[x].report.outcome /\ txn[x].report.outcome \in Outcomes
           /\ tasks'[i].attempt = tasks[i].attempt
           /\ phase \notin Executing
  <1> DEFINE i == txn[x].report.task
  <1>1. /\ i \in HandedOut /\ tasks[i].status = txn[x].row.status
        /\ tasks[i].attempt = txn[x].report.attempt
        /\ phase \notin Executing
    BY DEF CompleteCommit, CompletionIsOfLastClaim
  <1>2. i \in TaskIds
    BY <1>1 DEF HandedOut
  <1>3. PICK row \in TaskRow :
          /\ Writes(i, row) /\ row.attempt = tasks[i].attempt
          /\ row.status = Stored(txn[x].row.status, txn[x].report.outcome, tasks[i].status)
    BY CompleteRow
  <1>4. txn[x].report.outcome \in Outcomes
    BY KindsOfTxn DEF CompleteCommit, Inv, TypeOK, CentralTypeOK, CompleteTxn, Report
  <1>5. row.status = txn[x].report.outcome
    BY <1>1, <1>3, <1>4 DEF Stored, HandedOut, Outcomes
  <1>6. tasks'[i] = row /\ OnlyRow(i)
    BY <1>2, <1>3, WrittenRow
  <1> QED
    BY <1>1, <1>2, <1>3, <1>4, <1>5, <1>6

-----------------------------------------------------------------------------
(***************************************************************************)
(* Rows.  Only a claim hands a task out or makes a lease live, and only an *)
(* insertion makes a deletion active.                                      *)
(***************************************************************************)
IsHandedOut(row) == row.status \in {"downloading", "cancelling", "deleting"}
IsDeleting(row) == row.kind = "delete" /\ row.status \in {"queued", "deleting"}

RowStays(i) ==
  IsHandedOut(tasks'[i]) =>
    /\ IsHandedOut(tasks[i])
    /\ tasks'[i].attempt = tasks[i].attempt
    /\ tasks'[i].lease \in {tasks[i].lease, "expired"}
DeleteStays(i) ==
  IsDeleting(tasks'[i]) => IsDeleting(tasks[i]) /\ tasks'[i].target = tasks[i].target

RowsStay == \A i \in TaskIds : RowStays(i)
DeletesStay == \A i \in TaskIds : DeleteStays(i)

LEMMA SameRowsStay ==
  ASSUME tasks' = tasks
  PROVE  RowsStay /\ DeletesStay
  BY DEF RowsStay, DeletesStay, RowStays, DeleteStays

\* One row is written.
LEMMA OnlyRowStays ==
  ASSUME NEW i \in TaskIds, OnlyRow(i)
  PROVE  /\ RowStays(i) => RowsStay
         /\ DeleteStays(i) => DeletesStay
  BY DEF OnlyRow, RowsStay, DeletesStay, RowStays, DeleteStays

\* It is not handed out then and no deletion becomes active.
LEMMA SettledRowStays ==
  ASSUME NEW i \in TaskIds, OnlyRow(i), tasks'[i].status \in {"completed", "failed", "cancelled"}
  PROVE  RowsStay /\ DeletesStay
  BY OnlyRowStays DEF RowStays, DeleteStays, IsHandedOut, IsDeleting

\* Its lease or its counter is written.
LEMMA RunningRowStays ==
  ASSUME Inv, NEW i \in TaskIds, NEW row, Writes(i, row), row.attempt = tasks[i].attempt,
         row.status = tasks[i].status, row.lease \in {tasks[i].lease, "expired"}
  PROVE  RowsStay /\ DeletesStay
  <1>1. tasks'[i] = row /\ OnlyRow(i)
    BY WrittenRow
  <1> QED
    BY <1>1, OnlyRowStays DEF RowStays, DeleteStays, IsHandedOut, IsDeleting, Writes

LEMMA StepRows ==
  ASSUME Inv, MutationIsCurrent, CompletionIsOfLastClaim, [Next]_vars
  PROVE  RowsStay \/ \E x \in Txns, i \in TaskIds : ClaimCommit(x, i)
  <1> DEFINE Goal == RowsStay \/ \E x \in Txns, i \in TaskIds : ClaimCommit(x, i)
  <1>1. CASE QuietStep
    BY <1>1, QuietRows, SameRowsStay
  <1>2. CASE \E x \in Txns, i \in TaskIds : TaskCommit(x, i)
    BY <1>2, Inserted, OnlyRowStays DEF RowStays, IsHandedOut
  <1>3. CASE \E x \in Txns, i \in TaskIds : ClaimCommit(x, i)
    BY <1>3
  <1>4. CASE \E x \in Txns, i \in TaskIds : ClaimFails(x, i)
    BY <1>4, ClaimFailsRow, WrittenRow, SettledRowStays
  <1>5. CASE \E x \in Txns : CancelCommit(x)
    BY <1>5, Cancelled, OnlyRowStays DEF RowStays, IsHandedOut
  <1>6. CASE \E x \in Txns : RetryCommit(x)
    BY <1>6, Retried, OnlyRowStays DEF RowStays, IsHandedOut
  <1>7. CASE \E x \in Txns : CompleteCommit(x)
    BY <1>7, Completed, SettledRowStays DEF Outcomes
  <1>8. CASE \E i \in TaskIds : LeaseRunsOut(i)
    BY <1>8, LeaseRow, RunningRowStays DEF LeaseRunsOut
  <1>9. CASE /\ ReportsProgress
             /\ TakesProgress(cmd.task, cmd.attempt, progress) /\ Progress(cmd.task, progress)
    BY <1>9, FetchingTypes, ProgressRow, RunningRowStays DEF ReportsProgress
  <1> HIDE DEF Goal
  <1> QED
    BY <1>1, <1>2, <1>3, <1>4, <1>5, <1>6, <1>7, <1>8, <1>9, Steps DEF WritingStep, Goal

\* However many transactions overlap, a row that is written by an outcome, a
\* cancellation or a retry becomes no deletion under way.
LEMMA MutatedDeletesStay ==
  ASSUME Inv, NEW x \in Txns, CancelCommit(x) \/ RetryCommit(x)
  PROVE  DeletesStay
  <1>1. PICK row \in TaskRow : txn[x].task \in TaskIds /\ Writes(txn[x].task, row)
    BY CancelRow, RetryRow
  <1>2. tasks[txn[x].task].kind = "download"
    BY MutatedRow DEF CancelCommit, RetryCommit, SameTask
  <1>3. tasks'[txn[x].task] = row /\ OnlyRow(txn[x].task)
    BY <1>1, WrittenRow
  <1> QED
    BY <1>1, <1>2, <1>3, OnlyRowStays DEF DeleteStays, IsDeleting, Writes

LEMMA CompletedDeletesStay ==
  ASSUME Inv, NEW x \in Txns, CompleteCommit(x)
  PROVE  DeletesStay
  <1>1. PICK i \in TaskIds : \E row \in TaskRow :
          /\ Writes(i, row)
          /\ row.status = Stored(txn[x].row.status, txn[x].report.outcome, tasks[i].status)
    BY CompleteRow
  <1>2. PICK row \in TaskRow :
          /\ Writes(i, row)
          /\ row.status = Stored(txn[x].row.status, txn[x].report.outcome, tasks[i].status)
    BY <1>1
  <1>3. txn[x].report.outcome \in Outcomes
    BY KindsOfTxn DEF CompleteCommit, Inv, TypeOK, CentralTypeOK, CompleteTxn, Report
  <1>4. row.status \in {tasks[i].status, "completed", "failed", "cancelled"}
    BY <1>2, <1>3 DEF Stored, Outcomes
  <1>5. tasks'[i] = row /\ OnlyRow(i)
    BY <1>2, WrittenRow
  <1> QED
    BY <1>2, <1>4, <1>5, OnlyRowStays DEF DeleteStays, IsDeleting, Writes

LEMMA StepDeletes ==
  ASSUME Inv, [Next]_vars
  PROVE  DeletesStay \/ \E x \in Txns, i \in TaskIds : TaskCommit(x, i)
  <1> DEFINE Goal == DeletesStay \/ \E x \in Txns, i \in TaskIds : TaskCommit(x, i)
  <1>1. CASE QuietStep
    BY <1>1, QuietRows, SameRowsStay
  <1>2. CASE \E x \in Txns, i \in TaskIds : TaskCommit(x, i)
    BY <1>2
  <1>3. CASE \E x \in Txns, i \in TaskIds : ClaimCommit(x, i)
    <2>1. PICK x \in Txns, i \in TaskIds : ClaimCommit(x, i)
      BY <1>3
    <2>2. PICK row \in TaskRow : /\ Writes(i, row) /\ tasks[i] \in TaskRow
                                 /\ row.status = HandedOutStatus(tasks[i])
      BY <2>1, ClaimRow
    <2>3. tasks[i].status = "queued" \/ i \in HandedOut
      BY <2>1 DEF ClaimCommit, IsCandidate, Claimable
    <2>4. tasks'[i] = row /\ OnlyRow(i)
      BY <2>2, WrittenRow
    <2>5. DeleteStays(i)
      BY <2>2, <2>3, <2>4, FieldsOfRow DEF DeleteStays, IsDeleting, Writes, HandedOut,
                                           DeleteStatuses
    <2> QED
      BY <2>4, <2>5, OnlyRowStays
  <1>4. CASE \E x \in Txns, i \in TaskIds : ClaimFails(x, i)
    BY <1>4, ClaimFailsRow, WrittenRow, SettledRowStays
  <1>5. CASE \E x \in Txns : CancelCommit(x) \/ RetryCommit(x) \/ CompleteCommit(x)
    BY <1>5, MutatedDeletesStay, CompletedDeletesStay
  <1>6. CASE \E i \in TaskIds : LeaseRunsOut(i)
    BY <1>6, LeaseRow, RunningRowStays DEF LeaseRunsOut
  <1>7. CASE /\ ReportsProgress
             /\ TakesProgress(cmd.task, cmd.attempt, progress) /\ Progress(cmd.task, progress)
    BY <1>7, FetchingTypes, ProgressRow, RunningRowStays DEF ReportsProgress
  <1> HIDE DEF Goal
  <1> QED
    BY <1>1, <1>2, <1>3, <1>4, <1>5, <1>6, <1>7, Steps DEF WritingStep, Goal

-----------------------------------------------------------------------------
(* Transactions: a step leaves them alone, begins one or ends one. *)

RowIdles(i) ==
  /\ tasks'[i].status = tasks[i].status /\ tasks'[i].attempt = tasks[i].attempt
  /\ tasks'[i].kind = tasks[i].kind /\ tasks'[i].target = tasks[i].target
IdlingStep ==
  /\ \A u \in Txns : /\ txn'[u].kind = txn[u].kind
                     /\ txn[u].kind # "claim" => txn'[u] = txn[u]
  /\ \A i \in TaskIds : RowIdles(i)
  /\ phase' \in Executing => phase \in Executing

BeginningStep ==
  \/ /\ \/ \E x \in Txns, t \in Targets : DownloadLoad(x, t) \/ DeleteLoad(x, t) \/ DeployLoad(x, t)
        \/ \E x \in Txns, i \in TaskIds : CancelLoad(x, i) \/ RetryLoad(x, i)
        \/ \E x \in Txns : \E m \in reports : CompleteLoad(x, m)
     /\ UNCHANGED agentVars
  \/ \E x \in Txns : AgentClaims(x)

EndingStep == \E x \in Txns : End(x)

\* A lease that runs out and the progress of a download.
LEMMA RowIdlesWhenWritten ==
  ASSUME Inv, NEW i \in TaskIds, NEW row, Writes(i, row), row.attempt = tasks[i].attempt,
         row.status = tasks[i].status
  PROVE  \A j \in TaskIds : RowIdles(j)
  <1>1. tasks'[i] = row /\ OnlyRow(i)
    BY WrittenRow
  <1> QED
    BY <1>1 DEF OnlyRow, RowIdles, Writes

LEMMA StepTxns ==
  ASSUME Inv, [Next]_vars
  PROVE  IdlingStep \/ BeginningStep \/ EndingStep
  <1> DEFINE Goal == IdlingStep \/ BeginningStep \/ EndingStep
  <1>1. CASE /\ txn' = txn \/ txn' = Deafened
             /\ \A i \in TaskIds : RowIdles(i)
             /\ phase' \in Executing => phase \in Executing
    BY <1>1, DeafenedTxns DEF Inv, TypeOK, IdlingStep
  <1>2. tasks' = tasks => \A i \in TaskIds : RowIdles(i)
    BY DEF RowIdles
  <1>3. CASE BeginningStep \/ EndingStep
    BY <1>3
  <1> HIDE DEF Goal
  <1>4. CASE Administer
    <2>1. CASE \E t \in Targets : Undeploy(t)
      BY <1>1, <1>2, <1>4, <2>1 DEF Administer, Undeploy, agentVars
    <2> QED
      BY <1>3, <1>4, <2>1
         DEF Administer, TaskCommit, DeployCommit, CancelCommit, RetryCommit, RequestEnds,
             BeginningStep, EndingStep
  <1>5. CASE Claiming
    BY <1>3, <1>5
       DEF Claiming, ClaimAnswered, ClaimUnheard, ClaimEmpty, ClaimCommit, ClaimFails,
           ClaimFindsNothing, BeginningStep, EndingStep
  <1>6. CASE Reported
    <2>1. CASE \/ \E m \in reports : CompleteRefused(m)
               \/ \E t \in Targets : ScanApplied(t)
      BY <1>1, <1>2, <1>6, <2>1 DEF Reported, CompleteRefused, ScanApplied, agentVars
    <2> QED
      BY <1>3, <1>6, <2>1 DEF Reported, CompleteCommit, BeginningStep, EndingStep
  <1>7. CASE \E i \in TaskIds : LeaseRunsOut(i)
    <2>1. PICK i \in TaskIds : LeaseRunsOut(i)
      BY <1>7
    <2>2. PICK row \in TaskRow : /\ Writes(i, row) /\ row.attempt = tasks[i].attempt
                                 /\ row.status = tasks[i].status
      BY <2>1, LeaseRow DEF LeaseRunsOut
    <2>3. \A j \in TaskIds : RowIdles(j)
      BY <2>2, RowIdlesWhenWritten
    <2> QED
      BY <1>1, <2>1, <2>3 DEF LeaseRunsOut, LeaseExpires, agentVars
  <1>8. CASE ReportsProgress
    <2>1. CASE TakesProgress(cmd.task, cmd.attempt, progress) /\ Progress(cmd.task, progress)
      <3>1. PICK i \in TaskIds : i = cmd.task
        BY <1>8, FetchingTypes DEF ReportsProgress
      <3>2. PICK row \in TaskRow : /\ Writes(i, row) /\ row.attempt = tasks[i].attempt
                                   /\ row.status = tasks[i].status
        BY <1>8, <2>1, <3>1, FetchingTypes, ProgressRow DEF ReportsProgress
      <3>3. \A j \in TaskIds : RowIdles(j)
        BY <3>2, RowIdlesWhenWritten
      <3> QED
        BY <1>1, <1>8, <3>3 DEF ReportsProgress, Fetching, Progress, rowVars
    <2>2. CASE UNCHANGED <<tasks, txn>>
      BY <1>1, <1>2, <1>8, <2>2 DEF ReportsProgress, Fetching
    <2> QED
      BY <1>8, <2>1, <2>2 DEF ReportsProgress, rowVars
  <1>9. CASE \/ AgentPolls \/ ClaimTimesOut \/ ProgressLost \/ MessageLost
             \/ \E t \in Targets : AgentScans(t)
             \/ UNCHANGED vars
    BY <1>1, <1>2, <1>9
       DEF AgentPolls, HeartbeatAnswered, ClaimTimesOut, ClaimIsOver, ProgressLost, ProgressFailed,
           MessageLost, AgentScans, Scan, rowVars, agentVars, vars, Executing
  <1>10. CASE AgentDisturbed \/ AgentProceeds
    <2>1. tasks' = tasks /\ (txn' = txn \/ txn' = Deafened)
      BY <1>10 DEF AgentDisturbed, AgentProceeds, Execute, rowVars
    <2>2. phase' \in Executing => phase \in Executing
      BY <1>10, ExecuteCases
         DEF AgentDisturbed, AgentProceeds, Crash, Stop, Stopped, Restart, Executing
    <2> QED
      BY <1>1, <1>2, <2>1, <2>2
  <1> QED
    BY <1>4, <1>5, <1>6, <1>7, <1>8, <1>9, <1>10 DEF Next, Goal

\* When one request is served at a time, no transaction is open after the end
\* of one, and only the new one after its beginning.
LEMMA NoneIsOpen ==
  ASSUME OneAtATime, CentralTypeOK, EndingStep
  PROVE  \A u \in Txns : txn'[u] = NoTxn
  BY DEF OneAtATime, CentralTypeOK, EndingStep, End

LEMMA OneIsOpen ==
  ASSUME OneAtATime, CentralTypeOK, NEW x \in Txns, NEW s, Begin(x, s)
  PROVE  \A u \in Txns : txn'[u] = s
  BY DEF OneAtATime, CentralTypeOK, Begin

\* No task is handed out, and no lease is made live, but by a claim.
LEMMA FewerLeases ==
  ASSUME RowsStay
  PROVE  /\ \A i \in HandedOut' : i \in HandedOut /\ tasks'[i].attempt = tasks[i].attempt
                                  /\ tasks'[i].lease \in {tasks[i].lease, "expired"}
         /\ \A i \in LeasedTasks' : i \in LeasedTasks
  BY DEF RowsStay, RowStays, IsHandedOut, HandedOut, LeasedTasks

LEMMA ClaimLeases ==
  ASSUME Inv, ClaimSeesNoLease, NEW x \in Txns, NEW i \in TaskIds, ClaimCommit(x, i)
  PROVE  /\ LeasedTasks' = {i} /\ HandedOut' = HandedOut \cup {i}
         /\ tasks'[i].attempt = tasks[i].attempt + 1
         /\ \A j \in TaskIds : j # i => tasks'[j] = tasks[j]
         /\ LeasedTasks = {} /\ phase \notin Executing
  <1>1. LeasedTasks = {} /\ phase \notin Executing
    BY DEF ClaimSeesNoLease, ClaimCommit
  <1>2. PICK row \in TaskRow : /\ Writes(i, row) /\ row.attempt = tasks[i].attempt + 1
                               /\ row.lease = "live" /\ row.status = HandedOutStatus(tasks[i])
    BY ClaimRow
  <1>3. tasks'[i] = row /\ \A j \in TaskIds : j # i => tasks'[j] = tasks[j]
    BY <1>2, WrittenRow DEF OnlyRow
  <1>4. row.status \in {"downloading", "cancelling", "deleting"}
    BY <1>2 DEF HandedOutStatus
  <1>5. HandedOut' = HandedOut \cup {i}
    BY <1>3, <1>4 DEF HandedOut
  <1>6. LeasedTasks' = {i}
    <2>1. i \in LeasedTasks'
      BY <1>2, <1>3, <1>5 DEF LeasedTasks
    <2>2. ASSUME NEW j \in LeasedTasks', j # i PROVE FALSE
      <3>1. j \in HandedOut /\ j \in TaskIds /\ tasks'[j].lease = "live"
        BY <1>5, <2>2 DEF LeasedTasks, HandedOut
      <3> QED
        BY <1>1, <1>3, <2>2, <3>1 DEF LeasedTasks
    <2> QED
      BY <2>1, <2>2
  <1> QED
    BY <1>1, <1>2, <1>3, <1>5, <1>6

\* While a task is executed nothing is reported.
LEMMA NoNewReports ==
  ASSUME Inv, [Next]_vars, phase' \in Executing
  PROVE  reports' \subseteq reports
  BY NoOtherReports, ExecuteCases DEF ExecutingStep, GoesOn, Finish, Executing

-----------------------------------------------------------------------------
(* One lease. *)

\* What the completing transaction has read.
LEMMA CompletesLastClaim ==
  ASSUME Inv, SerialInv, OneAtATime, NEW x \in Txns, NEW m \in reports, CompleteLoad(x, m),
         UNCHANGED agentVars
  PROVE  CompletionIsOfLastClaim'
  <1> DEFINE s == [kind |-> "complete", report |-> m, row |-> tasks[m.task],
                   file |-> file[tasks[m.task].target]]
  <1>1. \A u \in Txns : txn'[u] = s
    BY OneIsOpen DEF CompleteLoad, Inv, TypeOK
  <1>2. m.task \in LeasedTasks /\ tasks[m.task].attempt = m.attempt /\ tasks' = tasks
    BY DEF CompleteLoad, LeaseHeldBy, LeasedTasks
  <1>3. phase \notin Executing
    BY <1>2 DEF SerialInv, ExecutingHoldsLease, OneReportPerClaim
  <1>4. m.task \in HandedOut' /\ phase' \notin Executing
    BY <1>2, <1>3 DEF LeasedTasks, HandedOut, agentVars
  <1> QED
    BY <1>1, <1>2, <1>4 DEF CompletionIsOfLastClaim

LEMMA SerialStep ==
  ASSUME Inv, SerialInv, OneAtATime, [Next]_vars
  PROVE  SerialInv'
  <1> USE DEF SerialInv
  <1>0. CentralTypeOK
    BY DEF Inv, TypeOK
  <1>1. IdlingStep \/ BeginningStep \/ EndingStep
    BY StepTxns
  <1>2. RowsStay \/ \E x \in Txns, i \in TaskIds : ClaimCommit(x, i)
    BY StepRows
  <1>3. OneTaskLeased' /\ HandedOutHasLease'
    <2>1. CASE RowsStay
      BY <2>1, FewerLeases DEF OneTaskLeased, HandedOutHasLease
    <2>2. CASE \E x \in Txns, i \in TaskIds : ClaimCommit(x, i)
      <3>1. PICK x \in Txns, i \in TaskIds : ClaimCommit(x, i)
        BY <2>2
      <3>2. OneTaskLeased'
        BY <3>1, ClaimLeases DEF OneTaskLeased
      <3>3. ASSUME NEW j \in HandedOut' PROVE tasks'[j].lease # "none"
        <4>1. CASE j = i
          BY <3>1, <4>1, ClaimLeases DEF LeasedTasks
        <4>2. CASE j # i
          BY <3>1, <3>3, <4>2, ClaimLeases DEF HandedOutHasLease, HandedOut
        <4> QED
          BY <4>1, <4>2
      <3> QED
        BY <3>2, <3>3 DEF HandedOutHasLease
    <2> QED
      BY <1>2, <2>1, <2>2
  <1>4. ClaimSeesNoLease'
    <2>1. CASE EndingStep
      BY <1>0, <2>1, NoneIsOpen DEF ClaimSeesNoLease, NoTxn
    <2>2. CASE IdlingStep
      <3> SUFFICES ASSUME NEW u \in Txns, txn'[u].kind = "claim"
                   PROVE  LeasedTasks' = {} /\ phase' \notin Executing
        BY DEF ClaimSeesNoLease
      <3>1. LeasedTasks = {} /\ phase' \notin Executing
        BY <2>2 DEF IdlingStep, ClaimSeesNoLease
      <3>2. ASSUME NEW x \in Txns, NEW i \in TaskIds, ClaimCommit(x, i) PROVE FALSE
        <4>1. txn'[x] = NoTxn /\ txn[x].kind = "claim"
          BY <1>0, <3>2 DEF ClaimCommit, End, CentralTypeOK
        <4> QED
          BY <2>2, <4>1 DEF IdlingStep, NoTxn
      <3> QED
        BY <1>2, <3>1, <3>2, FewerLeases
    <2>3. CASE BeginningStep
      <3>1. CASE \E x \in Txns : AgentClaims(x)
        <4>1. LeasedTasks = {} /\ tasks' = tasks /\ phase' = "claiming"
          BY <3>1 DEF AgentClaims, ClaimLoad, BeginClaim
        <4>2. LeasedTasks' = {}
          BY <4>1 DEF LeasedTasks, HandedOut
        <4> QED
          BY <4>1, <4>2 DEF ClaimSeesNoLease, Executing
      <3>2. CASE \E x \in Txns, t \in Targets :
                    DownloadLoad(x, t) \/ DeleteLoad(x, t) \/ DeployLoad(x, t)
        BY <1>0, <3>2, OneIsOpen DEF DownloadLoad, DeleteLoad, DeployLoad, ClaimSeesNoLease
      <3>3. CASE \E x \in Txns, i \in TaskIds : CancelLoad(x, i) \/ RetryLoad(x, i)
        BY <1>0, <3>3, OneIsOpen DEF CancelLoad, RetryLoad, ClaimSeesNoLease
      <3>4. CASE \E x \in Txns : \E m \in reports : CompleteLoad(x, m)
        BY <1>0, <3>4, OneIsOpen DEF CompleteLoad, ClaimSeesNoLease
      <3> QED
        BY <2>3, <3>1, <3>2, <3>3, <3>4 DEF BeginningStep
    <2> QED
      BY <1>1, <2>1, <2>2, <2>3
  <1>5. MutationIsCurrent'
    <2>1. CASE EndingStep
      BY <1>0, <2>1, NoneIsOpen DEF MutationIsCurrent, NoTxn
    <2>2. CASE IdlingStep
      <3> SUFFICES ASSUME NEW u \in Txns, txn'[u].kind \in {"cancel", "retry"}
                   PROVE  /\ tasks'[txn'[u].task].status = txn'[u].row.status
                          /\ txn'[u].kind = "cancel" =>
                               txn'[u].row.status \in {"queued", "downloading", "cancelling"}
                          /\ txn'[u].kind = "retry" =>
                               txn'[u].row.status \in {"failed", "cancelled"}
        BY DEF MutationIsCurrent
      <3>1. txn'[u] = txn[u]
        BY <2>2 DEF IdlingStep
      <3>2. txn[u].task \in TaskIds
        BY <3>1, MutatedRow
      <3> QED
        BY <2>2, <3>1, <3>2 DEF IdlingStep, RowIdles, MutationIsCurrent
    <2>3. CASE BeginningStep
      <3>1. CASE \E x \in Txns, i \in TaskIds : CancelLoad(x, i) \/ RetryLoad(x, i)
        <4>1. PICK x \in Txns, i \in TaskIds : CancelLoad(x, i) \/ RetryLoad(x, i)
          BY <3>1
        <4>2. CASE CancelLoad(x, i)
          <5>1. \A u \in Txns : txn'[u] = [kind |-> "cancel", task |-> i, row |-> tasks[i]]
            BY <1>0, <4>2, OneIsOpen DEF CancelLoad
          <5> QED
            BY <4>2, <5>1 DEF CancelLoad, MutationIsCurrent
        <4>3. CASE RetryLoad(x, i)
          <5>1. \A u \in Txns : txn'[u] = [kind |-> "retry", task |-> i, row |-> tasks[i]]
            BY <1>0, <4>3, OneIsOpen DEF RetryLoad
          <5> QED
            BY <4>3, <5>1 DEF RetryLoad, MutationIsCurrent
        <4> QED
          BY <4>1, <4>2, <4>3
      <3>2. CASE \E x \in Txns, t \in Targets :
                    DownloadLoad(x, t) \/ DeleteLoad(x, t) \/ DeployLoad(x, t)
        BY <1>0, <3>2, OneIsOpen DEF DownloadLoad, DeleteLoad, DeployLoad, MutationIsCurrent
      <3>3. CASE \E x \in Txns : AgentClaims(x)
        BY <1>0, <3>3, OneIsOpen DEF AgentClaims, ClaimLoad, MutationIsCurrent
      <3>4. CASE \E x \in Txns : \E m \in reports : CompleteLoad(x, m)
        BY <1>0, <3>4, OneIsOpen DEF CompleteLoad, MutationIsCurrent
      <3> QED
        BY <2>3, <3>1, <3>2, <3>3, <3>4 DEF BeginningStep
    <2> QED
      BY <1>1, <2>1, <2>2, <2>3
  <1>6. CompletionIsOfLastClaim'
    <2>1. CASE EndingStep
      BY <1>0, <2>1, NoneIsOpen DEF CompletionIsOfLastClaim, NoTxn
    <2>2. CASE IdlingStep
      <3> SUFFICES ASSUME NEW u \in Txns, txn'[u].kind = "complete"
                   PROVE  /\ txn'[u].report.task \in HandedOut'
                          /\ tasks'[txn'[u].report.task].status = txn'[u].row.status
                          /\ tasks'[txn'[u].report.task].attempt = txn'[u].report.attempt
                          /\ phase' \notin Executing
        BY DEF CompletionIsOfLastClaim
      <3>1. txn'[u] = txn[u]
        BY <2>2 DEF IdlingStep
      <3> DEFINE i == txn[u].report.task
      <3>2. /\ i \in HandedOut /\ tasks[i].status = txn[u].row.status
            /\ tasks[i].attempt = txn[u].report.attempt /\ phase \notin Executing
        BY <3>1 DEF CompletionIsOfLastClaim
      <3>3. i \in TaskIds
        BY <3>2 DEF HandedOut
      <3>4. tasks'[i].status = tasks[i].status /\ tasks'[i].attempt = tasks[i].attempt
        BY <2>2, <3>3 DEF IdlingStep, RowIdles
      <3>5. i \in HandedOut'
        BY <3>2, <3>4 DEF HandedOut
      <3> HIDE DEF i
      <3>6. phase' \notin Executing
        BY <2>2, <3>2 DEF IdlingStep
      <3> QED
        BY <3>1, <3>2, <3>4, <3>5, <3>6 DEF i
    <2>3. CASE BeginningStep
      <3>1. CASE \E x \in Txns : \E m \in reports : CompleteLoad(x, m) /\ UNCHANGED agentVars
        BY <3>1, CompletesLastClaim
      <3>2. CASE \E x \in Txns, t \in Targets :
                    DownloadLoad(x, t) \/ DeleteLoad(x, t) \/ DeployLoad(x, t)
        BY <1>0, <3>2, OneIsOpen DEF DownloadLoad, DeleteLoad, DeployLoad, CompletionIsOfLastClaim
      <3>3. CASE \E x \in Txns : AgentClaims(x)
        BY <1>0, <3>3, OneIsOpen DEF AgentClaims, ClaimLoad, CompletionIsOfLastClaim
      <3>4. CASE \E x \in Txns, i \in TaskIds : CancelLoad(x, i) \/ RetryLoad(x, i)
        BY <1>0, <3>4, OneIsOpen DEF CancelLoad, RetryLoad, CompletionIsOfLastClaim
      <3> QED
        BY <2>3, <3>1, <3>2, <3>3, <3>4 DEF BeginningStep
    <2> QED
      BY <1>1, <2>1, <2>2, <2>3
  <1>7. ExecutingHoldsLease' /\ OneReportPerClaim'
    <2> SUFFICES ASSUME phase' \in Executing
                 PROVE  /\ \A i \in LeasedTasks' : i = cmd'.task /\ tasks'[i].attempt = cmd'.attempt
                        /\ \A m \in reports' : m.task # cmd'.task \/ m.attempt # cmd'.attempt
      BY DEF ExecutingHoldsLease, OneReportPerClaim
    <2>1. reports' \subseteq reports
      BY NoNewReports
    <2>2. CASE CommandKept
      <3>1. phase \in Executing /\ cmd' = cmd
        BY <2>2 DEF CommandKept
      <3>2. RowsStay
        BY <1>2, <3>1, ClaimLeases
      <3>3. \A i \in LeasedTasks' : i \in LeasedTasks /\ tasks'[i].attempt = tasks[i].attempt
        BY <3>2, FewerLeases DEF LeasedTasks
      <3> QED
        BY <2>1, <3>1, <3>3 DEF ExecutingHoldsLease, OneReportPerClaim
    <2>3. CASE CommandHanded
      <3>1. PICK x \in Txns : \E i \in TaskIds : ClaimCommit(x, i) /\ cmd' = CommandFor(i)
        BY <2>3 DEF CommandHanded
      <3>2. PICK i \in TaskIds : ClaimCommit(x, i) /\ cmd' = CommandFor(i)
        BY <3>1
      <3>3. cmd'.task = i /\ cmd'.attempt = tasks[i].attempt + 1
        BY <3>2, CommandType
      <3>4. \A j \in LeasedTasks' : j = i /\ tasks'[j].attempt = tasks[i].attempt + 1
        BY <3>2, ClaimLeases
      <3>5. ASSUME NEW m \in reports', m.task = i PROVE m.attempt # tasks[i].attempt + 1
        <4>1. m \in Report /\ m.attempt \in Nat /\ m.attempt <= tasks[i].attempt
          BY <2>1, <3>5 DEF Inv, TypeOK, BaseTypeOK, ReportsFit, Fits, Report
        <4>2. tasks[i].attempt \in Nat
          BY <3>2, ClaimRow, FieldsOfRow
        <4> QED
          BY <4>1, <4>2
      <3> QED
        BY <3>3, <3>4, <3>5
    <2> QED
      BY <2>2, <2>3, StepCommand
  <1> QED
    BY <1>3, <1>4, <1>5, <1>6, <1>7

\* What is proved of one request at a time, together.
LEMMA SerialInvIsInvariant ==
  ASSUME OneAtATime
  PROVE  Spec => [](Inv /\ SerialInv)
  <1>1. Init => Inv /\ SerialInv
    BY InitInv, SerialInit
  <1>2. Inv /\ SerialInv /\ [Next]_vars => (Inv /\ SerialInv)'
    BY StepInv, SerialStep, OneAtATime
  <1> QED
    BY <1>1, <1>2, PTL DEF Spec

-----------------------------------------------------------------------------
(***************************************************************************)
(* Deployed models.  A deletion that was found possible is of a model that *)
(* is not deployed, and a deployment of one that is not being deleted,     *)
(* until the transaction commits: however many other requests overlap, as  *)
(* long as no creation and deletion of the same model do.                  *)
(***************************************************************************)
DeletesUndeployed ==
  \A x \in Txns : txn[x].kind = "delete" => ~deployed[txn[x].target]
DeploysUndeleted ==
  \A x \in Txns : txn[x].kind = "deploy" => ActiveDeletes(txn[x].target) = {}
DeployInv == DeployedIsNotDeleted /\ DeletesUndeployed /\ DeploysUndeleted

\* No creation of a deployment is open beside a deletion of its model.
DeploysApart ==
  \A x, y \in Txns :
    txn[x].kind = "deploy" /\ txn[y].kind = "delete" => txn[x].target # txn[y].target

LEMMA DeployInit == Init => DeployInv
  BY DEF Init, BaseInit, CentralInit, NoTxn, NoTask, DeployInv, DeployedIsNotDeleted,
     DeletesUndeployed, DeploysUndeleted, ActiveDeletes

\* What becomes of the marks of deployed models.
LEMMA StepDeployed ==
  ASSUME [Next]_vars
  PROVE  \/ deployed' = deployed
         \/ \E x \in Txns : DeployCommit(x)
         \/ \E t \in Targets : Undeploy(t)
  <1> DEFINE Goal == \/ deployed' = deployed
                     \/ \E x \in Txns : DeployCommit(x)
                     \/ \E t \in Targets : Undeploy(t)
  <1>1. CASE Administer
    BY <1>1 DEF Administer, DownloadLoad, DeleteLoad, DeployLoad, CancelLoad, RetryLoad, TaskCommit,
       CancelCommit, RetryCommit, RequestEnds
  <1>2. CASE Claiming
    BY <1>2 DEF Claiming, AgentClaims, ClaimLoad, ClaimAnswered, ClaimUnheard, ClaimEmpty,
       ClaimCommit, ClaimFindsNothing, ClaimFails
  <1>3. CASE Reported
    BY <1>3 DEF Reported, CompleteRefused, CompleteLoad, CompleteCommit, ScanApplied
  <1>4. CASE \/ AgentPolls \/ ClaimTimesOut \/ ReportsProgress \/ ProgressLost \/ MessageLost
             \/ AgentDisturbed \/ AgentProceeds \/ UNCHANGED vars
             \/ \E t \in Targets : AgentScans(t)
             \/ \E i \in TaskIds : LeaseRunsOut(i)
    BY <1>4 DEF AgentPolls, ClaimTimesOut, ReportsProgress, Progress, ProgressLost, MessageLost,
                rowVars,
       vars, AgentScans, Scan, LeaseRunsOut, LeaseExpires, AgentDisturbed, AgentProceeds, Execute
  <1> QED
    BY <1>1, <1>2, <1>3, <1>4 DEF Next

LEMMA FewerDeletes ==
  ASSUME DeletesStay, NEW t
  PROVE  \A i \in ActiveDeletes(t)' : i \in ActiveDeletes(t)
  BY DEF DeletesStay, DeleteStays, IsDeleting, ActiveDeletes

\* A step that does not insert the deletion of a target adds none to it.
LEMMA OtherDeletes ==
  ASSUME Inv, [Next]_vars, NEW t \in Targets, ActiveDeletes(t) = {},
         \A x \in Txns, i \in TaskIds :
           TaskCommit(x, i) /\ txn[x].kind = "delete" => txn[x].target # t
  PROVE  ActiveDeletes(t)' = {}
  <1>1. CASE DeletesStay
    BY <1>1, FewerDeletes
  <1>2. CASE \E x \in Txns, i \in TaskIds : TaskCommit(x, i)
    <2>1. PICK x \in Txns, i \in TaskIds : TaskCommit(x, i)
      BY <1>2
    <2>2. /\ OnlyRow(i)
          /\ tasks'[i].kind = txn[x].kind /\ tasks'[i].target = txn[x].target
      BY <2>1, Inserted
    <2> QED
      BY <2>1, <2>2 DEF ActiveDeletes, OnlyRow
  <1> QED
    BY <1>1, <1>2, StepDeletes

\* A step that does not commit a deployment of a target does not deploy it.
LEMMA OtherDeploys ==
  ASSUME Inv, [Next]_vars, NEW t \in Targets, ~deployed[t],
         \A x \in Txns : DeployCommit(x) => txn[x].target # t
  PROVE  ~deployed'[t]
  <1>1. deployed \in [Targets -> BOOLEAN]
    BY DEF Inv, TypeOK, BaseTypeOK
  <1>2. CASE \E x \in Txns : DeployCommit(x)
    BY <1>1, <1>2 DEF DeployCommit
  <1>3. CASE \E u \in Targets : Undeploy(u)
    BY <1>1, <1>3 DEF Undeploy
  <1> QED
    BY <1>2, <1>3, StepDeployed

\* Creations and deletions are begun by their loads, and stay as they are
\* until their own commit ends them.
LEMMA Creations ==
  ASSUME Inv, [Next]_vars, NEW u \in Txns, txn'[u].kind \in {"delete", "deploy"}
  PROVE  \/ txn'[u] = txn[u] /\ txn[u].target \in Targets /\ ~End(u)
         \/ \E t \in Targets : /\ DeleteLoad(u, t) \/ DeployLoad(u, t)
                               /\ txn'[u].target = t
                               /\ txn'[u].kind = "delete" => DeleteLoad(u, t)
                               /\ txn'[u].kind = "deploy" => DeployLoad(u, t)
  <1> DEFINE Loaded == \E t \in Targets : /\ DeleteLoad(u, t) \/ DeployLoad(u, t)
                                          /\ txn'[u].target = t
                                          /\ txn'[u].kind = "delete" => DeleteLoad(u, t)
                                          /\ txn'[u].kind = "deploy" => DeployLoad(u, t)
  <1>0. CentralTypeOK
    BY DEF Inv, TypeOK
  <1>1. ~End(u)
    BY <1>0 DEF End, CentralTypeOK, NoTxn
  <1>2. txn'[u] = txn[u] => txn[u].target \in Targets
    BY <1>0, KindsOfTxn DEF CentralTypeOK, CreateTxn
  <1>3. CASE IdlingStep
    BY <1>1, <1>2, <1>3 DEF IdlingStep
  <1>4. CASE EndingStep
    <2>1. PICK x \in Txns : End(x)
      BY <1>4 DEF EndingStep
    <2>2. txn'[u] = txn[u]
      BY <1>0, <1>1, <2>1 DEF End, CentralTypeOK
    <2> QED
      BY <1>1, <1>2, <2>2
  <1>5. ASSUME NEW x \in Txns, NEW s, Begin(x, s)
        PROVE  txn'[u] = txn[u] \/ (u = x /\ txn'[u] = s)
    BY <1>0, <1>5 DEF Begin, CentralTypeOK
  <1>6. CASE BeginningStep
    <2>1. CASE \E x \in Txns, t \in Targets : DeleteLoad(x, t)
      BY <1>1, <1>2, <1>5, <2>1 DEF DeleteLoad
    <2>2. CASE \E x \in Txns, t \in Targets : DeployLoad(x, t)
      BY <1>1, <1>2, <1>5, <2>2 DEF DeployLoad
    <2>3. CASE \E x \in Txns, t \in Targets : DownloadLoad(x, t)
      BY <1>1, <1>2, <1>5, <2>3 DEF DownloadLoad
    <2>4. CASE \E x \in Txns, i \in TaskIds : CancelLoad(x, i) \/ RetryLoad(x, i)
      BY <1>1, <1>2, <1>5, <2>4 DEF CancelLoad, RetryLoad
    <2>5. CASE \E x \in Txns : AgentClaims(x)
      BY <1>1, <1>2, <1>5, <2>5 DEF AgentClaims, ClaimLoad
    <2>6. CASE \E x \in Txns : \E m \in reports : CompleteLoad(x, m)
      BY <1>1, <1>2, <1>5, <2>6 DEF CompleteLoad
    <2> QED
      BY <1>6, <2>1, <2>2, <2>3, <2>4, <2>5, <2>6 DEF BeginningStep
  <1> QED
    BY <1>3, <1>4, <1>6, StepTxns

LEMMA DeployStep ==
  ASSUME Inv, DeployInv, DeploysApart, [Next]_vars
  PROVE  DeployInv'
  <1> USE DEF DeployInv
  <1>1. DeployedIsNotDeleted'
    <2> SUFFICES ASSUME NEW t \in Targets, deployed'[t]
                 PROVE  ActiveDeletes(t)' = {}
      BY DEF DeployedIsNotDeleted
    <2>1. CASE deployed[t]
      <3>1. \A x \in Txns, i \in TaskIds :
              TaskCommit(x, i) /\ txn[x].kind = "delete" => txn[x].target # t
        BY <2>1 DEF DeletesUndeployed
      <3> QED
        BY <2>1, <3>1, OtherDeletes DEF DeployedIsNotDeleted
    <2>2. CASE ~deployed[t]
      <3>1. PICK x \in Txns : DeployCommit(x) /\ txn[x].target = t
        BY <2>2, OtherDeploys
      <3>2. ActiveDeletes(t) = {}
        BY <3>1 DEF DeployCommit, DeploysUndeleted
      <3>3. tasks' = tasks
        BY <3>1 DEF DeployCommit
      <3> QED
        BY <3>2, <3>3 DEF ActiveDeletes
    <2> QED
      BY <2>1, <2>2
  <1>2. DeletesUndeployed'
    <2> SUFFICES ASSUME NEW u \in Txns, txn'[u].kind = "delete"
                 PROVE  ~deployed'[txn'[u].target]
      BY DEF DeletesUndeployed
    <2>1. CASE txn'[u] = txn[u] /\ txn[u].target \in Targets
      <3>1. \A x \in Txns : DeployCommit(x) => txn[x].target # txn[u].target
        BY <2>1 DEF DeployCommit, DeploysApart
      <3> QED
        BY <2>1, <3>1, OtherDeploys DEF DeletesUndeployed
    <2>2. CASE \E t \in Targets : DeleteLoad(u, t) /\ txn'[u].target = t
      BY <2>2 DEF DeleteLoad, MayDelete
    <2> QED
      BY <2>1, <2>2, Creations
  <1>3. DeploysUndeleted'
    <2>1. ASSUME NEW u \in Txns, txn'[u].kind = "deploy", NEW t \in Targets, txn'[u].target = t
          PROVE  ActiveDeletes(t)' = {}
      <3>1. CASE txn'[u] = txn[u]
        <4>1. ActiveDeletes(t) = {}
          BY <2>1, <3>1 DEF DeploysUndeleted
        <4>2. \A x \in Txns, i \in TaskIds :
                TaskCommit(x, i) /\ txn[x].kind = "delete" => txn[x].target # t
          BY <2>1, <3>1 DEF DeploysApart
        <4> QED
          BY <2>1, <4>1, <4>2, OtherDeletes
      <3>2. CASE DeployLoad(u, t)
        BY <3>2 DEF DeployLoad, ActiveDeletes
      <3> QED
        BY <2>1, <3>1, <3>2, Creations
    <2>2. ASSUME NEW u \in Txns, txn'[u].kind = "deploy"
          PROVE  txn'[u].target \in Targets
      BY <2>2, Creations
    <2> QED
      BY <2>1, <2>2 DEF DeploysUndeleted, ActiveDeletes
  <1> QED
    BY <1>1, <1>2, <1>3

\* A model comes to be deployed and deleted at once only when the creation of
\* a deployment and the deletion of its model overlap, each past its check and
\* before its commit: whatever else overlaps, is lost, late or retried, each
\* of them sees what the other committed before (create_delete_task,
\* create_deployment).
THEOREM DeployedStays == Spec => ([]DeploysApart => []DeployedIsNotDeleted)
  <1>1. Init => DeployInv
    BY DeployInit
  <1>2. Inv /\ DeployInv /\ DeploysApart /\ [Next]_vars => DeployInv'
    BY DeployStep
  <1>3. DeployInv => DeployedIsNotDeleted
    BY DEF DeployInv
  <1> QED
    BY <1>1, <1>2, <1>3, InvIsInvariant, PTL DEF Spec
-----------------------------------------------------------------------------
(***************************************************************************)
(* Completions.  What the Agent reports as done stays done for as long as  *)
(* the report counts: it executes nothing else meanwhile.                  *)
(***************************************************************************)
IsDone(i) ==
  IF tasks[i].kind = "download"
  THEN HasManifest(tasks[i].target)
  ELSE disk[tasks[i].target] = "none"

PublishedIsThere == phase = "published" => HasManifest(cmd.target)
ReportsAreTrue ==
  \A m \in reports : m.outcome = "completed" /\ LeaseHeldBy(m.task, m.attempt) => IsDone(m.task)
CompletionsAreTrue ==
  \A x \in Txns :
    txn[x].kind = "complete" /\ txn[x].report.outcome = "completed" => IsDone(txn[x].report.task)
TruthInv == PublishedIsThere /\ ReportsAreTrue /\ CompletionsAreTrue

LEMMA TruthInit == Init => TruthInv
  BY DEF Init, BaseInit, CentralInit, AgentInit, NoTxn, TruthInv, PublishedIsThere, ReportsAreTrue,
     CompletionsAreTrue

\* Only the execution of a task changes the disk.
LEMMA StepDisk ==
  ASSUME Inv, [Next]_vars
  PROVE  disk' = disk \/ (phase \in Executing /\ tasks' = tasks)
  <1> DEFINE Goal == disk' = disk \/ (phase \in Executing /\ tasks' = tasks)
  <1>1. CASE Administer
    BY <1>1 DEF Administer, DownloadLoad, DeleteLoad, DeployLoad, CancelLoad, RetryLoad, TaskCommit,
       DeployCommit, Undeploy, CancelCommit, RetryCommit, RequestEnds
  <1>2. CASE Claiming
    BY <1>2 DEF Claiming, AgentClaims, ClaimLoad, ClaimAnswered, ClaimUnheard, ClaimEmpty,
       ClaimCommit, ClaimFindsNothing, ClaimFails
  <1>3. CASE Reported
    BY <1>3 DEF Reported, CompleteRefused, CompleteLoad, CompleteCommit, ScanApplied
  <1>4. CASE \/ AgentPolls \/ ClaimTimesOut \/ ReportsProgress \/ ProgressLost \/ MessageLost
             \/ UNCHANGED vars
             \/ \E t \in Targets : AgentScans(t)
             \/ \E i \in TaskIds : LeaseRunsOut(i)
    BY <1>4 DEF AgentPolls, ClaimTimesOut, ReportsProgress, Progress, ProgressLost, MessageLost,
                rowVars,
       vars, AgentScans, Scan, LeaseRunsOut, LeaseExpires
  <1>5. CASE AgentDisturbed \/ AgentProceeds
    <2>1. tasks' = tasks
      BY <1>5 DEF AgentDisturbed, AgentProceeds, Execute, rowVars
    <2> QED
      BY <1>5, <2>1, ExecuteCases DEF AgentDisturbed, AgentProceeds, Crash, Executing
  <1> QED
    BY <1>1, <1>2, <1>3, <1>4, <1>5 DEF Next

\* How the Agent comes to take a download for published.
LEMMA StepPublished ==
  ASSUME Inv, [Next]_vars, phase' = "published"
  PROVE  /\ cmd' = cmd /\ phase \in Executing
         /\ \/ disk' = disk /\ (phase = "published" \/ HasManifest(cmd.target))
            \/ disk' = [disk EXCEPT ![cmd.target] = "published"]
  <1> DEFINE Goal == /\ cmd' = cmd /\ phase \in Executing
                     /\ \/ disk' = disk /\ (phase = "published" \/ HasManifest(cmd.target))
                        \/ disk' = [disk EXCEPT ![cmd.target] = "published"]
  <1>1. CASE UNCHANGED <<phase, cmd, disk>>
    BY <1>1 DEF Executing
  <1>2. CASE Execute
    <2>1. phase \in Executing
      BY <1>2, ExecuteCases
    <2> QED
      BY <1>2, <2>1
         DEF Execute, BeginDownload, Fetch, CancelNoticed, Publish, DownloadDone, Delete,
             TaskFails, Finish
  <1> HIDE DEF Goal
  <1>3. CASE phase' # "published"
    BY <1>3
  <1>4. CASE Administer
    BY <1>1, <1>4
       DEF Administer, DownloadLoad, DeleteLoad, DeployLoad, CancelLoad, RetryLoad, TaskCommit,
           DeployCommit, Undeploy, CancelCommit, RetryCommit, RequestEnds, agentVars
  <1>5. CASE Claiming
    BY <1>1, <1>3, <1>5
       DEF Claiming, AgentClaims, BeginClaim, ClaimAnswered, ReceiveCommand, ClaimUnheard,
           ClaimEmpty,
           ClaimIsOver, ClaimCommit, ClaimFindsNothing, ClaimFails, agentVars
  <1>6. CASE Reported
    BY <1>1, <1>6 DEF Reported, CompleteRefused, CompleteLoad, CompleteCommit, ScanApplied,
                      agentVars
  <1>7. CASE \/ ReportsProgress \/ ProgressLost \/ MessageLost \/ UNCHANGED vars
             \/ \E t \in Targets : AgentScans(t)
             \/ \E i \in TaskIds : LeaseRunsOut(i)
    BY <1>1, <1>7
       DEF ReportsProgress, Progress, ProgressTaken, ProgressFailed, ProgressLost, MessageLost,
           rowVars,
           vars, agentVars, AgentScans, Scan, LeaseRunsOut, LeaseExpires
  <1>8. CASE AgentPolls \/ ClaimTimesOut
    BY <1>3, <1>8 DEF AgentPolls, HeartbeatAnswered, ClaimTimesOut, ClaimIsOver
  <1>9. CASE AgentDisturbed \/ AgentProceeds
    BY <1>1, <1>2, <1>3, <1>9
       DEF AgentDisturbed, AgentProceeds, Crash, Stop, Stopped, Restart, DeleteBreaksOff, Finish
  <1> QED
    BY <1>4, <1>5, <1>6, <1>7, <1>8, <1>9 DEF Next, Goal

\* What is reported as completed.
LEMMA NewReport ==
  ASSUME Inv, [Next]_vars, NEW m \in reports', m \notin reports
  PROVE  /\ phase \in Executing /\ tasks' = tasks
         /\ m.task = cmd.task /\ m.attempt = cmd.attempt
         /\ m.outcome = "completed" =>
              \/ phase = "published" /\ disk' = disk
              \/ cmd.kind = "delete" /\ disk' = [disk EXCEPT ![cmd.target] = "none"]
  <1>1. ExecutingStep
    BY NoOtherReports
  <1>2. phase \in Executing
    BY <1>1, ExecuteCases DEF ExecutingStep
  <1>3. PICK outcome \in Outcomes : Finish(outcome)
    BY <1>1, ExecuteCases DEF ExecutingStep, GoesOn
  <1>4. m = [task |-> cmd.task, attempt |-> cmd.attempt, outcome |-> outcome, size |-> progress]
    BY <1>3 DEF Finish
  <1>5. \A o : Finish(o) => o = outcome
    BY <1>4 DEF Finish
  <1>6. outcome = "completed" => DownloadDone \/ Delete
    BY <1>1, <1>4, <1>5
       DEF ExecutingStep, Execute, BeginDownload, Fetch, CancelNoticed, Publish, TaskFails,
           DeleteBreaksOff
  <1> QED
    BY <1>1, <1>2, <1>4, <1>6 DEF ExecutingStep, DownloadDone, Delete

LEMMA TruthStep ==
  ASSUME Inv, SerialInv, TruthInv, OneAtATime, [Next]_vars
  PROVE  TruthInv'
  <1> USE DEF TruthInv, SerialInv
  <1>0. CentralTypeOK /\ disk \in [Targets -> DiskStatuses]
    BY DEF Inv, TypeOK, BaseTypeOK
  <1>1. \A i \in TaskIds : tasks[i].status # "unused" => RowKept(i)
    BY StepGrows DEF Grows
  <1>2. ASSUME phase \in Executing
        PROVE  /\ cmd.target \in Targets /\ cmd.task \in TaskIds
               /\ tasks[cmd.task].kind = cmd.kind /\ tasks[cmd.task].target = cmd.target
    BY <1>2 DEF Inv, CommandFits, SameTask, Command
  <1>3. PublishedIsThere'
    <2> SUFFICES ASSUME phase' = "published"
                 PROVE  disk'[cmd'.target] \in {"published", "hollow"}
      BY DEF PublishedIsThere, HasManifest
    <2> QED
      BY <1>0, <1>2, StepPublished DEF PublishedIsThere, HasManifest
  <1>4. ReportsAreTrue'
    <2> SUFFICES ASSUME NEW m \in reports', m.outcome = "completed",
                        m.task \in LeasedTasks', tasks'[m.task].attempt = m.attempt
                 PROVE  IsDone(m.task)'
      BY DEF ReportsAreTrue, LeaseHeldBy, LeasedTasks
    <2>1. CASE m \notin reports
      <3>1. /\ phase \in Executing /\ tasks' = tasks
            /\ m.task = cmd.task
            /\ \/ phase = "published" /\ disk' = disk
               \/ cmd.kind = "delete" /\ disk' = [disk EXCEPT ![cmd.target] = "none"]
        BY <2>1, NewReport
      <3>2. phase = "published" => cmd.kind = "download"
        BY DEF Inv, CommandFits, Executing
      <3> QED
        BY <1>0, <1>2, <3>1, <3>2 DEF IsDone, PublishedIsThere, HasManifest
    <2>2. CASE m \in reports
      <3>1. /\ m.task \in TaskIds /\ m.attempt \in Nat /\ tasks[m.task].status # "unused"
            /\ m.attempt <= tasks[m.task].attempt
        BY <2>2 DEF Inv, TypeOK, BaseTypeOK, ReportsFit, Fits, Report
      <3>2. RowsStay
        <4>1. ASSUME NEW x \in Txns, NEW i \in TaskIds, ClaimCommit(x, i) PROVE FALSE
          <5>1. m.task = i /\ m.attempt = tasks[i].attempt + 1
            BY <4>1, ClaimLeases
          <5>2. tasks[i].attempt \in Nat
            BY <4>1, ClaimRow, FieldsOfRow
          <5> QED
            BY <3>1, <5>1, <5>2
        <4> QED
          BY <4>1, StepRows
      <3>3. m.task \in LeasedTasks /\ tasks[m.task].attempt = m.attempt
        BY <3>2, FewerLeases DEF LeasedTasks
      <3>4. IsDone(m.task)
        BY <2>2, <3>3 DEF ReportsAreTrue, LeaseHeldBy, LeasedTasks
      <3>5. disk' = disk
        BY <2>2, <3>3, StepDisk DEF ExecutingHoldsLease, OneReportPerClaim
      <3> QED
        BY <1>1, <3>1, <3>4, <3>5 DEF IsDone, HasManifest, RowKept
    <2> QED
      BY <2>1, <2>2
  <1>5. CompletionsAreTrue'
    <2>1. IdlingStep \/ BeginningStep \/ EndingStep
      BY StepTxns
    <2>2. CASE EndingStep
      BY <1>0, <2>2, NoneIsOpen DEF CompletionsAreTrue, NoTxn
    <2>3. CASE IdlingStep
      <3> SUFFICES ASSUME NEW u \in Txns, txn'[u].kind = "complete",
                          txn'[u].report.outcome = "completed"
                   PROVE  IF tasks'[txn'[u].report.task].kind = "download"
                          THEN disk'[tasks'[txn'[u].report.task].target] \in {"published", "hollow"}
                          ELSE disk'[tasks'[txn'[u].report.task].target] = "none"
        BY DEF CompletionsAreTrue, IsDone, HasManifest
      <3>1. txn'[u] = txn[u]
        BY <2>3 DEF IdlingStep
      <3> DEFINE i == txn[u].report.task
      <3>2. i \in HandedOut /\ phase \notin Executing /\ IsDone(i)
        BY <3>1 DEF CompletionIsOfLastClaim, CompletionsAreTrue
      <3>3. disk' = disk /\ i \in TaskIds /\ tasks[i].status # "unused"
        BY <3>2, StepDisk DEF HandedOut
      <3>4. tasks'[i].kind = tasks[i].kind /\ tasks'[i].target = tasks[i].target
        BY <1>1, <3>3 DEF RowKept
      <3> QED
        BY <3>1, <3>2, <3>3, <3>4 DEF IsDone, HasManifest
    <2>4. CASE BeginningStep
      <3>1. CASE \E x \in Txns : \E m \in reports : CompleteLoad(x, m)
        <4>1. PICK x \in Txns : \E m \in reports : CompleteLoad(x, m)
          BY <3>1
        <4>2. PICK m \in reports : CompleteLoad(x, m)
          BY <4>1
        <4>3. \A u \in Txns : txn'[u].report = m
          BY <1>0, <4>2, OneIsOpen DEF CompleteLoad
        <4>4. m.outcome = "completed" => IsDone(m.task)
          BY <4>2 DEF CompleteLoad, ReportsAreTrue
        <4>5. tasks' = tasks /\ disk' = disk
          BY <4>2 DEF CompleteLoad
        <4> QED
          BY <4>3, <4>4, <4>5 DEF CompletionsAreTrue, IsDone, HasManifest
      <3>2. CASE \E x \in Txns, t \in Targets :
                    DownloadLoad(x, t) \/ DeleteLoad(x, t) \/ DeployLoad(x, t)
        BY <1>0, <3>2, OneIsOpen DEF DownloadLoad, DeleteLoad, DeployLoad, CompletionsAreTrue
      <3>3. CASE \E x \in Txns : AgentClaims(x)
        BY <1>0, <3>3, OneIsOpen DEF AgentClaims, ClaimLoad, CompletionsAreTrue
      <3>4. CASE \E x \in Txns, i \in TaskIds : CancelLoad(x, i) \/ RetryLoad(x, i)
        BY <1>0, <3>4, OneIsOpen DEF CancelLoad, RetryLoad, CompletionsAreTrue
      <3> QED
        BY <2>4, <3>1, <3>2, <3>3, <3>4 DEF BeginningStep
    <2> QED
      BY <2>1, <2>2, <2>3, <2>4
  <1> QED
    BY <1>3, <1>4, <1>5

\* Only an outcome that is reported completes a task.
LEMMA OnlyReportsComplete ==
  ASSUME Inv, SerialInv, [Next]_vars, NEW i \in TaskIds,
         tasks[i].status # "completed", tasks'[i].status = "completed"
  PROVE  \E x \in Txns : /\ CompleteCommit(x) /\ txn[x].report.task = i
                         /\ txn[x].report.outcome = "completed"
  <1> USE DEF SerialInv
  <1> DEFINE Goal == \E x \in Txns : /\ CompleteCommit(x) /\ txn[x].report.task = i
                                     /\ txn[x].report.outcome = "completed"
  <1>1. CASE QuietStep
    BY <1>1, QuietRows
  <1>2. CASE \E x \in Txns, j \in TaskIds : TaskCommit(x, j)
    BY <1>2, Inserted DEF OnlyRow
  <1>3. CASE \E x \in Txns, j \in TaskIds : ClaimCommit(x, j)
    <2>1. PICK x \in Txns, j \in TaskIds : ClaimCommit(x, j)
      BY <1>3
    <2> QED
      BY <2>1, ClaimRow, WrittenRow DEF OnlyRow, HandedOutStatus
  <1>4. CASE \E x \in Txns, j \in TaskIds : ClaimFails(x, j)
    BY <1>4, ClaimFailsRow, WrittenRow DEF OnlyRow
  <1>5. CASE \E x \in Txns : CancelCommit(x)
    BY <1>5, Cancelled DEF OnlyRow
  <1>6. CASE \E x \in Txns : RetryCommit(x)
    BY <1>6, Retried DEF OnlyRow
  <1>7. CASE \E x \in Txns : CompleteCommit(x)
    BY <1>7, Completed DEF OnlyRow
  <1>8. CASE \E j \in TaskIds : LeaseRunsOut(j)
    BY <1>8, LeaseRow, WrittenRow DEF OnlyRow, LeaseRunsOut
  <1>9. CASE /\ ReportsProgress
             /\ TakesProgress(cmd.task, cmd.attempt, progress) /\ Progress(cmd.task, progress)
    BY <1>9, FetchingTypes, ProgressRow, WrittenRow DEF OnlyRow, ReportsProgress
  <1> HIDE DEF Goal
  <1> QED
    BY <1>1, <1>2, <1>3, <1>4, <1>5, <1>6, <1>7, <1>8, <1>9, Steps DEF WritingStep, Goal

\* When Central serves one request at a time, a task is completed only while
\* it is true: the manifest of a download is in place, and nothing is left of
\* what a deletion was to remove (complete_download_task,
\* complete_delete_task, execute_download, execute_delete).
THEOREM CompletionHolds ==
  ASSUME OneAtATime
  PROVE  Spec => CompletionIsTrue
  <1>1. Init => TruthInv
    BY TruthInit
  <1>2. Inv /\ SerialInv /\ TruthInv /\ [Next]_vars => TruthInv'
    BY TruthStep, OneAtATime
  <1> DEFINE CompletesTruly ==
        \A i \in TaskIds :
          tasks[i].status # "completed" /\ tasks'[i].status = "completed" =>
            IF tasks[i].kind = "download"
            THEN HasManifest(tasks[i].target)
            ELSE disk[tasks[i].target] = "none"
  <1>3. Inv /\ SerialInv /\ TruthInv /\ [Next]_vars => [CompletesTruly]_vars
    <2> SUFFICES ASSUME Inv, SerialInv, TruthInv, [Next]_vars, NEW i \in TaskIds,
                        tasks[i].status # "completed", tasks'[i].status = "completed"
                 PROVE  IsDone(i)
      BY DEF IsDone
    <2>1. PICK x \in Txns : /\ CompleteCommit(x) /\ txn[x].report.task = i
                            /\ txn[x].report.outcome = "completed"
      BY OnlyReportsComplete
    <2>2. txn[x].kind = "complete"
      BY <2>1 DEF CompleteCommit
    <2> QED
      BY <2>1, <2>2 DEF TruthInv, CompletionsAreTrue
  <1> QED
    BY <1>1, <1>2, <1>3, SerialInvIsInvariant, OneAtATime, PTL DEF Spec, CompletionIsTrue
-----------------------------------------------------------------------------
(***************************************************************************)
(* Tasks are leased work, when one request is served at a time: every step *)
(* is a step of LeasedWork, or changes nothing of it.                      *)
(***************************************************************************)
RefInv == Inv /\ SerialInv

\* A row whose status, claim and lease stay is the same work.
LEMMA SameWork ==
  ASSUME NEW i \in TaskIds, tasks'[i].status = tasks[i].status,
         tasks'[i].attempt = tasks[i].attempt, tasks'[i].lease = tasks[i].lease
  PROVE  WorkOf(i)' = WorkOf(i)
  BY DEF WorkOf, HandedOut, LeasedTasks

\* One task changes its place in the abstract work.
LEMMA WorkGoes ==
  ASSUME NEW i \in TaskIds, NEW state, NEW claim, OnlyRow(i),
         WorkOf(i)' = [state |-> state, claim |-> claim]
  PROVE  Work!Goes(i, state, claim)
  <1>1. \A j \in TaskIds : WorkOf(j)' = IF j = i THEN [state |-> state, claim |-> claim]
                                                 ELSE WorkOf(j)
    BY SameWork DEF OnlyRow
  <1> QED
    BY <1>1 DEF Work!Goes, Work!Item

\* Nothing happens but that answers are lost.
LEMMA AnswersLost ==
  ASSUME \A i \in TaskIds : WorkOf(i)' = WorkOf(i),
         WorkHeld' = WorkHeld, WorkAnswers' \subseteq WorkAnswers
  PROVE  Work!Next
  BY DEF Work!Next, Work!LoseAnswers

LEMMA RowsAsTheyAre ==
  ASSUME tasks' = tasks
  PROVE  \A i \in TaskIds : WorkOf(i)' = WorkOf(i)
  BY SameWork

\* Answers: a transaction that completes nothing makes none, and one that
\* completes takes it from a report.
LEMMA EndsNothing ==
  ASSUME CentralTypeOK, NEW x \in Txns, End(x), reports' \subseteq reports
  PROVE  /\ WorkAnswers' \subseteq WorkAnswers
         /\ txn[x].kind # "complete" /\ reports' = reports => WorkAnswers' = WorkAnswers
  <1>1. \A u \in Txns : txn'[u] = IF u = x THEN NoTxn ELSE txn[u]
    BY DEF CentralTypeOK, End
  <1>2. WorkAnswers' \subseteq WorkAnswers
    <2> SUFFICES ASSUME NEW u \in Txns, txn'[u].kind = "complete"
                 PROVE  ClaimOf(txn'[u].report) \in WorkAnswers
      BY DEF WorkAnswers, ClaimOf
    <2> QED
      BY <1>1 DEF NoTxn, WorkAnswers
  <1>3. ASSUME txn[x].kind # "complete", reports' = reports
        PROVE  WorkAnswers \subseteq WorkAnswers'
    <2> SUFFICES ASSUME NEW u \in Txns, txn[u].kind = "complete"
                 PROVE  txn'[u] = txn[u]
      BY <1>3 DEF WorkAnswers, ClaimOf
    <2> QED
      BY <1>1, <1>3
  <1> QED
    BY <1>2, <1>3

LEMMA StepAnswers ==
  ASSUME Inv, [Next]_vars, ~ExecutingStep
  PROVE  WorkAnswers' \subseteq WorkAnswers
  <1>0. reports' \subseteq reports /\ CentralTypeOK
    BY NoOtherReports DEF Inv, TypeOK
  <1>1. CASE EndingStep
    BY <1>0, <1>1, EndsNothing DEF EndingStep
  <1>2. CASE \A u \in Txns : txn'[u].kind = "complete" =>
               txn'[u] = txn[u] \/ \E m \in reports : txn'[u].report = m
    <2> SUFFICES ASSUME NEW u \in Txns, txn'[u].kind = "complete"
                 PROVE  ClaimOf(txn'[u].report) \in WorkAnswers
      BY <1>0 DEF WorkAnswers, ClaimOf
    <2> QED
      BY <1>2 DEF WorkAnswers
  <1>3. CASE IdlingStep
    BY <1>2, <1>3 DEF IdlingStep
  <1>4. CASE BeginningStep
    <2>1. CASE \E x \in Txns, t \in Targets :
                  DownloadLoad(x, t) \/ DeleteLoad(x, t) \/ DeployLoad(x, t)
      BY <1>0, <1>2, <2>1 DEF DownloadLoad, DeleteLoad, DeployLoad, Begin, CentralTypeOK
    <2>2. CASE \E x \in Txns, i \in TaskIds : CancelLoad(x, i) \/ RetryLoad(x, i)
      BY <1>0, <1>2, <2>2 DEF CancelLoad, RetryLoad, Begin, CentralTypeOK
    <2>3. CASE \E x \in Txns : AgentClaims(x)
      BY <1>0, <1>2, <2>3 DEF AgentClaims, ClaimLoad, Begin, CentralTypeOK
    <2>4. CASE \E x \in Txns : \E m \in reports : CompleteLoad(x, m)
      BY <1>0, <1>2, <2>4 DEF CompleteLoad, Begin, CentralTypeOK
    <2> QED
      BY <1>4, <2>1, <2>2, <2>3, <2>4 DEF BeginningStep
  <1> QED
    BY <1>1, <1>3, <1>4, StepTxns

\* What the worker holds.
LEMMA HeldIsACommand ==
  ASSUME Inv, phase \in Executing
  PROVE  WorkHeld = ClaimOf(cmd) /\ WorkHeld # Work!NoClaim
  BY DEF Inv, CommandFits, Command, TaskIds, WorkHeld, ClaimOf, Work!NoClaim

DyingStep == Crash /\ txn' = Deafened /\ UNCHANGED <<tasks, reports>>

\* The Agent comes by a command by a claim, and loses it by reporting on it or
\* by dying.
LEMMA StepHeld ==
  ASSUME Inv, [Next]_vars
  PROVE  ExecutingStep \/ DyingStep \/ CommandHanded \/ WorkHeld' = WorkHeld
  <1> DEFINE Goal == ExecutingStep \/ DyingStep \/ CommandHanded \/ WorkHeld' = WorkHeld
  <1>1. CASE phase' \in Executing
    <2>1. CASE CommandKept
      BY <1>1, <2>1 DEF CommandKept, WorkHeld, ClaimOf
    <2> QED
      BY <1>1, <2>1, StepCommand
  <1>2. CASE phase' \notin Executing /\ phase \notin Executing
    BY <1>2 DEF WorkHeld
  <1> HIDE DEF Goal
  <1>3. CASE phase' = phase \/ phase \notin Executing
    BY <1>1, <1>2, <1>3
  <1>4. CASE Administer \/ Reported
    BY <1>3, <1>4 DEF Administer, Reported, agentVars
  <1>5. CASE Claiming
    BY <1>1, <1>3, <1>5
       DEF Claiming, AgentClaims, BeginClaim, ClaimAnswered, ReceiveCommand, ClaimUnheard,
           ClaimEmpty,
           ClaimIsOver, agentVars, Executing
  <1>6. CASE \/ AgentPolls \/ ClaimTimesOut \/ ReportsProgress \/ ProgressLost \/ MessageLost
             \/ UNCHANGED vars
             \/ \E t \in Targets : AgentScans(t)
             \/ \E i \in TaskIds : LeaseRunsOut(i)
    BY <1>3, <1>6
       DEF AgentPolls, HeartbeatAnswered, ClaimTimesOut, ClaimIsOver, ReportsProgress,
           ProgressTaken,
           ProgressFailed, ProgressLost, MessageLost, vars, agentVars, AgentScans, Scan,
           LeaseRunsOut,
           Executing
  <1>7. CASE AgentDisturbed
    <2>1. ExecutingStep \/ DyingStep \/ phase' = phase
      BY <1>7 DEF AgentDisturbed, Stop, rowVars, ExecutingStep, DyingStep
    <2> QED
      BY <1>3, <2>1 DEF Goal
  <1>8. CASE AgentProceeds
    <2>1. ExecutingStep \/ phase \notin Executing
      BY <1>8 DEF AgentProceeds, Execute, Stopped, Restart, Executing, ExecutingStep
    <2> QED
      BY <1>3, <2>1 DEF Goal
  <1> QED
    BY <1>4, <1>5, <1>6, <1>7, <1>8 DEF Next, Goal

\* The Agent executes.
LEMMA ExecutionRefines ==
  ASSUME Inv, ExecutingStep
  PROVE  Work!Next
  <1>1. phase \in Executing /\ tasks' = tasks /\ txn' = txn
    BY ExecuteCases DEF ExecutingStep
  <1>2. \A i \in TaskIds : WorkOf(i)' = WorkOf(i)
    BY <1>1, RowsAsTheyAre
  <1>3. CASE GoesOn
    <2>1. WorkHeld' = WorkHeld /\ WorkAnswers' = WorkAnswers
      BY <1>1, <1>3 DEF GoesOn, WorkHeld, WorkAnswers, ClaimOf, Executing
    <2> QED
      BY <1>2, <2>1, AnswersLost
  <1>4. CASE \E outcome \in Outcomes : Finish(outcome)
    <2>1. PICK m : /\ reports' = reports \cup {m} /\ ClaimOf(m) = ClaimOf(cmd)
                   /\ phase' = "idle"
      BY <1>4 DEF Finish, ClaimOf
    <2>2. WorkAnswers' = WorkAnswers \cup {ClaimOf(m)}
      BY <1>1, <2>1 DEF WorkAnswers, ClaimOf
    <2>3. WorkHeld' = Work!NoClaim
      BY <2>1 DEF WorkHeld, Executing, Work!NoClaim
    <2> QED
      BY <1>1, <1>2, <2>1, <2>2, <2>3, HeldIsACommand DEF Work!Next, Work!WorkOff
  <1> QED
    BY <1>3, <1>4, ExecuteCases DEF ExecutingStep

\* It dies.
LEMMA DeathRefines ==
  ASSUME Inv, DyingStep
  PROVE  Work!Next
  <1>1. \A i \in TaskIds : WorkOf(i)' = WorkOf(i)
    BY RowsAsTheyAre DEF DyingStep
  <1>2. /\ \A u \in Txns : /\ txn'[u].kind = txn[u].kind
                           /\ txn[u].kind # "claim" => txn'[u] = txn[u]
        /\ reports' = reports
    BY DeafenedTxns DEF DyingStep, Inv, TypeOK
  <1>3. WorkAnswers' = WorkAnswers
    <2>1. {x \in Txns : txn'[x].kind = "complete"} = {x \in Txns : txn[x].kind = "complete"}
      BY <1>2
    <2>2. \A x \in Txns : txn[x].kind = "complete" => txn'[x] = txn[x]
      BY <1>2
    <2> QED
      BY <1>2, <2>1, <2>2 DEF WorkAnswers, ClaimOf
  <1>4. WorkHeld' = Work!NoClaim
    BY DEF DyingStep, Crash, WorkHeld, Executing, Work!NoClaim
  <1>5. CASE phase \in Executing
    BY <1>1, <1>3, <1>4, <1>5, HeldIsACommand DEF Work!Next, Work!Die
  <1>6. CASE phase \notin Executing
    BY <1>1, <1>3, <1>4, <1>6, AnswersLost DEF WorkHeld, Work!NoClaim
  <1> QED
    BY <1>5, <1>6

\* A task is handed out: to the Agent, or to nobody.
LEMMA ClaimRefines ==
  ASSUME RefInv, NEW x \in Txns, NEW i \in TaskIds, ClaimCommit(x, i),
         WorkHeld' = WorkHeld \/ CommandHanded
  PROVE  Work!Next
  <1> USE DEF RefInv, SerialInv
  <1>1. /\ LeasedTasks = {} /\ LeasedTasks' = {i} /\ i \in HandedOut'
        /\ tasks'[i].attempt = tasks[i].attempt + 1 /\ OnlyRow(i)
    BY ClaimLeases DEF OnlyRow
  <1>2. Work!In({"leased"}) = {}
    <2>1. \A j \in TaskIds : WorkOf(j).state # "leased"
      BY <1>1 DEF WorkOf, HandedOut, Inv, TypeOK, BaseTypeOK, TaskRow, TaskRows, NoTask,
         DownloadStatuses, DeleteStatuses
    <2> QED
      BY <2>1 DEF Work!In
  <1>3. \A j \in TaskIds : j \in Work!In({"queued", "lapsed"}) <=> Claimable(j)
    <2> SUFFICES ASSUME NEW j \in TaskIds
                 PROVE  WorkOf(j).state \in {"queued", "lapsed"} <=> Claimable(j)
      BY DEF Work!In
    <2>1. CASE j \in HandedOut
      <3>1. tasks[j].lease \in Leases
        BY <2>1, UsedRow, FieldsOfRow DEF Inv, TypeOK, HandedOut
      <3>2. tasks[j].lease = "expired"
        BY <1>1, <2>1, <3>1 DEF HandedOutHasLease, LeasedTasks, Leases
      <3> QED
        BY <1>1, <2>1, <3>2 DEF WorkOf, Claimable
    <2>2. CASE j \notin HandedOut
      <3>1. tasks[j].status # "lapsed"
        BY DEF Inv, TypeOK, BaseTypeOK, TaskRow, TaskRows, NoTask, DownloadStatuses, DeleteStatuses
      <3> QED
        BY <2>2, <3>1 DEF WorkOf, Claimable
    <2> QED
      BY <2>1, <2>2
  <1>4. WorkOf(i)' = [state |-> "leased", claim |-> WorkOf(i).claim + 1]
    BY <1>1 DEF WorkOf
  <1>5. Work!Goes(i, "leased", WorkOf(i).claim + 1)
    BY <1>1, <1>4, WorkGoes
  <1>6. \/ WorkHeld' = WorkHeld
        \/ /\ WorkHeld = Work!NoClaim
           /\ WorkHeld' = [item |-> i, claim |-> WorkOf(i).claim + 1]
    <2>1. CASE CommandHanded
      <3>1. PICK y \in Txns : \E j \in TaskIds : ClaimCommit(y, j) /\ cmd' = CommandFor(j)
        BY <2>1 DEF CommandHanded
      <3>2. PICK j \in TaskIds : ClaimCommit(y, j) /\ cmd' = CommandFor(j)
        BY <3>1
      <3>3. j = i
        BY <1>1, <3>2, ClaimLeases
      <3>4. cmd'.task = i /\ cmd'.attempt = tasks[i].attempt + 1
        BY <3>2, <3>3, CommandType
      <3> QED
        BY <2>1, <3>4 DEF CommandHanded, WorkHeld, Executing, ClaimOf, WorkOf, Work!NoClaim
    <2> QED
      BY <2>1
  <1>7. WorkAnswers' = WorkAnswers
    BY EndsNothing DEF ClaimCommit, Inv, TypeOK
  <1>8. Claimable(i) /\ \A j \in TaskIds : Claimable(j) => i <= j
    BY DEF ClaimCommit, IsCandidate
  <1>9. /\ i \in Work!In({"queued", "lapsed"})
        /\ \A j \in Work!In({"queued", "lapsed"}) : i <= j
    BY <1>3, <1>8 DEF Work!In
  <1>10. [j \in TaskIds |-> WorkOf(j)][i] = WorkOf(i)
    OBVIOUS
  <1>11. Work!Claim(i)
    BY <1>2, <1>5, <1>6, <1>7, <1>9, <1>10 DEF Work!Claim
  <1> QED
    BY <1>11 DEF Work!Next

\* A task is submitted, cancelled, submitted again, given up or settled.
LEMMA CommitRefines ==
  ASSUME RefInv, NEW x \in Txns, WorkHeld' = WorkHeld,
         \/ \E i \in TaskIds : TaskCommit(x, i) \/ ClaimFails(x, i)
         \/ CancelCommit(x) \/ RetryCommit(x) \/ CompleteCommit(x)
  PROVE  Work!Next
  <1> USE DEF RefInv, SerialInv
  <1>0. CentralTypeOK /\ End(x) /\ reports' = reports
    BY DEF Inv, TypeOK, TaskCommit, ClaimFails, CancelCommit, RetryCommit, CompleteCommit
  <1>1. txn[x].kind # "complete" => WorkAnswers' = WorkAnswers
    BY <1>0, EndsNothing
  <1>2. CASE \E i \in TaskIds : TaskCommit(x, i)
    <2>1. PICK i \in TaskIds : TaskCommit(x, i)
      BY <1>2
    <2>2. OnlyRow(i) /\ tasks'[i].status = "queued" /\ tasks'[i].attempt = 0
      BY <2>1, Inserted
    <2>3. WorkOf(i)' = [state |-> "queued", claim |-> 0]
      BY <2>2 DEF WorkOf, HandedOut
    <2>4. Work!Goes(i, "queued", 0)
      BY <2>2, <2>3, WorkGoes
    <2>5. \A j \in TaskIds : j \in Work!In({"unused"}) <=> tasks[j].status = "unused"
      BY DEF Work!In, WorkOf, HandedOut
    <2>6. IsNextTask(i) /\ txn[x].kind # "complete"
      BY <2>1 DEF TaskCommit
    <2>7. Work!Submit(i)
      BY <1>1, <2>4, <2>5, <2>6 DEF Work!Submit, IsNextTask
    <2> QED
      BY <2>7 DEF Work!Next
  <1>3. CASE \E i \in TaskIds : ClaimFails(x, i)
    <2>1. PICK i \in TaskIds : ClaimFails(x, i)
      BY <1>3
    <2>2. /\ OnlyRow(i) /\ tasks'[i].status = "failed" /\ tasks'[i].attempt = tasks[i].attempt
      BY <2>1, ClaimFailsRow, WrittenRow
    <2>3. WorkOf(i)' = [state |-> "settled", claim |-> WorkOf(i).claim]
      BY <2>2 DEF WorkOf, HandedOut
    <2>4. Work!Goes(i, "settled", WorkOf(i).claim)
      BY <2>2, <2>3, WorkGoes
    <2>5. i \in Work!In({"queued", "lapsed"})
      BY <2>1 DEF ClaimFails, IsCandidate, Claimable, Work!In, WorkOf, HandedOut, LeasedTasks
    <2>6. Work!Withdraw(i)
      BY <1>1, <2>1, <2>4, <2>5 DEF Work!Withdraw, ClaimFails
    <2> QED
      BY <2>6 DEF Work!Next
  <1>4. CASE CancelCommit(x)
    <2>1. PICK i \in TaskIds :
            /\ OnlyRow(i)
            /\ tasks[i].status \in {"queued", "downloading", "cancelling"}
            /\ tasks'[i].status = IF tasks[i].status = "queued" THEN "cancelled" ELSE "cancelling"
            /\ tasks'[i].attempt = tasks[i].attempt /\ tasks'[i].lease = tasks[i].lease
      BY <1>4, Cancelled
    <2>2. txn[x].kind # "complete"
      BY <1>4 DEF CancelCommit
    <2>3. CASE tasks[i].status = "queued"
      <3>1. WorkOf(i)' = [state |-> "settled", claim |-> WorkOf(i).claim]
        BY <2>1, <2>3 DEF WorkOf, HandedOut
      <3>2. Work!Goes(i, "settled", WorkOf(i).claim)
        BY <2>1, <3>1, WorkGoes
      <3>3. i \in Work!In({"queued", "lapsed"})
        BY <2>3 DEF Work!In, WorkOf, HandedOut
      <3>4. Work!Withdraw(i)
        BY <1>1, <2>2, <3>2, <3>3 DEF Work!Withdraw
      <3> QED
        BY <3>4 DEF Work!Next
    <2>4. CASE tasks[i].status # "queued"
      <3>1. WorkOf(i)' = WorkOf(i)
        BY <2>1, <2>4 DEF WorkOf, HandedOut, LeasedTasks
      <3>2. \A j \in TaskIds : WorkOf(j)' = WorkOf(j)
        BY <2>1, <3>1, SameWork DEF OnlyRow
      <3> QED
        BY <1>1, <2>2, <3>2, AnswersLost
    <2> QED
      BY <2>3, <2>4
  <1>5. CASE RetryCommit(x)
    <2>1. PICK i \in TaskIds :
            /\ OnlyRow(i) /\ tasks[i].status \in {"failed", "cancelled"}
            /\ tasks'[i].status = "queued" /\ tasks'[i].attempt = tasks[i].attempt
      BY <1>5, Retried
    <2>2. txn[x].kind # "complete"
      BY <1>5 DEF RetryCommit
    <2>3. WorkOf(i)' = [state |-> "queued", claim |-> WorkOf(i).claim]
      BY <2>1 DEF WorkOf, HandedOut
    <2>4. Work!Goes(i, "queued", WorkOf(i).claim)
      BY <2>1, <2>3, WorkGoes
    <2>5. i \in Work!In({"settled"})
      BY <2>1 DEF Work!In, WorkOf, HandedOut
    <2>6. Work!Requeue(i)
      BY <1>1, <2>2, <2>4, <2>5 DEF Work!Requeue
    <2> QED
      BY <2>6 DEF Work!Next
  <1>6. CASE CompleteCommit(x)
    <2>1. PICK i \in TaskIds :
            /\ i = txn[x].report.task /\ OnlyRow(i) /\ i \in HandedOut
            /\ tasks[i].attempt = txn[x].report.attempt
            /\ tasks'[i].status = txn[x].report.outcome /\ txn[x].report.outcome \in Outcomes
            /\ tasks'[i].attempt = tasks[i].attempt
      BY <1>6, Completed
    <2>2. WorkOf(i)' = [state |-> "settled", claim |-> WorkOf(i).claim]
      BY <2>1 DEF WorkOf, HandedOut, Outcomes
    <2>3. Work!Goes(i, "settled", WorkOf(i).claim)
      BY <2>1, <2>2, WorkGoes
    <2>4. ClaimOf(txn[x].report) \in WorkAnswers
      BY <1>6 DEF CompleteCommit, WorkAnswers
    <2>5. Work!LastClaim(i) = ClaimOf(txn[x].report)
      BY <2>1 DEF Work!LastClaim, WorkOf, ClaimOf
    <2>6. i \in Work!In({"leased", "lapsed"})
      BY <2>1 DEF Work!In, WorkOf
    <2>7. WorkAnswers' \subseteq WorkAnswers
      BY <1>0, EndsNothing
    <2>8. Work!Settle(i)
      BY <2>3, <2>4, <2>5, <2>6, <2>7 DEF Work!Settle, Work!IsAnswered
    <2> QED
      BY <2>8 DEF Work!Next
  <1> QED
    BY <1>2, <1>3, <1>4, <1>5, <1>6

\* A lease runs out; it matters while the task is handed out.
LEMMA LeaseRefines ==
  ASSUME RefInv, NEW i \in TaskIds, LeaseRunsOut(i), WorkHeld' = WorkHeld
  PROVE  Work!Next
  <1>1. /\ OnlyRow(i) /\ tasks'[i].status = tasks[i].status
        /\ tasks'[i].attempt = tasks[i].attempt /\ tasks'[i].lease = "expired"
    BY LeaseRow, WrittenRow DEF RefInv, LeaseRunsOut
  <1>2. WorkAnswers' = WorkAnswers
    BY DEF LeaseRunsOut, LeaseExpires, WorkAnswers, ClaimOf
  <1>3. CASE i \in HandedOut
    <2>1. WorkOf(i)' = [state |-> "lapsed", claim |-> WorkOf(i).claim]
      BY <1>1, <1>3 DEF WorkOf, HandedOut, LeasedTasks
    <2>2. Work!Goes(i, "lapsed", WorkOf(i).claim)
      BY <1>1, <2>1, WorkGoes
    <2>3. i \in Work!In({"leased"})
      BY <1>3 DEF Work!In, WorkOf, LeasedTasks, LeaseRunsOut, LeaseExpires
    <2>4. Work!Lapse(i)
      BY <1>2, <2>2, <2>3 DEF Work!Lapse
    <2> QED
      BY <2>4 DEF Work!Next
  <1>4. CASE i \notin HandedOut
    <2>1. WorkOf(i)' = WorkOf(i)
      BY <1>1, <1>4 DEF WorkOf, HandedOut, LeasedTasks
    <2>2. \A j \in TaskIds : WorkOf(j)' = WorkOf(j)
      BY <1>1, <2>1, SameWork DEF OnlyRow
    <2> QED
      BY <1>2, <2>2, AnswersLost
  <1> QED
    BY <1>3, <1>4

LEMMA WorkInit == Init => Work!Init
  BY DEF Init, BaseInit, CentralInit, AgentInit, NoTask, NoTxn, Work!Init, Work!Item, Work!NoClaim,
     WorkOf, HandedOut, WorkHeld, WorkAnswers, Executing

LEMMA WorkStep ==
  ASSUME RefInv, [Next]_vars
  PROVE  Work!Next
  <1>1. CASE ExecutingStep \/ DyingStep
    BY <1>1, ExecutionRefines, DeathRefines DEF RefInv
  <1>2. CASE (\E x \in Txns, i \in TaskIds : ClaimCommit(x, i)) /\ ~(ExecutingStep \/ DyingStep)
    BY <1>2, StepHeld, ClaimRefines DEF RefInv
  <1>3. CASE ~(\E x \in Txns, i \in TaskIds : ClaimCommit(x, i)) /\ ~(ExecutingStep \/ DyingStep)
    <2>1. WorkHeld' = WorkHeld /\ WorkAnswers' \subseteq WorkAnswers
      BY <1>3, StepHeld, StepAnswers DEF CommandHanded, RefInv
    <2>2. CASE QuietStep
      BY <2>1, <2>2, QuietRows, RowsAsTheyAre, AnswersLost
    <2>3. CASE /\ ReportsProgress
               /\ TakesProgress(cmd.task, cmd.attempt, progress) /\ Progress(cmd.task, progress)
      <3>1. cmd.task \in TaskIds /\ progress \in 0 .. Size
        BY <2>3, FetchingTypes DEF ReportsProgress, RefInv
      <3>2. /\ OnlyRow(cmd.task) /\ tasks'[cmd.task].status = tasks[cmd.task].status
            /\ tasks'[cmd.task].attempt = tasks[cmd.task].attempt
            /\ tasks'[cmd.task].lease = tasks[cmd.task].lease
        BY <2>3, <3>1, ProgressRow, WrittenRow DEF RefInv
      <3>3. \A j \in TaskIds : WorkOf(j)' = WorkOf(j)
        BY <3>1, <3>2, SameWork DEF OnlyRow
      <3> QED
        BY <2>1, <3>3, AnswersLost
    <2> QED
      BY <1>3, <2>1, <2>2, <2>3, Steps, CommitRefines, LeaseRefines DEF WritingStep, RefInv
  <1> QED
    BY <1>1, <1>2, <1>3

\* When Central serves one request at a time, model tasks are leased work: for
\* any number of tasks and targets and any faults, a task that was handed out
\* is settled only by the report of whoever executed its last claim, and a
\* retried download is not settled by a report of its earlier life
\* (claim_model_task, _verify_lease and the Agent's tick).
THEOREM TasksAreLeasedWork ==
  ASSUME OneAtATime
  PROVE  Spec => IsLeasedWork
  <1>1. Init => Work!Init
    BY WorkInit
  <1>2. RefInv /\ [Next]_vars => Work!Next
    BY WorkStep
  <1>3. Spec => []RefInv
    BY SerialInvIsInvariant, OneAtATime, PTL DEF RefInv
  <1> QED
    BY <1>1, <1>2, <1>3, PTL DEF Spec, IsLeasedWork, Work!Spec
=============================================================================
