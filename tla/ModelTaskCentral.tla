-------------------------- MODULE ModelTaskCentral --------------------------
(***************************************************************************)
(* The model tasks of the Central API                                      *)
(* (apps/api/src/ai_infra_api/services/model_tasks.py behind the routes    *)
(* api/downloads.py and api/agent.py), with what the deployment service    *)
(* and the inventory do to the model files they work on.                   *)
(*                                                                         *)
(* As in DeploymentCentral, a handler that reads before it writes is a     *)
(* transaction of two steps, and txn[x] is what the transaction in slot x  *)
(* remembers of its reads.  Definitions called faulty variants are what a  *)
(* bug could make of the definition that follows them; no specification    *)
(* uses them.                                                              *)
(***************************************************************************)
EXTENDS ModelTaskBase

CONSTANT Txns  \* slots for open transactions: how many may overlap

VARIABLE txn

NoTxn == [kind |-> "idle"]
CreateTxn == [kind: {"download", "delete", "deploy"}, target: Targets]
MutateTxn == [kind: {"cancel", "retry"}, task: TaskIds, row: TaskRow]
ClaimTxn == [kind: {"claim"}, heard: BOOLEAN]
CompleteTxn == [kind: {"complete"}, report: Report, row: TaskRow, file: FileStatuses]
TxnStates == {NoTxn} \cup CreateTxn \cup MutateTxn \cup ClaimTxn \cup CompleteTxn

CentralTypeOK == txn \in [Txns -> TxnStates]

CentralInit == txn = [x \in Txns |-> NoTxn]

Begin(x, s) == txn[x] = NoTxn /\ txn' = [txn EXCEPT ![x] = s]
End(x) == txn' = [txn EXCEPT ![x] = NoTxn]

\* The session writes a column only when it differs from the value it loaded,
\* so a value written concurrently survives an assignment of the loaded one.
Stored(loaded, new, current) == IF new = loaded THEN current ELSE new

\* The row of task i after a transaction that loaded it has assigned new.
Rewritten(i, loaded, new) ==
  [kind |-> tasks[i].kind, target |-> tasks[i].target,
   status |-> Stored(loaded.status, new.status, tasks[i].status),
   attempt |-> Stored(loaded.attempt, new.attempt, tasks[i].attempt),
   lease |-> Stored(loaded.lease, new.lease, tasks[i].lease),
   size |-> Stored(loaded.size, new.size, tasks[i].size),
   asked |-> Stored(loaded.asked, new.asked, tasks[i].asked)]

(***************************************************************************)
(* POST /downloads, POST /model-files/{id}/delete, and the part of         *)
(* POST /deployments that looks at model files                             *)
(***************************************************************************)

DownloadLoad(x, t) ==
  /\ ActiveDownloads(t) = {}
  /\ file[t] # "discovered"
  /\ Begin(x, [kind |-> "download", target |-> t])
  /\ UNCHANGED <<tasks, file, deployed, disk, reports, seen>>

\* The installation has a row, no deployment and no deletion under way.
MayDelete(t) == file[t] # "none" /\ ~deployed[t] /\ ActiveDeletes(t) = {}

DeleteLoad(x, t) ==
  /\ MayDelete(t)
  /\ Begin(x, [kind |-> "delete", target |-> t])
  /\ UNCHANGED <<tasks, file, deployed, disk, reports, seen>>

TaskCommit(x, i) ==
  /\ txn[x].kind \in {"download", "delete"}
  /\ IsNextTask(i)
  /\ tasks' = [tasks EXCEPT ![i] = QueuedTask(txn[x].kind, txn[x].target)]
  /\ End(x)
  /\ UNCHANGED <<file, deployed, disk, reports, seen>>

\* create_deployment, as far as it looks at model files.
DeployLoad(x, t) ==
  /\ file[t] = "discovered"
  /\ ActiveDeletes(t) = {}
  /\ Begin(x, [kind |-> "deploy", target |-> t])
  /\ UNCHANGED <<tasks, file, deployed, disk, reports, seen>>

DeployCommit(x) ==
  /\ txn[x].kind = "deploy"
  /\ deployed' = [deployed EXCEPT ![txn[x].target] = TRUE]
  /\ End(x)
  /\ UNCHANGED <<tasks, file, disk, reports, seen>>

\* The last deployment of a model file is deleted.
Undeploy(t) ==
  /\ deployed[t]
  /\ deployed' = [deployed EXCEPT ![t] = FALSE]
  /\ UNCHANGED <<tasks, file, disk, reports, seen, txn>>

(***************************************************************************)
(* POST /downloads/{id}/cancel and .../retry                               *)
(***************************************************************************)
CancelLoad(x, i) ==
  /\ tasks[i].kind = "download"
  /\ tasks[i].status \in {"queued", "downloading", "cancelling"}
  /\ Begin(x, [kind |-> "cancel", task |-> i, row |-> tasks[i]])
  /\ UNCHANGED <<tasks, file, deployed, disk, reports, seen>>

\* A queued download is cancelled at once, the Agent is told of a running one.
CancelCommit(x) ==
  LET y == txn[x]
      s == IF y.row.status = "queued" THEN "cancelled" ELSE "cancelling"
  IN
  /\ y.kind = "cancel"
  /\ tasks' = [tasks EXCEPT ![y.task] =
                 Rewritten(y.task, y.row, [y.row EXCEPT !.status = s, !.asked = TRUE])]
  /\ End(x)
  /\ UNCHANGED <<file, deployed, disk, reports, seen>>

RetryLoad(x, i) ==
  /\ tasks[i].kind = "download"
  /\ tasks[i].status \in {"failed", "cancelled"}
  /\ tasks[i].attempt < MaxAttempts
  /\ Begin(x, [kind |-> "retry", task |-> i, row |-> tasks[i]])
  /\ UNCHANGED <<tasks, file, deployed, disk, reports, seen>>

RetryCommit(x) ==
  LET y == txn[x] IN
  /\ y.kind = "retry"
  /\ tasks' = [tasks EXCEPT ![y.task] =
                 Rewritten(y.task, y.row, [y.row EXCEPT !.status = "queued", !.lease = "none",
                                                        !.size = 0, !.asked = FALSE])]
  /\ End(x)
  /\ UNCHANGED <<file, deployed, disk, reports, seen>>

\* A request of an administrator changes nothing: a guard of another part of
\* the system refuses it, or the caller or the database gives up.
RequestEnds(x) ==
  /\ txn[x].kind \in {"download", "delete", "deploy", "cancel", "retry"}
  /\ End(x)
  /\ UNCHANGED <<tasks, file, deployed, disk, reports, seen>>

(***************************************************************************)
(* POST /agent/model-tasks/claim                                           *)
(***************************************************************************)

\* Faulty variant of ClaimLoad: a live lease does not refuse the claim.
ClaimLoadBeside(x) ==
  /\ Begin(x, [kind |-> "claim", heard |-> TRUE])
  /\ UNCHANGED <<tasks, file, deployed, disk, reports, seen>>

\* No task of the server, of either kind, may hold a live lease.
ClaimLoad(x) ==
  /\ LeasedTasks = {}
  /\ Begin(x, [kind |-> "claim", heard |-> TRUE])
  /\ UNCHANGED <<tasks, file, deployed, disk, reports, seen>>

\* The oldest download and the oldest deletion that can be had, whichever is
\* the older.
IsCandidate(i) == Claimable(i) /\ \A j \in TaskIds : Claimable(j) => i <= j

\* Faulty variant of HandedOutStatus: deletions are not told from downloads.
HandedOutStatusAlike(row) == IF row.asked THEN "cancelling" ELSE "downloading"

\* The status of a task that the Agent is given.
HandedOutStatus(row) ==
  IF row.kind = "delete" THEN "deleting"
  ELSE IF row.asked THEN "cancelling" ELSE "downloading"

\* The candidate is locked, leased with a fresh token and committed.
ClaimCommit(x, i) ==
  /\ txn[x].kind = "claim"
  /\ IsCandidate(i)
  /\ tasks' = [tasks EXCEPT ![i].status = HandedOutStatus(tasks[i]),
                            ![i].attempt = @ + 1, ![i].lease = "live"]
  /\ End(x)
  /\ UNCHANGED <<file, deployed, disk, reports, seen>>

\* The directory of the candidate is no longer available: the task fails,
\* and the claim returns none.
ClaimFails(x, i) ==
  /\ txn[x].kind = "claim"
  /\ IsCandidate(i)
  /\ tasks' = [tasks EXCEPT ![i].status = "failed"]
  /\ End(x)
  /\ UNCHANGED <<file, deployed, disk, reports, seen>>

ClaimFindsNothing(x) ==
  /\ txn[x].kind = "claim"
  /\ \A i \in TaskIds : ~Claimable(i)
  /\ End(x)
  /\ UNCHANGED <<tasks, file, deployed, disk, reports, seen>>

LeaseExpires(i) ==
  /\ tasks[i].lease = "live"
  /\ tasks' = [tasks EXCEPT ![i].lease = "expired"]
  /\ UNCHANGED <<file, deployed, disk, reports, seen, txn>>

(***************************************************************************)
(* POST /agent/download-tasks/{id}/progress, and .../complete for both     *)
(* kinds                                                                   *)
(***************************************************************************)

\* Faulty variant of LeaseHeldBy: the token is not compared.
LeaseHeldBySomeone(i, attempt) == i \in HandedOut /\ tasks[i].lease = "live"

\* The task runs under this lease (_verify_lease).
LeaseHeldBy(i, attempt) ==
  /\ i \in HandedOut
  /\ tasks[i].lease = "live"
  /\ tasks[i].attempt = attempt

\* Whether a progress report is taken: the counter may not go back.
TakesProgress(i, attempt, size) == LeaseHeldBy(i, attempt) /\ tasks[i].size <= size

Progress(i, size) ==
  /\ tasks' = [tasks EXCEPT ![i].size = size]
  /\ UNCHANGED <<file, deployed, disk, reports, seen, txn>>

CompleteLoad(x, m) ==
  /\ m \in reports
  /\ LeaseHeldBy(m.task, m.attempt)
  /\ Begin(x, [kind |-> "complete", report |-> m, row |-> tasks[m.task],
               file |-> file[tasks[m.task].target]])
  /\ reports' = reports \ {m}
  /\ UNCHANGED <<tasks, file, deployed, disk, seen>>

CompleteRefused(m) ==
  /\ m \in reports
  /\ ~LeaseHeldBy(m.task, m.attempt)
  /\ reports' = reports \ {m}
  /\ UNCHANGED <<tasks, file, deployed, disk, seen, txn>>

\* The outcome is written whatever became of the task since it was read; a
\* completed deletion marks the model file.
CompleteCommit(x) ==
  LET y == txn[x]
      size == IF y.row.kind = "download" THEN y.report.size ELSE y.row.size
  IN
  /\ y.kind = "complete"
  /\ tasks' = [tasks EXCEPT ![y.report.task] =
                 Rewritten(y.report.task, y.row,
                           [y.row EXCEPT !.status = y.report.outcome, !.size = size,
                                         !.lease = "none"])]
  /\ file' = IF y.row.kind = "delete" /\ y.report.outcome = "completed"
             THEN [file EXCEPT ![y.row.target] = Stored(y.file, "missing", @)]
             ELSE file
  /\ End(x)
  /\ UNCHANGED <<deployed, disk, reports, seen>>

(***************************************************************************)
(* The inventory of a heartbeat (persist_model_inventory), for one target  *)
(***************************************************************************)
ScanApplied(t) ==
  /\ seen[t] # "nothing"
  /\ file' = [file EXCEPT ![t] = IF seen[t] = "published" THEN "discovered"
                                 ELSE IF @ = "none" THEN "none" ELSE "missing"]
  /\ seen' = [seen EXCEPT ![t] = "nothing"]
  /\ UNCHANGED <<tasks, deployed, disk, reports, txn>>
=============================================================================
