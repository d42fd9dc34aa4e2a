---------------------------- MODULE ModelTaskBase ----------------------------
(***************************************************************************)
(* What the Central API and the Agent share about model tasks: the rows of *)
(* model_download_tasks and model_delete_tasks, the model files Central    *)
(* believes in, the ones the server has, and the reports between them.     *)
(*                                                                         *)
(* A target is a path on the one server modelled: the directory a model is *)
(* downloaded into, and the model file the inventory finds there.  One     *)
(* revision of one model belongs to each.                                  *)
(***************************************************************************)
EXTENDS Naturals

CONSTANTS
  Targets,   \* paths of model installations
  NoTarget,  \* the target of a task row that does not exist
  MaxTasks,  \* bound: task rows ever inserted
  MaxAttempts,  \* bound: a download claimed that often is not retried
  Size       \* what a byte counter can reach: the size of a model

ASSUME NoTargetAssumption == NoTarget \notin Targets
ASSUME TaskBoundsAssumption == {MaxTasks, MaxAttempts, Size} \subseteq Nat

VARIABLES
  tasks,     \* task rows of both tables, numbered in creation order
  file,      \* per target, the status of its model_files row
  deployed,  \* per target, whether deployments reference that row
  disk,      \* per target, what the server's file system has there
  reports,   \* completion reports in flight from the Agent to Central
  seen       \* per target, the inventory scan under way to Central, if any

(***************************************************************************)
(* Task rows.  attempt is attempt_count and stands for the lease token,    *)
(* which is drawn afresh at each claim; asked is whether                   *)
(* cancel_requested_at is set; size is downloaded_size.  The lease columns *)
(* are "none" (NULL), "live" (expires now or later) or "expired".          *)
(***************************************************************************)
TaskIds == 1 .. MaxTasks
DownloadStatuses == {"queued", "downloading", "cancelling", "completed", "failed", "cancelled"}
DeleteStatuses == {"queued", "deleting", "completed", "failed"}
Leases == {"none", "live", "expired"}
TaskRows(kind, statuses) ==
  [kind: {kind}, target: Targets, status: statuses, attempt: Nat,
   lease: Leases, size: 0 .. Size, asked: BOOLEAN]
NoTask == [kind |-> "none", target |-> NoTarget, status |-> "unused",
           attempt |-> 0, lease |-> "none", size |-> 0, asked |-> FALSE]
TaskRow == TaskRows("download", DownloadStatuses) \cup TaskRows("delete", DeleteStatuses)

QueuedTask(kind, t) == [kind |-> kind, target |-> t, status |-> "queued",
                        attempt |-> 0, lease |-> "none", size |-> 0, asked |-> FALSE]

ActiveDownloads(t) ==
  {i \in TaskIds : /\ tasks[i].kind = "download"
                   /\ tasks[i].target = t
                   /\ tasks[i].status \in {"queued", "downloading", "cancelling"}}
ActiveDeletes(t) ==
  {i \in TaskIds : /\ tasks[i].kind = "delete"
                   /\ tasks[i].target = t
                   /\ tasks[i].status \in {"queued", "deleting"}}

\* What the claim calls running: handed to the Agent and not settled.
HandedOut == {i \in TaskIds : tasks[i].status \in {"downloading", "cancelling", "deleting"}}
LeasedTasks == {i \in HandedOut : tasks[i].lease = "live"}

\* Faulty variant of Claimable: expired tasks are not taken again.
ClaimableOnce(i) == tasks[i].status = "queued"

Claimable(i) ==
  \/ tasks[i].status = "queued"
  \/ i \in HandedOut /\ tasks[i].lease = "expired"

\* The identity the next inserted task row gets.
IsNextTask(i) ==
  /\ tasks[i].status = "unused"
  /\ \A j \in TaskIds : j < i => tasks[j].status # "unused"

Outcomes == {"completed", "failed", "cancelled"}
Report == [task: TaskIds, attempt: Nat, outcome: Outcomes, size: 0 .. Size]

\* "missing" stands for stale as well, the status of a file whose directory
\* cannot be scanned: nothing tells them apart.
FileStatuses == {"none", "discovered", "missing"}

\* A removal that breaks off leaves some of the files: with the manifest
\* among them the target is "hollow", without it "debris".
DiskStatuses == {"none", "published", "hollow", "debris"}
HasManifest(t) == disk[t] \in {"published", "hollow"}

BaseTypeOK ==
  /\ tasks \in [TaskIds -> TaskRow \cup {NoTask}]
  /\ file \in [Targets -> FileStatuses]
  /\ deployed \in [Targets -> BOOLEAN]
  /\ disk \in [Targets -> DiskStatuses]
  /\ reports \subseteq Report
  /\ seen \in [Targets -> {"nothing", "none", "published"}]

BaseInit ==
  /\ tasks = [i \in TaskIds |-> NoTask]
  /\ file = [t \in Targets |-> "none"]
  /\ deployed = [t \in Targets |-> FALSE]
  /\ disk = [t \in Targets |-> "none"]
  /\ reports = {}
  /\ seen = [t \in Targets |-> "nothing"]
=============================================================================
