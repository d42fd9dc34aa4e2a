--------------------------- MODULE DeploymentBase ---------------------------
(***************************************************************************)
(* What the Central API and the Agent share about deployments: the rows of *)
(* the tables deployments, deployment_gpus and deployment_operations, and  *)
(* the reports that travel from the Agent to Central.                      *)
(*                                                                         *)
(* One server is modelled: every query of the deployment service filters   *)
(* by server_id, so servers do not meet in these tables.                   *)
(***************************************************************************)
EXTENDS Naturals

CONSTANTS
  Deployments,   \* identities (UUIDs) that deployments may get; never reused
  Gpus,          \* the GPUs of the server
  NoDeployment,  \* the deployment of an operation row that does not exist
  MaxOps         \* bound: operation rows ever inserted

ASSUME NoDeploymentAssumption == NoDeployment \notin Deployments
ASSUME MaxOpsAssumption == MaxOps \in Nat

VARIABLES
  dep,       \* Deployment rows with their DeploymentGPU rows
  ops,       \* DeploymentOperation rows, numbered in creation order
  reports,   \* completion reports in flight from the Agent to Central
  observed   \* per deployment, its runtime observation under way, if any

(***************************************************************************)
(* Deployment rows.  "absent" and "gone" stand for no row: not yet         *)
(* inserted, and deleted.  The generation column is left out: it is 1 in   *)
(* every row and no statement of the program changes it.                   *)
(***************************************************************************)
RowStatuses == {"queued", "starting", "running", "stopping", "stopped",
                "restarting", "deleting", "failed"}
DepStatuses == RowStatuses \cup {"absent", "gone"}
DesiredStates == {"running", "stopped", "deleted"}
DepRow == [status: DepStatuses, desired: DesiredStates, gpus: SUBSET Gpus]

\* The row of d, rewritten.
DepWith(d, status, desired) == [status |-> status, desired |-> desired, gpus |-> dep[d].gpus]

Exists(d) == dep[d].status \in RowStatuses

\* Statuses in which a deployment keeps its GPUs (services/deployments.py).
\* "unknown" is in that list too, and nothing ever writes it.
AllocatingStatuses == {"queued", "starting", "running", "stopping",
                       "restarting", "deleting"}

\* GPUs that the deployments other than those in Excluded hold.
Allocated(Excluded) ==
  UNION {dep[e].gpus :
           e \in {f \in Deployments \ Excluded : dep[f].status \in AllocatingStatuses}}

(***************************************************************************)
(* Operation rows.  attempt is attempt_count; the lease token of a claim   *)
(* is fresh and random, so the attempt number stands for it.  The lease    *)
(* columns are "none" (NULL), "live" (expires now or later) or "expired".  *)
(***************************************************************************)
Actions == {"create", "start", "stop", "restart", "delete"}
OpStatuses == {"unused", "queued", "running", "completed", "failed", "purged"}
Leases == {"none", "live", "expired"}
OpIds == 1 .. MaxOps
OpRow == [status: OpStatuses, dep: Deployments \cup {NoDeployment},
          action: Actions \cup {"none"}, attempt: Nat, lease: Leases]

NoOp == [status |-> "unused", dep |-> NoDeployment, action |-> "none",
         attempt |-> 0, lease |-> "none"]
PurgedOp == [NoOp EXCEPT !.status = "purged"]
QueuedOp(d, a) == [status |-> "queued", dep |-> d, action |-> a,
                   attempt |-> 0, lease |-> "none"]

\* The row of o, rewritten.
OpWith(o, status, attempt, lease) ==
  [status |-> status, dep |-> ops[o].dep, action |-> ops[o].action,
   attempt |-> attempt, lease |-> lease]

ActiveOps(d) == {o \in OpIds : ops[o].dep = d /\ ops[o].status \in {"queued", "running"}}

\* The most recent operation of d (_current_operation), one per deployment.
IsLatestOp(o, d) ==
  /\ ops[o].dep = d
  /\ \A p \in OpIds : ops[p].dep = d => p <= o

\* The identity the next inserted operation row gets.
IsNextOp(o) ==
  /\ ops[o].status = "unused"
  /\ \A p \in OpIds : p < o => ops[p].status # "unused"

\* What the claim query asks of status and lease.
LiveOps == {o \in OpIds : ops[o].status = "running" /\ ops[o].lease = "live"}

\* Faulty variants of Claimable: expired operations are not taken again;
\* failed operations are.
ClaimableOnce(o) == ops[o].status = "queued"
ClaimableWhenFailed(o) ==
  \/ ops[o].status \in {"queued", "failed"}
  \/ ops[o].status = "running" /\ ops[o].lease = "expired"

Claimable(o) ==
  \/ ops[o].status = "queued"
  \/ ops[o].status = "running" /\ ops[o].lease = "expired"

(***************************************************************************)
(* Reports.  A completion report names the claim it answers.  A runtime    *)
(* observation is "asked" once Central expects it, and then what Docker    *)
(* said of the container, on its way to Central.                           *)
(***************************************************************************)
Outcomes == {"completed", "failed"}
ObservedStates == {"running", "stopped", "missing", "failed"}
Report == [op: OpIds, attempt: Nat, outcome: Outcomes, state: ObservedStates]

BaseTypeOK ==
  /\ dep \in [Deployments -> DepRow]
  /\ ops \in [OpIds -> OpRow]
  /\ reports \subseteq Report
  /\ observed \in [Deployments -> ObservedStates \cup {"nothing", "asked"}]

BaseInit ==
  /\ dep = [d \in Deployments |-> [status |-> "absent", desired |-> "running", gpus |-> {}]]
  /\ ops = [o \in OpIds |-> NoOp]
  /\ reports = {}
  /\ observed = [d \in Deployments |-> "nothing"]
=============================================================================
