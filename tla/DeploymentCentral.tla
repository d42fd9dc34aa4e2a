------------------------- MODULE DeploymentCentral -------------------------
(***************************************************************************)
(* The deployment service of the Central API                               *)
(* (apps/api/src/ai_infra_api/services/deployments.py behind the routes    *)
(* api/deployments.py and api/agent.py).                                   *)
(*                                                                         *)
(* Every HTTP request is one database transaction at READ COMMITTED, with  *)
(* no row lock except in the claim.  A transaction therefore is a process  *)
(* of two or three steps: it loads what its guards read, and it writes and *)
(* commits later, when what it loaded may be stale.  txn[t] is what the    *)
(* transaction in slot t remembers of its reads.  With one slot Central    *)
(* serves one request at a time; with more, transactions overlap.          *)
(*                                                                         *)
(* Definitions called faulty variants are what a bug could make of the     *)
(* definition that follows them; no specification uses them.               *)
(***************************************************************************)
EXTENDS DeploymentBase, FiniteSets

CONSTANTS
  Txns,         \* slots for open transactions: how many may overlap
  AdminActions  \* what administrators ask of existing deployments

ASSUME TxnsAssumption == IsFiniteSet(Txns)
ASSUME AdminActionsAssumption == AdminActions \subseteq (Actions \cup {"retry"}) \ {"create"}

VARIABLE txn

NoTxn == [kind |-> "idle"]
CreateTxn == [kind: {"create"}, dep: Deployments, gpus: SUBSET Gpus]
LoadedTxn == [kind: {"loaded"}, dep: Deployments, action: Actions \cup {"retry"},
              status: RowStatuses, desired: DesiredStates]
CheckedTxn == [kind: {"checked"}, dep: Deployments, action: Actions,
               status: RowStatuses, desired: DesiredStates]
ClaimTxn == [kind: {"claim"}, heard: BOOLEAN]
CompleteTxn == [kind: {"complete"}, report: Report, dep: Deployments,
                status: RowStatuses, desired: DesiredStates]
RuntimeTxn == [kind: {"runtime"}, dep: Deployments, status: RowStatuses, mapped: RowStatuses]
TxnStates ==
  {NoTxn} \cup CreateTxn \cup LoadedTxn \cup CheckedTxn
          \cup ClaimTxn \cup CompleteTxn \cup RuntimeTxn

CentralTypeOK == txn \in [Txns -> TxnStates]

CentralInit == txn = [t \in Txns |-> NoTxn]

Begin(t, x) == txn[t] = NoTxn /\ txn' = [txn EXCEPT ![t] = x]
End(t) == txn' = [txn EXCEPT ![t] = NoTxn]

\* The session writes a column only when it differs from the value it loaded,
\* so a value written concurrently survives an assignment of the loaded one.
Stored(loaded, new, current) == IF new = loaded THEN current ELSE new

(***************************************************************************)
(* POST /deployments                                                       *)
(***************************************************************************)

\* create_deployment up to the plan: the GPUs must be free of every
\* allocating deployment.  Name and port are fresh in every request.
CreateLoad(t, d, gs) ==
  /\ dep[d].status = "absent"
  /\ \A u \in Txns : txn[u].kind = "create" => txn[u].dep # d
  /\ gs # {}
  /\ gs \cap Allocated({}) = {}
  /\ Begin(t, [kind |-> "create", dep |-> d, gpus |-> gs])
  /\ UNCHANGED <<dep, ops, reports, observed>>

\* create_deployment from the insertions to the commit.
CreateCommit(t, o) ==
  /\ txn[t].kind = "create"
  /\ IsNextOp(o)
  /\ dep' = [dep EXCEPT ![txn[t].dep] =
               [status |-> "queued", desired |-> "running", gpus |-> txn[t].gpus]]
  /\ ops' = [ops EXCEPT ![o] = QueuedOp(txn[t].dep, "create")]
  /\ End(t)
  /\ UNCHANGED <<reports, observed>>

(***************************************************************************)
(* POST /deployments/{id}/{start,stop,restart,retry}, DELETE .../{id}      *)
(***************************************************************************)

\* validate_deployment_action_target: only what takes GPUs is checked
\* against the allocations of others.  A retry is validated as a start.
TargetIsValid(d, a) ==
  a \in {"start", "restart", "retry"} => dep[d].gpus \cap Allocated({d}) = {}

\* The route loads the row and validates the target.
RequestLoad(t, d, a) ==
  /\ a \in AdminActions
  /\ Exists(d)
  /\ TargetIsValid(d, a)
  /\ Begin(t, [kind |-> "loaded", dep |-> d, action |-> a,
               status |-> dep[d].status, desired |-> dep[d].desired])
  /\ UNCHANGED <<dep, ops, reports, observed>>

\* Faulty variant of MayQueue: an active operation is not looked for.
MayQueueBeside(d, a, loadedStatus) ==
  /\ a = "start" => loadedStatus \notin {"running", "starting"}
  /\ a = "stop" => loadedStatus \notin {"stopped", "stopping"}
  /\ a = "restart" => loadedStatus = "running"

\* The guards of queue_deployment_action, on the status the route loaded.
\* The active operation, or the previous one, answers the request otherwise.
MayQueue(d, a, loadedStatus) ==
  /\ ActiveOps(d) = {}
  /\ a = "start" => loadedStatus \notin {"running", "starting"}
  /\ a = "stop" => loadedStatus \notin {"stopped", "stopping"}
  /\ a = "restart" => loadedStatus = "running"

\* retry_deployment: the latest operation failed and is asked for again.  A
\* failed creation is queued without the guards of queue_deployment_action.
MayRetry(d, a, loadedStatus) ==
  /\ loadedStatus = "failed"
  /\ \E o \in OpIds : IsLatestOp(o, d) /\ ops[o].status = "failed" /\ ops[o].action = a
  /\ a # "create" => MayQueue(d, a, loadedStatus)

\* The service reads the operations and decides to queue action a.
RequestCheck(t, a) ==
  LET x == txn[t] IN
  /\ x.kind = "loaded"
  /\ \/ x.action = a /\ MayQueue(x.dep, a, x.status)
     \/ x.action = "retry" /\ MayRetry(x.dep, a, x.status)
  /\ txn' = [txn EXCEPT ![t].kind = "checked", ![t].action = a]
  /\ UNCHANGED <<dep, ops, reports, observed>>

DesiredBy(a) ==
  IF a = "stop" THEN "stopped" ELSE IF a = "delete" THEN "deleted" ELSE "running"

\* The insertion of the operation and the commit; the foreign key of the
\* operation needs the deployment row to be there still.
RequestCommit(t, o) ==
  LET x == txn[t] IN
  /\ x.kind = "checked"
  /\ Exists(x.dep)
  /\ IsNextOp(o)
  /\ dep' = [dep EXCEPT ![x.dep] =
               DepWith(x.dep, IF x.action = "create" THEN "queued" ELSE dep[x.dep].status,
                       Stored(x.desired, DesiredBy(x.action), dep[x.dep].desired))]
  /\ ops' = [ops EXCEPT ![o] = QueuedOp(x.dep, x.action)]
  /\ End(t)
  /\ UNCHANGED <<reports, observed>>

\* The request changes nothing: a guard refuses it or answers it with an
\* operation that exists, the row is gone at the commit, or the caller or
\* the database gives up.
RequestEnds(t) ==
  /\ txn[t].kind \in {"create", "loaded", "checked"}
  /\ End(t)
  /\ UNCHANGED <<dep, ops, reports, observed>>

(***************************************************************************)
(* POST /agent/deployment-tasks/claim                                      *)
(***************************************************************************)

\* Faulty variant of ClaimLoad: a live lease does not refuse the claim.
ClaimLoadBeside(t) ==
  /\ Begin(t, [kind |-> "claim", heard |-> TRUE])
  /\ UNCHANGED <<dep, ops, reports, observed>>

\* No operation of the server may hold a live lease.
ClaimLoad(t) ==
  /\ LiveOps = {}
  /\ Begin(t, [kind |-> "claim", heard |-> TRUE])
  /\ UNCHANGED <<dep, ops, reports, observed>>

TransitionStatus(a) ==
  IF a \in {"create", "start"} THEN "starting"
  ELSE IF a = "stop" THEN "stopping"
  ELSE IF a = "restart" THEN "restarting" ELSE "deleting"

\* The oldest queued or expired operation is locked, leased with a fresh
\* token and committed.
ClaimCommit(t, o) ==
  /\ txn[t].kind = "claim"
  /\ Claimable(o)
  /\ \A p \in OpIds : Claimable(p) => o <= p
  /\ ops' = [ops EXCEPT ![o] = OpWith(o, "running", ops[o].attempt + 1, "live")]
  /\ dep' = [dep EXCEPT ![ops[o].dep].status = TransitionStatus(ops[o].action)]
  /\ End(t)
  /\ UNCHANGED <<reports, observed>>

ClaimFindsNothing(t) ==
  /\ txn[t].kind = "claim"
  /\ \A o \in OpIds : ~Claimable(o)
  /\ End(t)
  /\ UNCHANGED <<dep, ops, reports, observed>>

\* Faulty variant of LeaseExpires: the lease columns of the running operation
\* are cleared.
LeaseCleared(o) ==
  /\ ops[o].lease = "live"
  /\ ops' = [ops EXCEPT ![o].lease = "none"]
  /\ UNCHANGED <<dep, reports, observed, txn>>

\* A lease whose holder no longer renews it runs out.
LeaseExpires(o) ==
  /\ ops[o].lease = "live"
  /\ ops' = [ops EXCEPT ![o].lease = "expired"]
  /\ UNCHANGED <<dep, reports, observed, txn>>

(***************************************************************************)
(* POST /agent/deployment-operations/{id}/complete                         *)
(***************************************************************************)

\* Faulty variant of LeaseHeldBy: the token is not compared.
LeaseHeldBySomeone(m) == ops[m.op].status = "running" /\ ops[m.op].lease = "live"

\* The operation runs under the lease of the report (_verify_operation_lease).
LeaseHeldBy(m) ==
  /\ ops[m.op].status = "running"
  /\ ops[m.op].lease = "live"
  /\ ops[m.op].attempt = m.attempt

CompleteLoad(t, m) ==
  /\ m \in reports
  /\ LeaseHeldBy(m)
  /\ LET d == ops[m.op].dep IN
       Begin(t, [kind |-> "complete", report |-> m, dep |-> d,
                 status |-> dep[d].status, desired |-> dep[d].desired])
  /\ reports' = reports \ {m}
  /\ UNCHANGED <<dep, ops, observed>>

\* The report is refused: the operation is settled, purged or reclaimed, or
\* the lease has expired.
CompleteRefused(m) ==
  /\ m \in reports
  /\ ~LeaseHeldBy(m)
  /\ reports' = reports \ {m}
  /\ UNCHANGED <<dep, ops, observed, txn>>

\* Faulty variants of SettledStatus: a failure leaves the status of the
\* transition; a failed deletion removes the row.
SettledStatusStuck(a, outcome) ==
  IF outcome = "failed" THEN TransitionStatus(a)
  ELSE IF a = "delete" THEN "gone"
  ELSE IF a = "stop" THEN "stopped" ELSE "running"
SettledStatusForced(a, outcome) ==
  IF a = "delete" THEN "gone"
  ELSE IF outcome = "failed" THEN "failed"
  ELSE IF a = "stop" THEN "stopped" ELSE "running"

\* The status a settled operation leaves its deployment in.
SettledStatus(a, outcome) ==
  IF outcome = "failed" THEN "failed"
  ELSE IF a = "delete" THEN "gone"
  ELSE IF a = "stop" THEN "stopped" ELSE "running"

\* The row is there still, and a successful start reports a running container.
Accepted(x) ==
  /\ Exists(x.dep)
  /\ SettledStatus(ops[x.report.op].action, x.report.outcome) = "running"
       => x.report.state = "running"

\* The outcome is written whatever became of the lease since it was read.
CompleteCommit(t) ==
  LET x == txn[t]
      s == SettledStatus(ops[x.report.op].action, x.report.outcome)
  IN
  /\ x.kind = "complete"
  /\ Accepted(x)
  /\ s # "gone"
  /\ dep' = [dep EXCEPT ![x.dep] =
               DepWith(x.dep, Stored(x.status, s, dep[x.dep].status),
                       IF s = "running" THEN Stored(x.desired, "running", dep[x.dep].desired)
                                        ELSE dep[x.dep].desired)]
  /\ ops' = [ops EXCEPT ![x.report.op] =
               OpWith(x.report.op, x.report.outcome, ops[x.report.op].attempt, "none")]
  /\ End(t)
  /\ UNCHANGED <<reports, observed>>

\* Faulty variant of WithoutOps: only active operations go.
WithoutActiveOps(d) == [o \in OpIds |-> IF o \in ActiveOps(d) THEN PurgedOp ELSE ops[o]]

\* Deleting a deployment row deletes its operations with it.
WithoutOps(d) == [o \in OpIds |-> IF ops[o].dep = d THEN PurgedOp ELSE ops[o]]

\* The row of a completed deletion goes, and its operations and GPU rows.
DeleteCommit(t) ==
  LET x == txn[t] IN
  /\ x.kind = "complete"
  /\ Accepted(x)
  /\ SettledStatus(ops[x.report.op].action, x.report.outcome) = "gone"
  /\ dep' = [dep EXCEPT ![x.dep] = [status |-> "gone", desired |-> "deleted", gpus |-> {}]]
  /\ ops' = WithoutOps(x.dep)
  /\ End(t)
  /\ UNCHANGED <<reports, observed>>

\* The transaction is rolled back: the guards refuse it.
CompleteRollsBack(t) ==
  /\ txn[t].kind = "complete"
  /\ ~Accepted(txn[t])
  /\ End(t)
  /\ UNCHANGED <<dep, ops, reports, observed>>

(***************************************************************************)
(* POST /agent/deployment-runtimes/report                                  *)
(***************************************************************************)

\* Faulty variant of MappedStatus: the observed state is the new status.
MappedStatusRaw(state, desired) == state

\* The status that an observed state stands for.
MappedStatus(state, desired) ==
  IF state = "missing" THEN IF desired = "running" THEN "failed" ELSE "stopped" ELSE state

\* Faulty variant of RuntimeStatus: active operations are not looked for.
RuntimeStatusAlways(d) == MappedStatus(observed[d], dep[d].desired)

\* While an operation is active the status is left as it is.
RuntimeStatus(d) ==
  IF ActiveOps(d) = {} THEN MappedStatus(observed[d], dep[d].desired) ELSE dep[d].status

\* apply_runtime_report for one deployment: the row and its operations are
\* read.
RuntimeLoad(t, d) ==
  /\ observed[d] \in ObservedStates
  /\ Exists(d)
  /\ Begin(t, [kind |-> "runtime", dep |-> d, status |-> dep[d].status,
               mapped |-> RuntimeStatus(d)])
  /\ observed' = [observed EXCEPT ![d] = "nothing"]
  /\ UNCHANGED <<dep, ops, reports>>

\* An observation of a deployment that is gone is skipped.
RuntimeSkipped(d) ==
  /\ observed[d] \in ObservedStates
  /\ ~Exists(d)
  /\ observed' = [observed EXCEPT ![d] = "nothing"]
  /\ UNCHANGED <<dep, ops, reports, txn>>

\* Faulty variant of RuntimeCommit: the row is written though it is gone.
RuntimeCommitUpserts(t) ==
  LET x == txn[t] IN
  /\ x.kind = "runtime"
  /\ dep' = [dep EXCEPT ![x.dep].status = Stored(x.status, x.mapped, @)]
  /\ End(t)
  /\ UNCHANGED <<ops, reports, observed>>

\* The changed columns are written; nothing is, when the row is gone.
RuntimeCommit(t) ==
  LET x == txn[t] IN
  /\ x.kind = "runtime"
  /\ dep' = IF Exists(x.dep)
            THEN [dep EXCEPT ![x.dep].status = Stored(x.status, x.mapped, @)]
            ELSE dep
  /\ End(t)
  /\ UNCHANGED <<ops, reports, observed>>

\* Faulty variant of Expected: what should be stopped is not observed.
ExpectedRunning(d) == Exists(d) /\ dep[d].desired = "running"

\* list_runtime_expectations: which deployments the Agent is asked to observe.
Expected(d) == Exists(d) /\ dep[d].desired \in {"running", "stopped"}
=============================================================================
