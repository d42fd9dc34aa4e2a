-------------------------- MODULE DeploymentSystem --------------------------
(***************************************************************************)
(* Deployments end to end: administrators, the Central API, the Agent of   *)
(* one server and its Docker containers.                                   *)
(*                                                                         *)
(* The Agent polls.  A claim is answered on the connection it came on, so  *)
(* the answer reaches the Agent at once, or never when the Agent gave up   *)
(* on it; completion reports and observations travel as messages that may  *)
(* be late or lost.  Losses, timeouts and crashes are counted, and bounded *)
(* by MaxFaults: a behaviour has finitely many of them.                    *)
(***************************************************************************)
EXTENDS DeploymentCentral, DeploymentAgent

CONSTANT MaxFaults  \* bound: crashes, timeouts and losses in a behaviour

ASSUME MaxFaultsAssumption == MaxFaults \in Nat

VARIABLE faults

vars == <<dep, ops, reports, observed, txn, phase, cmd, container, faults>>

TypeOK == BaseTypeOK /\ CentralTypeOK /\ AgentTypeOK /\ faults \in 0 .. MaxFaults

Init == BaseInit /\ CentralInit /\ AgentInit /\ faults = 0

NoFault == UNCHANGED faults
Fault == faults < MaxFaults /\ faults' = faults + 1

(***************************************************************************)
(* Administrators                                                          *)
(***************************************************************************)
Administer ==
  /\ \E t \in Txns :
       \/ \E d \in Deployments, gs \in SUBSET Gpus : CreateLoad(t, d, gs)
       \/ \E d \in Deployments, a \in AdminActions : RequestLoad(t, d, a)
       \/ \E a \in Actions : RequestCheck(t, a)
       \/ \E o \in OpIds : CreateCommit(t, o) \/ RequestCommit(t, o)
       \/ RequestEnds(t)
  /\ NoFault
  /\ UNCHANGED agentVars

(***************************************************************************)
(* Claims                                                                  *)
(***************************************************************************)
CommandFor(o) == [op |-> o, attempt |-> ops[o].attempt + 1,
                  dep |-> ops[o].dep, action |-> ops[o].action]

\* The Agent waits for no answer to an observation of d.
Answered(d) ==
  /\ observed[d] = "nothing"
  /\ \A t \in Txns : txn[t].kind = "runtime" => txn[t].dep # d

\* The report of the last reconciliation is answered.
Reconciled == \A d \in Deployments : Answered(d)

\* A tick claims before it reconciles, and ends when its observations are
\* served: a claim with observations in flight means that they timed out.
AgentClaims(t) ==
  /\ BeginClaim
  /\ ClaimLoad(t)
  /\ IF Reconciled THEN NoFault ELSE Fault

ClaimAnswered(t, o) ==
  /\ txn[t].kind = "claim" /\ txn[t].heard
  /\ ClaimCommit(t, o)
  /\ ReceiveCommand(CommandFor(o))
  /\ NoFault

\* The operation is leased and nobody knows the token.
ClaimUnheard(t, o) ==
  /\ ClaimCommit(t, o)
  /\ IF txn[t].heard THEN ClaimIsOver /\ Fault ELSE UNCHANGED agentVars /\ NoFault

ClaimEmpty(t) ==
  /\ ClaimFindsNothing(t)
  /\ IF txn[t].heard THEN ClaimIsOver ELSE UNCHANGED agentVars
  /\ NoFault

\* No transaction has the Agent waiting for its answer any more.
Deafened == [t \in Txns |-> IF txn[t].kind = "claim" THEN [txn[t] EXCEPT !.heard = FALSE]
                                                     ELSE txn[t]]

\* The Agent's request times out while Central still works on it.
ClaimTimesOut ==
  /\ ClaimIsOver
  /\ txn' = Deafened
  /\ Fault
  /\ UNCHANGED <<dep, ops, reports, observed>>

(***************************************************************************)
(* The Agent process and its messages                                      *)
(***************************************************************************)
AgentCrashes ==
  /\ Crash
  /\ txn' = Deafened
  /\ Fault
  /\ UNCHANGED <<dep, ops, reports>>

AgentRestarts == Restart /\ NoFault /\ UNCHANGED <<dep, ops, reports, observed, txn>>

AgentExecutes == Execute /\ NoFault /\ UNCHANGED txn

\* Asking again before Central answered the last report of d means that the
\* Agent gave up on it.
AgentAsks(d) ==
  /\ Expected(d)
  /\ Ask(d)
  /\ IF Answered(d) THEN NoFault ELSE Fault
  /\ UNCHANGED <<dep, ops, txn>>

AgentObserves(d) == Observe(d) /\ NoFault /\ UNCHANGED <<dep, ops, txn>>

Exit(d) == ContainerExits(d) /\ NoFault /\ UNCHANGED <<dep, ops, reports, observed, txn>>

MessageLost ==
  /\ \/ \E m \in reports : reports' = reports \ {m} /\ UNCHANGED observed
     \/ \E d \in Deployments : /\ observed[d] # "nothing"
                               /\ observed' = [observed EXCEPT ![d] = "nothing"]
                               /\ UNCHANGED reports
  /\ Fault
  /\ UNCHANGED <<dep, ops, txn, agentVars>>

(***************************************************************************)
(* Time.  While the Agent executes an operation it renews the lease every  *)
(* few seconds, and its report is served within seconds: only a fault lets *)
(* the lease run out then.                                                 *)
(***************************************************************************)
HolderIsActive(o) ==
  \/ phase \in Executing /\ cmd.op = o /\ cmd.attempt = ops[o].attempt
  \/ \E m \in reports : m.op = o /\ m.attempt = ops[o].attempt
  \/ \E t \in Txns : /\ txn[t].kind = "complete"
                     /\ txn[t].report.op = o
                     /\ txn[t].report.attempt = ops[o].attempt

LeaseRunsOut(o) ==
  /\ LeaseExpires(o)
  /\ IF HolderIsActive(o) THEN Fault ELSE NoFault
  /\ UNCHANGED agentVars

(***************************************************************************)
(* Central's handling of reports                                           *)
(***************************************************************************)
Reported ==
  /\ \/ \E m \in reports : CompleteRefused(m) \/ \E t \in Txns : CompleteLoad(t, m)
     \/ \E t \in Txns : CompleteCommit(t) \/ DeleteCommit(t) \/ CompleteRollsBack(t)
     \/ \E d \in Deployments : RuntimeSkipped(d) \/ \E t \in Txns : RuntimeLoad(t, d)
     \/ \E t \in Txns : RuntimeCommit(t)
  /\ NoFault
  /\ UNCHANGED agentVars

Claiming ==
  \E t \in Txns :
    \/ AgentClaims(t)
    \/ \E o \in OpIds : ClaimAnswered(t, o) \/ ClaimUnheard(t, o)
    \/ ClaimEmpty(t)

Next ==
  \/ Administer
  \/ Claiming
  \/ ClaimTimesOut
  \/ AgentCrashes
  \/ AgentRestarts
  \/ AgentExecutes
  \/ \E d \in Deployments : AgentAsks(d) \/ AgentObserves(d) \/ Exit(d)
  \/ MessageLost
  \/ \E o \in OpIds : LeaseRunsOut(o)
  \/ Reported

Spec == Init /\ [][Next]_vars

(***************************************************************************)
(* Fairness.  The Agent polls, executes and reconciles for as long as it   *)
(* runs, and is restarted; Central ends every transaction it began and     *)
(* time passes.  Central serves every request in the end: a request waits  *)
(* for a free slot only in the model, hence strong fairness for the steps  *)
(* that take a slot.  Nothing obliges administrators to do anything.       *)
(***************************************************************************)
TransactionEnds(t) ==
  \/ RequestEnds(t) /\ NoFault /\ UNCHANGED agentVars
  \/ \E o \in OpIds : ClaimAnswered(t, o)
  \/ \E o \in OpIds : ClaimUnheard(t, o) /\ NoFault
  \/ ClaimEmpty(t)
  \/ /\ CompleteCommit(t) \/ DeleteCommit(t) \/ CompleteRollsBack(t) \/ RuntimeCommit(t)
     /\ NoFault
     /\ UNCHANGED agentVars

ReportIsServed ==
  /\ \E m \in reports : CompleteRefused(m) \/ \E t \in Txns : CompleteLoad(t, m)
  /\ NoFault
  /\ UNCHANGED agentVars

ObservationIsServed(d) ==
  /\ RuntimeSkipped(d) \/ \E t \in Txns : RuntimeLoad(t, d)
  /\ NoFault
  /\ UNCHANGED agentVars

Fairness ==
  /\ WF_vars(AgentRestarts)
  /\ WF_vars(AgentExecutes)
  /\ SF_vars(\E t \in Txns : Reconciled /\ AgentClaims(t))
  /\ \A t \in Txns : WF_vars(TransactionEnds(t))
  /\ SF_vars(ReportIsServed)
  /\ \A d \in Deployments : 
       /\ SF_vars(Answered(d) /\ AgentAsks(d))
       /\ WF_vars(AgentObserves(d))
       /\ SF_vars(ObservationIsServed(d))
  /\ WF_vars(\E o \in OpIds : ~HolderIsActive(o) /\ LeaseRunsOut(o))

FairSpec == Spec /\ Fairness

-----------------------------------------------------------------------------
(***************************************************************************)
(* Safety                                                                  *)
(***************************************************************************)

\* Rows refer to rows: a queued, running or settled operation belongs to a
\* deployment that exists (the foreign key and its ON DELETE CASCADE).
Referential ==
  \A o \in OpIds :
    IF ops[o].status \in {"unused", "purged"}
    THEN ops[o].dep = NoDeployment
    ELSE ops[o].dep \in Deployments /\ Exists(ops[o].dep)

\* A running operation always has a lease, live or run out, so a claim can
\* take it again after any loss; an operation that does not run has none.
RunningIsRecoverable ==
  \A o \in OpIds : ops[o].status = "running" <=> ops[o].lease # "none"

\* A deployment has at most one operation that is queued or running.
OneActiveOperation ==
  \A d \in Deployments : \A o, p \in ActiveOps(d) : o = p

\* The search for live leases and the lock of the claim do not look at the same
\* rows, so claims that overlap lease one operation each.  The Agent claims again
\* only when it has the answer or has given it up: each fault adds at most one
\* live lease to the one that the server may have, however claims, their
\* timeouts and the Agent's restarts overlap (claim_deployment_operation).
LeasesNeedFaults == Cardinality(LiveOps) <= 1 + faults

\* While an operation is active, the deployment's desired state is the one
\* that operation works towards: no request or report in between redirects it.
DesiredIsCurrent ==
  \A d \in Deployments : \A o \in ActiveOps(d) :
    dep[d].desired = DesiredBy(ops[o].action)

\* A deployment in a transitional status has an active operation that will
\* move it on; a queued deployment waits for its creation.
TransitionIsDriven ==
  \A d \in Deployments :
    dep[d].status \in {"queued", "starting", "stopping", "restarting", "deleting"} =>
      \E o \in ActiveOps(d) :
        IF dep[d].status = "queued"
        THEN ops[o].action = "create"
        ELSE ops[o].status = "running" /\ dep[d].status = TransitionStatus(ops[o].action)

\* A deployment row is deleted only when its container is gone for good.
NoOrphanContainer ==
  \A d \in Deployments : dep[d].status = "gone" => container[d] = "none"

\* What the Agent executes is still open at Central.
ExecutesOpenWork ==
  phase \in Executing => /\ ops[cmd.op].status = "running"
                         /\ ops[cmd.op].attempt >= cmd.attempt
                         /\ ops[cmd.op].dep = cmd.dep

\* Two running containers never share a GPU.
GpuExclusive ==
  \A d, e \in Deployments :
    d # e /\ container[d] = "running" /\ container[e] = "running" =>
      dep[d].gpus \cap dep[e].gpus = {}

\* A deleted deployment stays deleted: no transaction that read it before
\* brings it, or an operation on it, back.
GoneIsGone ==
  [][\A d \in Deployments : dep[d].status = "gone" =>
       /\ dep'[d] = dep[d]
       /\ \A o \in OpIds : ops'[o].dep # d]_vars

\* A settled operation is final: only the deletion of its deployment
\* touches it again.
SettledIsFinal ==
  [][\A o \in OpIds : ops[o].status \in {"completed", "failed"} =>
       ops'[o] = ops[o] \/ ops'[o] = PurgedOp]_vars

\* While an operation is active, the status of its deployment changes only
\* together with an operation of that deployment.
StatusMovesWithOperation ==
  [][\A d \in Deployments :
       ActiveOps(d) # {} /\ dep'[d].status # dep[d].status =>
         \E o \in OpIds : ops[o].dep = d /\ ops'[o] # ops[o]]_vars

(***************************************************************************)
(* The abstract specification: operations are leased work.                 *)
(***************************************************************************)
WorkOf(o) ==
  [state |-> IF ops[o].status = "running"
             THEN IF ops[o].lease = "live" THEN "leased" ELSE "lapsed"
             ELSE IF ops[o].status \in {"completed", "failed"} THEN "settled"
             ELSE IF ops[o].status = "purged" THEN "removed" ELSE ops[o].status,
   claim |-> ops[o].attempt]
ClaimOf(c) == [item |-> c.op, claim |-> c.attempt]
WorkHeld == IF phase \in Executing THEN ClaimOf(cmd) ELSE [item |-> 0, claim |-> 0]
WorkAnswers ==
  {ClaimOf(m) : m \in reports}
    \cup {ClaimOf(txn[t].report) : t \in {u \in Txns : txn[u].kind = "complete"}}
Work == INSTANCE LeasedWork WITH
  Items <- OpIds, MayRequeue <- FALSE,
  work <- [o \in OpIds |-> WorkOf(o)], held <- WorkHeld, answers <- WorkAnswers

\* Operations are leased work: an operation is settled only by the report of
\* whoever executed its last claim, a report of an earlier claim changes
\* nothing, and a deletion takes only settled operations away with its own
\* (claim_deployment_operation, _verify_operation_lease and the Agent's tick).
IsLeasedWork == Work!Spec

(***************************************************************************)
(* Liveness                                                                *)
(***************************************************************************)

\* Every queued operation is settled in the end, through crashes, timeouts
\* and losses, or goes with its deployment.
OperationSettles ==
  \A o \in OpIds :
    ops[o].status = "queued" ~> ops[o].status \in {"completed", "failed", "purged"}

\* A deployment's status settles on what its container is, unless its
\* deletion was asked for.
Converged(d) ==
  Exists(d) /\ ActiveOps(d) = {} /\ dep[d].desired # "deleted" =>
    dep[d].status = MappedStatus(StateOf(d), dep[d].desired)
StatusConverges == \A d \in Deployments : <>[]Converged(d)

\* A deployment that is shown as running and is not does not stay so.
NoLastingFalseRunning ==
  \A d \in Deployments :
    dep[d].status = "running" /\ container[d] # "running" ~>
      dep[d].status # "running" \/ container[d] = "running"
=============================================================================
