-------------------------- MODULE ModelTaskSystem --------------------------
(***************************************************************************)
(* Model downloads and deletions end to end: administrators, the Central   *)
(* API, the Agent of one server and its file system.                       *)
(*                                                                         *)
(* A claim or a progress report is answered on the connection it came on,  *)
(* or never; completion reports and scans may be late or lost.  Losses,    *)
(* timeouts, crashes and stops of the process, and directories that are    *)
(* withdrawn are counted, and bounded by MaxFaults.                        *)
(***************************************************************************)
EXTENDS ModelTaskCentral, ModelTaskAgent

CONSTANT MaxFaults  \* bound: what may go wrong in a behaviour

ASSUME MaxFaultsAssumption == MaxFaults \in Nat

VARIABLE faults

rowVars == <<tasks, file, deployed>>
vars == <<rowVars, disk, reports, seen, txn, agentVars, faults>>

TypeOK == BaseTypeOK /\ CentralTypeOK /\ AgentTypeOK /\ faults \in 0 .. MaxFaults

Init == BaseInit /\ CentralInit /\ AgentInit /\ faults = 0

NoFault == UNCHANGED faults
Fault == faults < MaxFaults /\ faults' = faults + 1

Administer ==
  /\ \/ \E x \in Txns :
          \/ \E t \in Targets : DownloadLoad(x, t) \/ DeleteLoad(x, t) \/ DeployLoad(x, t)
          \/ \E i \in TaskIds : CancelLoad(x, i) \/ RetryLoad(x, i) \/ TaskCommit(x, i)
          \/ DeployCommit(x) \/ CancelCommit(x) \/ RetryCommit(x) \/ RequestEnds(x)
     \/ \E t \in Targets : Undeploy(t)
  /\ NoFault
  /\ UNCHANGED agentVars

(***************************************************************************)
(* Claims                                                                  *)
(***************************************************************************)
CommandFor(i) == [task |-> i, attempt |-> tasks[i].attempt + 1, kind |-> tasks[i].kind,
                  target |-> tasks[i].target, asked |-> tasks[i].asked]

\* A scan that is still on its way when a heartbeat is answered belongs to an
\* earlier one, which was given up.
AgentPolls ==
  /\ HeartbeatAnswered
  /\ IF \A t \in Targets : seen[t] = "nothing" THEN NoFault ELSE Fault
  /\ UNCHANGED <<rowVars, disk, reports, seen, txn>>

AgentClaims(x) == BeginClaim /\ ClaimLoad(x) /\ NoFault

ClaimAnswered(x, i) ==
  /\ txn[x].kind = "claim" /\ txn[x].heard
  /\ ClaimCommit(x, i)
  /\ ReceiveCommand(CommandFor(i))
  /\ NoFault

\* The task is leased and nobody knows the token.
ClaimUnheard(x, i) ==
  /\ ClaimCommit(x, i)
  /\ IF txn[x].heard THEN ClaimIsOver /\ Fault ELSE UNCHANGED agentVars /\ NoFault

ClaimEmpty(x) ==
  /\ \/ ClaimFindsNothing(x) /\ NoFault
     \/ \E i \in TaskIds : ClaimFails(x, i) /\ Fault
  /\ IF txn[x].heard THEN ClaimIsOver ELSE UNCHANGED agentVars

Claiming ==
  \E x \in Txns :
    \/ AgentClaims(x)
    \/ \E i \in TaskIds : ClaimAnswered(x, i) \/ ClaimUnheard(x, i)
    \/ ClaimEmpty(x)

\* No transaction has the Agent waiting for its answer any more.
Deafened == [x \in Txns |-> IF txn[x].kind = "claim" THEN [txn[x] EXCEPT !.heard = FALSE]
                                                     ELSE txn[x]]

\* The Agent's request times out while Central still works on it.
ClaimTimesOut ==
  /\ ClaimIsOver
  /\ txn' = Deafened
  /\ Fault
  /\ UNCHANGED <<rowVars, disk, reports, seen>>

(***************************************************************************)
(* Progress.  Central's half of a progress report is one step here: it     *)
(* reads and writes nothing that another transaction relies on in between. *)
(***************************************************************************)
Fetching == phase \in Executing /\ cmd.kind = "download"

ReportsProgress ==
  /\ Fetching
  /\ IF TakesProgress(cmd.task, cmd.attempt, progress)
     THEN \/ Progress(cmd.task, progress) /\ ProgressTaken(tasks[cmd.task].asked) /\ NoFault
          \/ Progress(cmd.task, progress) /\ ProgressFailed /\ Fault
     ELSE /\ ProgressFailed
          /\ NoFault
          /\ UNCHANGED <<rowVars, disk, reports, seen, txn>>

ProgressLost ==
  /\ Fetching
  /\ ProgressFailed
  /\ Fault
  /\ UNCHANGED <<rowVars, disk, reports, seen, txn>>

(***************************************************************************)
(* The Agent process and its messages                                      *)
(***************************************************************************)
AgentDisturbed ==
  /\ \/ Crash /\ txn' = Deafened /\ UNCHANGED reports
     \/ Stop /\ UNCHANGED <<txn, reports, disk>>
     \/ DeleteBreaksOff /\ UNCHANGED txn
  /\ Fault
  /\ UNCHANGED <<rowVars, seen>>

\* What the process does, or has done to it, in each of its phases.
AgentProceeds ==
  /\ \/ Execute
     \/ (Stopped \/ Restart) /\ UNCHANGED <<rowVars, disk, reports, seen>>
  /\ NoFault
  /\ UNCHANGED txn

AgentScans(t) == Scan(t) /\ NoFault /\ UNCHANGED txn

MessageLost ==
  /\ \/ \E m \in reports : reports' = reports \ {m} /\ UNCHANGED seen
     \/ \E t \in Targets : /\ seen[t] # "nothing"
                           /\ seen' = [seen EXCEPT ![t] = "nothing"]
                           /\ UNCHANGED reports
  /\ Fault
  /\ UNCHANGED <<rowVars, disk, txn, agentVars>>

(***************************************************************************)
(* Time.  The lease of a download is renewed by its progress, and a report *)
(* is served within seconds: only a fault lets the lease run out then.     *)
(* Nothing renews the lease of a deletion; one that takes longer than its  *)
(* lease counts as a fault as well.                                        *)
(***************************************************************************)
InHand(i) ==
  \/ phase \in Executing /\ cmd.task = i /\ cmd.attempt = tasks[i].attempt
  \/ \E m \in reports : m.task = i /\ m.attempt = tasks[i].attempt
  \/ \E x \in Txns : /\ txn[x].kind = "complete"
                     /\ txn[x].report.task = i
                     /\ txn[x].report.attempt = tasks[i].attempt

LeaseRunsOut(i) ==
  /\ LeaseExpires(i)
  /\ IF InHand(i) THEN Fault ELSE NoFault
  /\ UNCHANGED agentVars

Reported ==
  /\ \/ \E m \in reports : CompleteRefused(m) \/ \E x \in Txns : CompleteLoad(x, m)
     \/ \E x \in Txns : CompleteCommit(x)
     \/ \E t \in Targets : ScanApplied(t)
  /\ NoFault
  /\ UNCHANGED agentVars

Next ==
  \/ Administer
  \/ AgentPolls
  \/ Claiming
  \/ ClaimTimesOut
  \/ ReportsProgress
  \/ ProgressLost
  \/ AgentDisturbed
  \/ AgentProceeds
  \/ \E t \in Targets : AgentScans(t)
  \/ MessageLost
  \/ \E i \in TaskIds : LeaseRunsOut(i)
  \/ Reported

Spec == Init /\ [][Next]_vars

(***************************************************************************)
(* Fairness.  The Agent polls and executes for as long as it runs and is   *)
(* restarted; Central ends what it began and serves every report in the    *)
(* end (a request waits for a free slot only in the model, hence strong    *)
(* fairness there); time passes.  Heartbeats are answered; administrators  *)
(* need not do anything.                                                   *)
(***************************************************************************)
TransactionEnds(x) ==
  \/ RequestEnds(x) /\ NoFault /\ UNCHANGED agentVars
  \/ \E i \in TaskIds : ClaimAnswered(x, i)
  \/ \E i \in TaskIds : ClaimUnheard(x, i) /\ NoFault
  \/ ClaimEmpty(x) /\ NoFault
  \/ CompleteCommit(x) /\ NoFault /\ UNCHANGED agentVars

ReportIsServed ==
  /\ \E m \in reports : CompleteRefused(m) \/ \E x \in Txns : CompleteLoad(x, m)
  /\ NoFault
  /\ UNCHANGED agentVars

HeartbeatIsAnswered ==
  /\ \E t \in Targets : ScanApplied(t)
  /\ NoFault
  /\ UNCHANGED agentVars

Fairness ==
  /\ WF_vars(AgentProceeds)
  /\ SF_vars(AgentPolls /\ NoFault)
  /\ SF_vars(\E x \in Txns : AgentClaims(x))
  /\ \A x \in Txns : WF_vars(TransactionEnds(x))
  /\ SF_vars(ReportIsServed)
  /\ WF_vars(HeartbeatIsAnswered)
  /\ WF_vars(\E i \in TaskIds : ~InHand(i) /\ LeaseRunsOut(i))

FairSpec == Spec /\ Fairness

-----------------------------------------------------------------------------
(***************************************************************************)
(* Safety                                                                  *)
(***************************************************************************)

\* While Central serves one request at a time, at most one task of the server,
\* download or deletion, holds a live lease (claim_agent_task).
OneTaskLeased == \A i, j \in LeasedTasks : i = j

\* The files of a deployed model are not being deleted: PHASE_5_MODEL_DOWNLOAD.md
\* has Central reject that (create_delete_task, create_deployment).
DeployedIsNotDeleted == \A t \in Targets : deployed[t] => ActiveDeletes(t) = {}

\* A task is completed only while it is true: a download when its manifest is
\* in place, a deletion when nothing is left.
CompletionIsTrue ==
  [][\A i \in TaskIds :
       tasks[i].status # "completed" /\ tasks'[i].status = "completed" =>
         IF tasks[i].kind = "download"
         THEN HasManifest(tasks[i].target)
         ELSE disk[tasks[i].target] = "none"]_vars

(***************************************************************************)
(* The abstract specification: tasks are leased work.                      *)
(***************************************************************************)
WorkOf(i) ==
  [state |-> IF i \in HandedOut THEN IF i \in LeasedTasks THEN "leased" ELSE "lapsed"
             ELSE IF tasks[i].status \in {"completed", "failed", "cancelled"} THEN "settled"
             ELSE tasks[i].status,
   claim |-> tasks[i].attempt]
ClaimOf(c) == [item |-> c.task, claim |-> c.attempt]
WorkHeld == IF phase \in Executing THEN ClaimOf(cmd) ELSE [item |-> 0, claim |-> 0]
WorkAnswers ==
  {ClaimOf(m) : m \in reports}
    \cup {ClaimOf(txn[x].report) : x \in {y \in Txns : txn[y].kind = "complete"}}
Work == INSTANCE LeasedWork WITH
  Items <- TaskIds, MayRequeue <- TRUE,
  work <- [i \in TaskIds |-> WorkOf(i)], held <- WorkHeld, answers <- WorkAnswers

\* Tasks are leased work: a task that was handed out is settled only by the
\* report of whoever executed its last claim, and a retried download cannot be
\* settled by a report of its earlier life (claim_model_task, _verify_lease and
\* the Agent's tick).
IsLeasedWork == Work!Spec

(***************************************************************************)
(* Liveness                                                                *)
(***************************************************************************)

\* A task that was accepted is settled in the end, through crashes, timeouts
\* and losses: by its outcome, or by the cancellation that was asked for.
TaskSettles ==
  \A i \in TaskIds :
    tasks[i].status = "queued" \/ i \in HandedOut ~>
      tasks[i].status \in {"completed", "failed", "cancelled"}
=============================================================================
