-------------------------- MODULE DeploymentProofs --------------------------
(***************************************************************************)
(* Theorems about DeploymentSystem, for every set of deployments and GPUs, *)
(* any number of overlapping transactions and any bounds.                  *)
(***************************************************************************)
EXTENDS DeploymentSystem, FiniteSetTheorems, TLAPS

(***************************************************************************)
(* The inductive invariant.  Types alone are not inductive: a claim hands  *)
(* the Agent the deployment and the action of an operation row, so the row *)
(* must refer to a deployment (Referential) and name an action; and what a *)
(* transaction read must not have been taken from under it.                *)
(***************************************************************************)
OperationsNameActions ==
  \A o \in OpIds : ops[o].status \notin {"unused", "purged"} => ops[o].action \in Actions

ExecutingHasCommand == phase \in Executing => cmd \in Command

\* A creation under way is the only one of its deployment, which has no row.
CreationIsFresh ==
  \A t \in Txns : txn[t].kind = "create" =>
    /\ dep[txn[t].dep].status = "absent"
    /\ \A u \in Txns : txn[u].kind = "create" /\ txn[u].dep = txn[t].dep => u = t

\* A completion settles an operation of the deployment it loaded, unless
\* another transaction has deleted both.
CompletionIsOfDeployment ==
  \A t \in Txns : txn[t].kind = "complete" =>
    \/ ops[txn[t].report.op].dep = txn[t].dep
    \/ dep[txn[t].dep].status = "gone"

Inv ==
  /\ TypeOK
  /\ Referential
  /\ RunningIsRecoverable
  /\ OperationsNameActions
  /\ ExecutingHasCommand
  /\ CreationIsFresh
  /\ CompletionIsOfDeployment

-----------------------------------------------------------------------------
(* What the operators on statuses return. *)

\* A delta write stores the loaded, the new or the current value, so it stays
\* in any set that holds the last two.
LEMMA StoredType ==
  ASSUME NEW S, NEW loaded, NEW new \in S, NEW current \in S
  PROVE  Stored(loaded, new, current) \in S
  BY DEF Stored

\* A claim puts a deployment in a status of a row.
LEMMA TransitionType ==
  ASSUME NEW a
  PROVE  TransitionStatus(a) \in RowStatuses
  BY DEF TransitionStatus, RowStatuses

\* A settled operation leaves a status of a row, or deletes the row.
LEMMA SettledType ==
  ASSUME NEW a, NEW outcome
  PROVE  SettledStatus(a, outcome) \in RowStatuses \cup {"gone"}
  BY DEF SettledStatus, RowStatuses

\* What is asked of a deployment is a desired state.
LEMMA DesiredType ==
  ASSUME NEW a
  PROVE  DesiredBy(a) \in DesiredStates
  BY DEF DesiredBy, DesiredStates

\* Every observation maps to a status of a row.
LEMMA MappedType ==
  ASSUME NEW s \in ObservedStates, NEW desired
  PROVE  MappedStatus(s, desired) \in RowStatuses
  BY DEF MappedStatus, ObservedStates, RowStatuses

-----------------------------------------------------------------------------
(* Steps of one transaction. *)

\* Only the members of TxnStates with a kind have its fields.
LEMMA KindsOfTxn ==
  ASSUME NEW x \in TxnStates
  PROVE  /\ x.kind = "create" => x \in CreateTxn
         /\ x.kind = "loaded" => x \in LoadedTxn
         /\ x.kind = "checked" => x \in CheckedTxn
         /\ x.kind = "claim" => x \in ClaimTxn
         /\ x.kind = "complete" => x \in CompleteTxn
         /\ x.kind = "runtime" => x \in RuntimeTxn
  BY DEF TxnStates, NoTxn, CreateTxn, LoadedTxn, CheckedTxn, ClaimTxn, CompleteTxn, RuntimeTxn

\* Beginning a transaction of a known kind keeps the type.
LEMMA BeginType ==
  ASSUME CentralTypeOK, NEW t \in Txns, NEW x \in TxnStates, Begin(t, x)
  PROVE  CentralTypeOK'
  BY DEF CentralTypeOK, Begin

LEMMA EndType ==
  ASSUME CentralTypeOK, NEW t \in Txns, End(t)
  PROVE  CentralTypeOK'
  BY DEF CentralTypeOK, End, TxnStates

\* The end of a transaction leaves the others what they were.
LEMMA EndOthers ==
  ASSUME CentralTypeOK, NEW t \in Txns, End(t), NEW u \in Txns
  PROVE  /\ txn'[u] \in {txn[u], NoTxn}
         /\ txn'[u].kind # "idle" => txn'[u] = txn[u] /\ u # t
  BY DEF CentralTypeOK, End, NoTxn

-----------------------------------------------------------------------------
(* The initial states. *)

LEMMA InitInv == Init => Inv
  <1> SUFFICES ASSUME Init PROVE Inv
    OBVIOUS
  <1> USE DEF Init, BaseInit, CentralInit, AgentInit
  <1>1. TypeOK
    BY MaxFaultsAssumption DEF TypeOK, BaseTypeOK, CentralTypeOK, AgentTypeOK, DepRow,
       DepStatuses, DesiredStates, OpRow, OpStatuses, Leases, NoOp, TxnStates, NoTxn,
       Phases, NoCmd, ContainerStates
  <1>2. Referential /\ RunningIsRecoverable /\ OperationsNameActions
    BY DEF Referential, RunningIsRecoverable, OperationsNameActions, NoOp
  <1>3. ExecutingHasCommand /\ CreationIsFresh /\ CompletionIsOfDeployment
    BY DEF ExecutingHasCommand, Executing, CreationIsFresh, CompletionIsOfDeployment, NoTxn
  <1> QED
    BY <1>1, <1>2, <1>3 DEF Inv

-----------------------------------------------------------------------------
(* Steps that leave rows and transactions alone. *)

LEMMA RowsKept ==
  ASSUME Inv, UNCHANGED <<dep, ops, txn>>
  PROVE  /\ Referential' /\ RunningIsRecoverable' /\ OperationsNameActions'
         /\ CreationIsFresh' /\ CompletionIsOfDeployment'
  BY DEF Inv, Referential, RunningIsRecoverable, OperationsNameActions, CreationIsFresh,
     CompletionIsOfDeployment, Exists

\* The Agent reports on the command it executes.
LEMMA FinishType ==
  ASSUME Inv, phase \in Executing, NEW outcome \in Outcomes, NEW state \in ObservedStates,
         Finish(outcome, state)
  PROVE  /\ reports' \subseteq Report
         /\ phase' = "idle" /\ cmd' = NoCmd
  <1>1. cmd \in Command
    BY DEF Inv, ExecutingHasCommand
  <1>2. [op |-> cmd.op, attempt |-> cmd.attempt, outcome |-> outcome, state |-> state] \in Report
    BY <1>1 DEF Command, Report
  <1> QED
    BY <1>2 DEF Finish, Inv, TypeOK, BaseTypeOK

\* The calls of an executing thread.
LEMMA ExecuteInv ==
  ASSUME Inv, AgentExecutes
  PROVE  Inv'
  <1> USE DEF Inv, AgentExecutes
  <1>1. Referential' /\ RunningIsRecoverable' /\ OperationsNameActions'
        /\ CreationIsFresh' /\ CompletionIsOfDeployment'
    BY RowsKept DEF Execute
  <1>2. dep' = dep /\ ops' = ops /\ txn' = txn /\ faults' = faults /\ observed' = observed
    BY DEF Execute, NoFault, NothingToDo, CreateContainer, FirstCall, StartContainer,
       StopContainer, RemoveContainer, CallRefused, CallFails
  <1>3. container' \in [Deployments -> ContainerStates]
    BY DEF Execute, NothingToDo, CreateContainer, FirstCall, StartContainer,
       StopContainer, RemoveContainer, CallRefused, CallFails, TypeOK, AgentTypeOK,
       ContainerStates
  <1>4. /\ reports' \subseteq Report
        /\ \/ phase' = "idle" /\ cmd' = NoCmd
           \/ phase' \in Executing /\ cmd' = cmd /\ phase \in Executing
    <2>1. CASE NothingToDo
      BY <2>1, FinishType DEF NothingToDo, Executing, Outcomes, ObservedStates
    <2>2. CASE CreateContainer \/ FirstCall
      BY <2>2 DEF CreateContainer, FirstCall, Executing, TypeOK, BaseTypeOK
    <2>3. CASE StartContainer
      BY <2>3, FinishType DEF StartContainer, Executing, Outcomes, ObservedStates
    <2>4. CASE StopContainer
      BY <2>4, FinishType DEF StopContainer, Executing, Outcomes, ObservedStates, TypeOK, BaseTypeOK
    <2>5. CASE RemoveContainer
      BY <2>5, FinishType DEF RemoveContainer, Executing, Outcomes, ObservedStates
    <2>6. CASE CallRefused \/ CallFails
      BY <2>6, FinishType DEF CallRefused, CallFails, Executing, Outcomes, ObservedStates
    <2> QED
      BY <2>1, <2>2, <2>3, <2>4, <2>5, <2>6 DEF Execute
  <1>5. TypeOK'
    BY <1>2, <1>3, <1>4 DEF TypeOK, BaseTypeOK, CentralTypeOK, AgentTypeOK, Phases, Executing
  <1>6. ExecutingHasCommand'
    BY <1>4 DEF ExecutingHasCommand, Executing
  <1> QED
    BY <1>1, <1>5, <1>6

\* Restarts, reconciliation, exits, losses and refused reports.
LEMMA QuietInv ==
  ASSUME Inv,
         \/ AgentRestarts \/ MessageLost
         \/ \E d \in Deployments : AgentAsks(d) \/ AgentObserves(d) \/ Exit(d)
         \/ \E d \in Deployments : RuntimeSkipped(d) /\ NoFault /\ UNCHANGED agentVars
         \/ \E m \in reports : CompleteRefused(m) /\ NoFault /\ UNCHANGED agentVars
  PROVE  Inv'
  <1> USE DEF Inv, agentVars, NoFault, Fault
  <1>1. UNCHANGED <<dep, ops, txn>>
    BY DEF AgentRestarts, MessageLost, AgentAsks, AgentObserves, Exit, Ask, Observe,
       RuntimeSkipped, CompleteRefused
  <1>2. Referential' /\ RunningIsRecoverable' /\ OperationsNameActions'
        /\ CreationIsFresh' /\ CompletionIsOfDeployment'
    BY <1>1, RowsKept
  <1>3. reports' \subseteq Report
    BY DEF TypeOK, BaseTypeOK, AgentRestarts, Restart, MessageLost, AgentAsks, AgentObserves,
       Exit, Ask, Observe, RuntimeSkipped, CompleteRefused
  <1>4. observed' \in [Deployments -> ObservedStates \cup {"nothing", "asked"}]
    BY DEF TypeOK, BaseTypeOK, AgentTypeOK, AgentRestarts, Restart, MessageLost, AgentAsks,
       AgentObserves, Exit, Ask, Observe, StateOf, ContainerStates, ObservedStates,
       RuntimeSkipped, CompleteRefused
  <1>5. container' \in [Deployments -> ContainerStates]
    BY DEF TypeOK, AgentTypeOK, AgentRestarts, Restart, MessageLost, AgentAsks, AgentObserves,
       Exit, ContainerExits, ContainerStates, Ask, Observe, RuntimeSkipped, CompleteRefused
  <1>6. phase' \in {phase, "idle"} /\ cmd' = cmd /\ faults' \in 0 .. MaxFaults
    BY MaxFaultsAssumption DEF TypeOK, AgentRestarts, Restart, MessageLost, AgentAsks,
       AgentObserves, Exit, ContainerExits, Ask, Observe, RuntimeSkipped, CompleteRefused
  <1>7. TypeOK'
    BY <1>1, <1>3, <1>4, <1>5, <1>6
       DEF TypeOK, BaseTypeOK, CentralTypeOK, AgentTypeOK, Phases
  <1>8. ExecutingHasCommand'
    BY <1>6 DEF ExecutingHasCommand, Executing
  <1> QED
    BY <1>2, <1>7, <1>8

\* When the Agent stops listening, the claims under way lose their hearer.
LEMMA DeafenedInv ==
  ASSUME Inv, ClaimTimesOut \/ AgentCrashes
  PROVE  Inv'
  <1> USE DEF Inv, ClaimTimesOut, AgentCrashes
  <1>1. UNCHANGED <<dep, ops, reports, container>> /\ txn' = Deafened
        /\ faults' \in 0 .. MaxFaults
    BY MaxFaultsAssumption DEF ClaimIsOver, Crash, Fault, TypeOK
  <1>2. phase' \in {"idle", "down"} /\ cmd' \in {cmd, NoCmd}
        /\ observed' \in [Deployments -> ObservedStates \cup {"nothing", "asked"}]
    BY DEF ClaimIsOver, Crash, TypeOK, BaseTypeOK
  <1>3. \A t \in Txns : /\ txn'[t] \in TxnStates
                        /\ txn'[t].kind = txn[t].kind
                        /\ txn[t].kind # "claim" => txn'[t] = txn[t]
    <2> SUFFICES ASSUME NEW t \in Txns
                 PROVE  /\ txn'[t] \in TxnStates
                        /\ txn'[t].kind = txn[t].kind
                        /\ txn[t].kind # "claim" => txn'[t] = txn[t]
      OBVIOUS
    <2>1. txn[t] \in TxnStates
      BY DEF TypeOK, CentralTypeOK
    <2>2. CASE txn[t].kind = "claim"
      <3>1. txn[t] \in ClaimTxn
        BY <2>1, <2>2, KindsOfTxn
      <3>2. txn'[t] = [txn[t] EXCEPT !.heard = FALSE]
        BY <1>1, <2>2 DEF Deafened
      <3> QED
        BY <2>2, <3>1, <3>2 DEF ClaimTxn, TxnStates
    <2>3. CASE txn[t].kind # "claim"
      BY <1>1, <2>1, <2>3 DEF Deafened
    <2> QED
      BY <2>2, <2>3
  <1>4. TypeOK'
    BY <1>1, <1>2, <1>3 DEF TypeOK, BaseTypeOK, CentralTypeOK, AgentTypeOK, Deafened, Phases
  <1>5. Referential' /\ RunningIsRecoverable' /\ OperationsNameActions'
    BY <1>1 DEF Referential, RunningIsRecoverable, OperationsNameActions, Exists
  <1>6. ExecutingHasCommand'
    BY <1>2 DEF ExecutingHasCommand, Executing
  <1>7. CreationIsFresh' /\ CompletionIsOfDeployment'
    BY <1>1, <1>3 DEF CreationIsFresh, CompletionIsOfDeployment
  <1> QED
    BY <1>4, <1>5, <1>6, <1>7

\* A lease runs out: only the lease column changes.
LEMMA LeaseInv ==
  ASSUME Inv, NEW o \in OpIds, LeaseRunsOut(o)
  PROVE  Inv'
  <1> USE DEF Inv, LeaseRunsOut, LeaseExpires, agentVars
  <1>1. /\ ops' = [ops EXCEPT ![o].lease = "expired"]
        /\ ops[o] \in OpRow /\ ops[o].lease = "live"
        /\ UNCHANGED <<dep, reports, observed, txn, phase, cmd, container>>
        /\ faults' \in 0 .. MaxFaults
    BY MaxFaultsAssumption DEF TypeOK, BaseTypeOK, NoFault, Fault
  <1>2. ops' \in [OpIds -> OpRow]
    BY <1>1 DEF TypeOK, BaseTypeOK, OpRow, Leases
  <1>3. TypeOK'
    BY <1>1, <1>2 DEF TypeOK, BaseTypeOK, CentralTypeOK, AgentTypeOK
  <1>4. \A p \in OpIds : /\ ops'[p].status = ops[p].status
                         /\ ops'[p].dep = ops[p].dep
                         /\ ops'[p].action = ops[p].action
                         /\ ops'[p].lease = "none" <=> ops[p].lease = "none"
    BY <1>1 DEF TypeOK, BaseTypeOK, OpRow
  <1>5. Referential' /\ OperationsNameActions' /\ RunningIsRecoverable'
    BY <1>1, <1>4 DEF Referential, OperationsNameActions, RunningIsRecoverable, Exists
  <1>6. ExecutingHasCommand' /\ CreationIsFresh'
    BY <1>1 DEF ExecutingHasCommand, CreationIsFresh
  <1>7. CompletionIsOfDeployment'
    <2> SUFFICES ASSUME NEW t \in Txns, txn[t].kind = "complete"
                 PROVE  \/ ops'[txn[t].report.op].dep = txn[t].dep
                        \/ dep[txn[t].dep].status = "gone"
      BY <1>1 DEF CompletionIsOfDeployment
    <2>1. txn[t].report.op \in OpIds
      BY KindsOfTxn DEF TypeOK, CentralTypeOK, CompleteTxn, Report
    <2> QED
      BY <2>1, <1>4 DEF CompletionIsOfDeployment
  <1> QED
    BY <1>3, <1>5, <1>6, <1>7

-----------------------------------------------------------------------------
(* Steps in which a transaction reads. *)

\* A transaction that changes no row keeps what is said of rows.
LEMMA RowsRead ==
  ASSUME Inv, UNCHANGED <<dep, ops>>
  PROVE  Referential' /\ RunningIsRecoverable' /\ OperationsNameActions'
  BY DEF Inv, Referential, RunningIsRecoverable, OperationsNameActions, Exists

\* Beginning any transaction but a creation or a completion.
LEMMA BeginOthers ==
  ASSUME Inv, UNCHANGED <<dep, ops>>, NEW t \in Txns, NEW x \in TxnStates,
         x.kind \notin {"create", "complete"}, txn' = [txn EXCEPT ![t] = x]
  PROVE  CreationIsFresh' /\ CompletionIsOfDeployment'
  BY DEF Inv, TypeOK, CentralTypeOK, CreationIsFresh, CompletionIsOfDeployment

\* The end of a transaction that changes no row.
LEMMA EndKeeps ==
  ASSUME Inv, UNCHANGED <<dep, ops>>, NEW t \in Txns, End(t)
  PROVE  CreationIsFresh' /\ CompletionIsOfDeployment'
  <1>1. NoTxn \in TxnStates /\ NoTxn.kind = "idle"
    BY DEF TxnStates, NoTxn
  <1> QED
    BY <1>1, BeginOthers DEF End

LEMMA CreateLoadInv ==
  ASSUME Inv, NEW t \in Txns, NEW d \in Deployments, NEW gs \in SUBSET Gpus,
         CreateLoad(t, d, gs), NoFault, UNCHANGED agentVars
  PROVE  Inv'
  <1> USE DEF Inv, CreateLoad, NoFault, agentVars
  <1> DEFINE x == [kind |-> "create", dep |-> d, gpus |-> gs]
  <1>1. x \in TxnStates
    BY DEF TxnStates, CreateTxn
  <1>2. TypeOK'
    BY <1>1, BeginType DEF TypeOK, BaseTypeOK, AgentTypeOK
  <1>3. CreationIsFresh'
    <2>1. \A u \in Txns : txn'[u] = IF u = t THEN x ELSE txn[u]
      BY DEF Begin, TypeOK, CentralTypeOK
    <2> QED
      BY <2>1 DEF CreationIsFresh, Begin, NoTxn
  <1>4. CompletionIsOfDeployment'
    BY DEF CompletionIsOfDeployment, Begin, TypeOK, CentralTypeOK
  <1> QED
    BY <1>2, <1>3, <1>4, RowsRead DEF ExecutingHasCommand

LEMMA RequestLoadInv ==
  ASSUME Inv, NEW t \in Txns, NEW d \in Deployments, NEW a \in AdminActions,
         RequestLoad(t, d, a), NoFault, UNCHANGED agentVars
  PROVE  Inv'
  <1> USE DEF Inv, RequestLoad, NoFault, agentVars
  <1> DEFINE x == [kind |-> "loaded", dep |-> d, action |-> a,
                   status |-> dep[d].status, desired |-> dep[d].desired]
  <1>1. x \in LoadedTxn /\ x.kind = "loaded"
    BY AdminActionsAssumption DEF LoadedTxn, Exists, TypeOK, BaseTypeOK, DepRow
  <1>2. x \in TxnStates
    BY <1>1 DEF TxnStates
  <1>3. TypeOK'
    BY <1>2, BeginType DEF TypeOK, BaseTypeOK, AgentTypeOK
  <1>4. CreationIsFresh' /\ CompletionIsOfDeployment'
    BY <1>1, <1>2, BeginOthers DEF Begin
  <1> QED
    BY <1>3, <1>4, RowsRead DEF ExecutingHasCommand

LEMMA RequestCheckInv ==
  ASSUME Inv, NEW t \in Txns, NEW a \in Actions,
         RequestCheck(t, a), NoFault, UNCHANGED agentVars
  PROVE  Inv'
  <1> USE DEF Inv, RequestCheck, NoFault, agentVars
  <1> DEFINE x == [txn[t] EXCEPT !.kind = "checked", !.action = a]
  <1>1. txn[t] \in LoadedTxn
    BY KindsOfTxn DEF TypeOK, CentralTypeOK
  <1>2. x \in CheckedTxn /\ x.kind = "checked"
    BY <1>1 DEF LoadedTxn, CheckedTxn
  <1>3. x \in TxnStates /\ txn' = [txn EXCEPT ![t] = x]
    BY <1>2 DEF TxnStates
  <1>4. TypeOK'
    BY <1>3 DEF TypeOK, BaseTypeOK, AgentTypeOK, CentralTypeOK
  <1>5. CreationIsFresh' /\ CompletionIsOfDeployment'
    BY <1>2, <1>3, BeginOthers
  <1> QED
    BY <1>4, <1>5, RowsRead DEF ExecutingHasCommand

\* A claim begins and the Agent waits for its answer.
LEMMA AgentClaimsInv ==
  ASSUME Inv, NEW t \in Txns, AgentClaims(t)
  PROVE  Inv'
  <1> USE DEF Inv, AgentClaims, ClaimLoad, BeginClaim
  <1> DEFINE x == [kind |-> "claim", heard |-> TRUE]
  <1>1. x \in TxnStates /\ x.kind = "claim"
    BY DEF TxnStates, ClaimTxn
  <1>2. faults' \in 0 .. MaxFaults
    BY MaxFaultsAssumption DEF NoFault, Fault, TypeOK
  <1>3. TypeOK'
    BY <1>1, <1>2, BeginType DEF TypeOK, BaseTypeOK, AgentTypeOK, Phases
  <1>4. CreationIsFresh' /\ CompletionIsOfDeployment'
    BY <1>1, BeginOthers DEF Begin
  <1>5. ExecutingHasCommand'
    BY DEF ExecutingHasCommand, Executing
  <1> QED
    BY <1>3, <1>4, <1>5, RowsRead

\* A transaction ends and nothing has changed.
LEMMA NothingDoneInv ==
  ASSUME Inv, NEW t \in Txns,
         \/ RequestEnds(t) /\ NoFault /\ UNCHANGED agentVars
         \/ CompleteRollsBack(t) /\ NoFault /\ UNCHANGED agentVars
         \/ ClaimEmpty(t)
  PROVE  Inv'
  <1> USE DEF Inv, RequestEnds, CompleteRollsBack, ClaimEmpty, ClaimFindsNothing,
              ClaimIsOver, NoFault, agentVars
  <1>1. End(t) /\ UNCHANGED <<dep, ops, reports, observed, cmd, container, faults>>
        /\ phase' \in {phase, "idle"}
    OBVIOUS
  <1>2. TypeOK'
    BY <1>1, EndType DEF TypeOK, BaseTypeOK, AgentTypeOK, Phases
  <1>3. CreationIsFresh' /\ CompletionIsOfDeployment'
    BY <1>1, EndKeeps
  <1>4. ExecutingHasCommand'
    BY <1>1 DEF ExecutingHasCommand, Executing
  <1> QED
    BY <1>1, <1>2, <1>3, <1>4, RowsRead

\* A completion loads its operation and the deployment of it.
LEMMA CompleteLoadInv ==
  ASSUME Inv, NEW t \in Txns, NEW m \in reports,
         CompleteLoad(t, m), NoFault, UNCHANGED agentVars
  PROVE  Inv'
  <1> USE DEF Inv, CompleteLoad, NoFault, agentVars
  <1> DEFINE d == ops[m.op].dep
             x == [kind |-> "complete", report |-> m, dep |-> d,
                   status |-> dep[d].status, desired |-> dep[d].desired]
  <1>1. m \in Report /\ m.op \in OpIds
    BY DEF TypeOK, BaseTypeOK, Report
  <1>2. d \in Deployments /\ Exists(d)
    BY <1>1 DEF LeaseHeldBy, Referential
  <1>3. x \in TxnStates
    BY <1>1, <1>2 DEF TxnStates, CompleteTxn, Exists, TypeOK, BaseTypeOK, DepRow
  <1>4. TypeOK'
    BY <1>3, BeginType DEF TypeOK, BaseTypeOK, AgentTypeOK
  <1>5. \A u \in Txns : txn'[u] = IF u = t THEN x ELSE txn[u]
    BY DEF Begin, TypeOK, CentralTypeOK
  <1>6. CreationIsFresh' /\ CompletionIsOfDeployment'
    BY <1>5 DEF CreationIsFresh, CompletionIsOfDeployment
  <1> QED
    BY <1>4, <1>6, RowsRead DEF ExecutingHasCommand

LEMMA RuntimeLoadInv ==
  ASSUME Inv, NEW t \in Txns, NEW d \in Deployments,
         RuntimeLoad(t, d), NoFault, UNCHANGED agentVars
  PROVE  Inv'
  <1> USE DEF Inv, RuntimeLoad, NoFault, agentVars
  <1> DEFINE x == [kind |-> "runtime", dep |-> d, status |-> dep[d].status,
                   mapped |-> RuntimeStatus(d)]
  <1>1. RuntimeStatus(d) \in RowStatuses /\ dep[d].status \in RowStatuses
    BY MappedType DEF RuntimeStatus, Exists
  <1>2. x \in TxnStates /\ x.kind = "runtime"
    BY <1>1 DEF TxnStates, RuntimeTxn
  <1>3. TypeOK'
    BY <1>2, BeginType DEF TypeOK, BaseTypeOK, AgentTypeOK
  <1>4. CreationIsFresh' /\ CompletionIsOfDeployment'
    BY <1>2, BeginOthers DEF Begin
  <1> QED
    BY <1>3, <1>4, RowsRead DEF ExecutingHasCommand

-----------------------------------------------------------------------------
(* Steps in which a transaction writes and commits. *)

\* A commit that keeps rows where they are, or removes them, disturbs no
\* transaction but its own: absent deployments stay absent, deleted ones stay
\* deleted, and operations keep their deployment until it is deleted.
LEMMA CommitOthers ==
  ASSUME Inv, NEW t \in Txns, End(t),
         \A d \in Deployments :
           /\ dep[d].status = "absent" =>
                \/ dep'[d].status = "absent"
                \/ txn[t].kind = "create" /\ txn[t].dep = d
           /\ dep[d].status = "gone" => dep'[d].status = "gone",
         \A o \in OpIds : ops[o].dep \in Deployments =>
           \/ ops'[o].dep = ops[o].dep
           \/ dep'[ops[o].dep].status = "gone"
  PROVE  CreationIsFresh' /\ CompletionIsOfDeployment'
  <1> USE DEF Inv
  <1>1. CreationIsFresh'
    <2> SUFFICES ASSUME NEW u \in Txns, txn'[u].kind = "create"
                 PROVE  /\ dep'[txn'[u].dep].status = "absent"
                        /\ \A v \in Txns : txn'[v].kind = "create" /\ txn'[v].dep = txn'[u].dep
                                             => v = u
      BY DEF CreationIsFresh
    <2>1. txn'[u] = txn[u] /\ u # t
      BY EndOthers DEF TypeOK
    <2>2. txn[u].dep \in Deployments
      BY <2>1, KindsOfTxn DEF TypeOK, CentralTypeOK, CreateTxn
    <2>3. dep'[txn[u].dep].status = "absent"
      BY <2>1, <2>2 DEF CreationIsFresh
    <2>4. ASSUME NEW v \in Txns, txn'[v].kind = "create", txn'[v].dep = txn'[u].dep
          PROVE  v = u
      BY <2>1, <2>4, EndOthers DEF TypeOK, CreationIsFresh
    <2> QED
      BY <2>1, <2>3, <2>4
  <1>2. CompletionIsOfDeployment'
    <2> SUFFICES ASSUME NEW u \in Txns, txn'[u].kind = "complete"
                 PROVE  \/ ops'[txn'[u].report.op].dep = txn'[u].dep
                        \/ dep'[txn'[u].dep].status = "gone"
      BY DEF CompletionIsOfDeployment
    <2>1. txn'[u] = txn[u]
      BY EndOthers DEF TypeOK
    <2>2. txn[u].dep \in Deployments /\ txn[u].report.op \in OpIds
      BY <2>1, KindsOfTxn DEF TypeOK, CentralTypeOK, CompleteTxn, Report
    <2> QED
      BY <2>1, <2>2 DEF CompletionIsOfDeployment
  <1> QED
    BY <1>1, <1>2

LEMMA CreateCommitInv ==
  ASSUME Inv, NEW t \in Txns, NEW o \in OpIds,
         CreateCommit(t, o), NoFault, UNCHANGED agentVars
  PROVE  Inv'
  <1> USE DEF Inv, CreateCommit, NoFault, agentVars
  <1> DEFINE d == txn[t].dep
             row == [status |-> "queued", desired |-> "running", gpus |-> txn[t].gpus]
  <1>1. txn[t] \in CreateTxn /\ d \in Deployments
    BY KindsOfTxn DEF TypeOK, CentralTypeOK, CreateTxn
  <1>2. row \in DepRow
    BY <1>1 DEF CreateTxn, DepRow, DepStatuses, RowStatuses, DesiredStates
  <1>3. QueuedOp(d, "create") \in OpRow
    BY <1>1 DEF QueuedOp, OpRow, OpStatuses, Actions, Leases
  <1>4. TypeOK'
    BY <1>1, <1>2, <1>3, EndType DEF TypeOK, BaseTypeOK, AgentTypeOK
  <1>5. ops[o].status = "unused" /\ ops[o].dep = NoDeployment
    BY DEF IsNextOp, Referential
  <1>6. \A p \in OpIds : ops'[p] = IF p = o THEN QueuedOp(d, "create") ELSE ops[p]
    BY DEF TypeOK, BaseTypeOK
  <1>7. \A e \in Deployments : dep'[e] = IF e = d THEN row ELSE dep[e]
    BY DEF TypeOK, BaseTypeOK
  <1>8. Referential' /\ RunningIsRecoverable' /\ OperationsNameActions'
    BY <1>1, <1>6, <1>7 DEF Referential, RunningIsRecoverable, OperationsNameActions,
       QueuedOp, Exists, RowStatuses, Actions
  <1>9. dep[d].status = "absent"
    BY DEF CreationIsFresh
  <1>10. CreationIsFresh' /\ CompletionIsOfDeployment'
    BY <1>1, <1>5, <1>6, <1>7, <1>9, NoDeploymentAssumption, CommitOthers
  <1> QED
    BY <1>4, <1>8, <1>10 DEF ExecutingHasCommand

LEMMA RequestCommitInv ==
  ASSUME Inv, NEW t \in Txns, NEW o \in OpIds,
         RequestCommit(t, o), NoFault, UNCHANGED agentVars
  PROVE  Inv'
  <1> USE DEF Inv, NoFault, agentVars
  <1> DEFINE x == txn[t]
             d == x.dep
  <1>1. x.kind = "checked" /\ Exists(d) /\ IsNextOp(o) /\ End(t)
        /\ UNCHANGED <<reports, observed>>
        /\ ops' = [ops EXCEPT ![o] = QueuedOp(d, x.action)]
    BY DEF RequestCommit
  <1>2. x \in CheckedTxn /\ d \in Deployments /\ x.action \in Actions
    BY <1>1, KindsOfTxn DEF TypeOK, CentralTypeOK, CheckedTxn
  <1>3. PICK row \in DepRow : row.status \in RowStatuses /\ dep' = [dep EXCEPT ![d] = row]
    <2> DEFINE row == DepWith(d, IF x.action = "create" THEN "queued" ELSE dep[d].status,
                              Stored(x.desired, DesiredBy(x.action), dep[d].desired))
    <2>1. row \in DepRow /\ row.status \in RowStatuses
      BY <1>1, <1>2, StoredType, DesiredType
         DEF DepWith, TypeOK, BaseTypeOK, DepRow, DepStatuses, RowStatuses, Exists
    <2> QED
      BY <2>1 DEF RequestCommit
  <1>4. QueuedOp(d, x.action) \in OpRow
    BY <1>2 DEF QueuedOp, OpRow, OpStatuses, Leases
  <1>5. TypeOK'
    BY <1>1, <1>2, <1>3, <1>4, EndType DEF TypeOK, BaseTypeOK, AgentTypeOK
  <1>6. ops[o].status = "unused" /\ ops[o].dep = NoDeployment
    BY <1>1 DEF IsNextOp, Referential
  <1>7. \A p \in OpIds : ops'[p] = IF p = o THEN QueuedOp(d, x.action) ELSE ops[p]
    BY <1>1 DEF TypeOK, BaseTypeOK
  <1>8. \A e \in Deployments : dep'[e] = IF e = d THEN row ELSE dep[e]
    BY <1>3 DEF TypeOK, BaseTypeOK
  <1>9. Referential' /\ RunningIsRecoverable' /\ OperationsNameActions'
    BY <1>2, <1>3, <1>7, <1>8 DEF Referential, RunningIsRecoverable, OperationsNameActions,
       QueuedOp, Exists
  <1>10. dep[d].status \notin {"absent", "gone"}
    BY <1>1 DEF Exists, RowStatuses
  <1>11. CreationIsFresh' /\ CompletionIsOfDeployment'
    BY <1>1, <1>6, <1>7, <1>8, <1>10, NoDeploymentAssumption, CommitOthers
  <1> QED
    BY <1>5, <1>9, <1>11 DEF ExecutingHasCommand

\* The claim of an operation, whoever hears of it.
LEMMA ClaimCommitRows ==
  ASSUME Inv, NEW t \in Txns, NEW o \in OpIds, ClaimCommit(t, o)
  PROVE  /\ BaseTypeOK' /\ CentralTypeOK'
         /\ Referential' /\ RunningIsRecoverable' /\ OperationsNameActions'
         /\ CreationIsFresh' /\ CompletionIsOfDeployment'
         /\ UNCHANGED <<reports, observed>>
         /\ ops[o].dep \in Deployments /\ ops[o].action \in Actions /\ ops[o].attempt \in Nat
  <1> USE DEF Inv
  <1> DEFINE d == ops[o].dep
  <1>1. /\ ops[o] \in OpRow /\ ops[o].status \in {"queued", "running"}
        /\ End(t) /\ UNCHANGED <<reports, observed>>
    BY DEF ClaimCommit, Claimable, TypeOK, BaseTypeOK
  <1>2. d \in Deployments /\ Exists(d) /\ ops[o].action \in Actions /\ ops[o].attempt \in Nat
    BY <1>1 DEF Referential, OperationsNameActions, OpRow
  <1>3. PICK row \in DepRow : row.status \in RowStatuses /\ dep' = [dep EXCEPT ![d] = row]
    <2> DEFINE row == [dep[d] EXCEPT !.status = TransitionStatus(ops[o].action)]
    <2>1. row \in DepRow /\ row.status \in RowStatuses
      BY <1>2, TransitionType DEF TypeOK, BaseTypeOK, DepRow, DepStatuses
    <2> QED
      BY <2>1 DEF ClaimCommit
  <1>4. PICK op \in OpRow : /\ op.dep = d /\ op.action = ops[o].action
                            /\ op.status = "running" /\ op.lease = "live"
                            /\ ops' = [ops EXCEPT ![o] = op]
    <2> DEFINE op == OpWith(o, "running", ops[o].attempt + 1, "live")
    <2>1. /\ op \in OpRow
          /\ op.dep = d /\ op.action = ops[o].action /\ op.status = "running" /\ op.lease = "live"
      BY <1>2 DEF OpWith, OpRow, OpStatuses, Leases
    <2> QED
      BY <2>1 DEF ClaimCommit
  <1>5. BaseTypeOK' /\ CentralTypeOK'
    BY <1>1, <1>3, <1>4, EndType DEF TypeOK, BaseTypeOK
  <1>6. \A p \in OpIds : ops'[p] = IF p = o THEN op ELSE ops[p]
    BY <1>4 DEF TypeOK, BaseTypeOK
  <1>7. \A e \in Deployments : dep'[e] = IF e = d THEN row ELSE dep[e]
    BY <1>3 DEF TypeOK, BaseTypeOK
  <1>8. Referential' /\ RunningIsRecoverable' /\ OperationsNameActions'
    <2>1. Referential'
      BY <1>2, <1>3, <1>4, <1>6, <1>7 DEF Referential, Exists
    <2>2. RunningIsRecoverable'
      BY <1>4, <1>6 DEF RunningIsRecoverable
    <2>3. OperationsNameActions'
      BY <1>2, <1>4, <1>6 DEF OperationsNameActions
    <2> QED
      BY <2>1, <2>2, <2>3
  <1>9. dep[d].status \notin {"absent", "gone"}
    BY <1>2 DEF Exists, RowStatuses
  <1>10. CreationIsFresh' /\ CompletionIsOfDeployment'
    BY <1>1, <1>4, <1>6, <1>7, <1>9, CommitOthers
  <1> QED
    BY <1>1, <1>2, <1>5, <1>8, <1>10

LEMMA ClaimInv ==
  ASSUME Inv, NEW t \in Txns, NEW o \in OpIds, ClaimAnswered(t, o) \/ ClaimUnheard(t, o)
  PROVE  Inv'
  <1> USE DEF Inv
  <1>1. ClaimCommit(t, o)
    BY DEF ClaimAnswered, ClaimUnheard
  <1>2. CommandFor(o) \in Command
    BY <1>1, ClaimCommitRows DEF CommandFor, Command
  <1>3. faults' \in 0 .. MaxFaults
    BY MaxFaultsAssumption DEF ClaimAnswered, ClaimUnheard, NoFault, Fault, TypeOK
  <1>4. AgentTypeOK' /\ ExecutingHasCommand'
    BY <1>2 DEF ClaimAnswered, ClaimUnheard, ReceiveCommand, ClaimIsOver, agentVars, TypeOK,
       AgentTypeOK, ExecutingHasCommand, Phases, Executing
  <1> QED
    BY <1>1, <1>3, <1>4, ClaimCommitRows DEF TypeOK

\* A completion that leaves the deployment in place.
LEMMA CompleteCommitInv ==
  ASSUME Inv, NEW t \in Txns, CompleteCommit(t), NoFault, UNCHANGED agentVars
  PROVE  Inv'
  <1> USE DEF Inv, NoFault, agentVars
  <1> DEFINE x == txn[t]
             d == x.dep
             o == x.report.op
  <1>1. /\ x.kind = "complete" /\ Exists(d)
        /\ SettledStatus(ops[o].action, x.report.outcome) # "gone"
        /\ End(t) /\ UNCHANGED <<reports, observed>>
    BY DEF CompleteCommit, Accepted
  <1>2. /\ x \in CompleteTxn /\ d \in Deployments /\ o \in OpIds
        /\ x.report.outcome \in Outcomes
    BY <1>1, KindsOfTxn DEF TypeOK, CentralTypeOK, CompleteTxn, Report
  <1>3. ops[o].dep = d /\ ops[o] \in OpRow /\ ops[o].status \notin {"unused", "purged"}
    <2>1. dep[d].status # "gone"
      BY <1>1 DEF Exists, RowStatuses
    <2> QED
      BY <1>1, <1>2, <2>1, NoDeploymentAssumption
         DEF CompletionIsOfDeployment, Referential, TypeOK, BaseTypeOK
  <1>4. PICK row \in DepRow : row.status \in RowStatuses /\ dep' = [dep EXCEPT ![d] = row]
    <2> DEFINE s == SettledStatus(ops[o].action, x.report.outcome)
               desired == IF s = "running" THEN Stored(x.desired, "running", dep[d].desired)
                                           ELSE dep[d].desired
               row == DepWith(d, Stored(x.status, s, dep[d].status), desired)
    <2>1. dep[d] \in DepRow /\ dep[d].status \in RowStatuses /\ s \in RowStatuses
      BY <1>1, <1>2, SettledType DEF TypeOK, BaseTypeOK, Exists
    <2>2. desired \in DesiredStates
      BY <2>1, StoredType DEF DepRow, DesiredStates
    <2>3. Stored(x.status, s, dep[d].status) \in RowStatuses
      BY <2>1, StoredType
    <2>4. row \in DepRow /\ row.status \in RowStatuses
      BY <2>1, <2>2, <2>3 DEF DepWith, DepRow, DepStatuses
    <2> QED
      BY <2>4 DEF CompleteCommit
  <1>5. PICK op \in OpRow : /\ op.dep = d /\ op.action = ops[o].action
                            /\ op.status \in Outcomes /\ op.lease = "none"
                            /\ ops' = [ops EXCEPT ![o] = op]
    <2> DEFINE op == OpWith(o, x.report.outcome, ops[o].attempt, "none")
    <2>1. /\ op \in OpRow
          /\ op.dep = d /\ op.action = ops[o].action
          /\ op.status \in Outcomes /\ op.lease = "none"
      BY <1>2, <1>3 DEF OpWith, OpRow, OpStatuses, Leases, Outcomes
    <2> QED
      BY <2>1 DEF CompleteCommit
  <1>6. TypeOK'
    BY <1>1, <1>4, <1>5, EndType DEF TypeOK, BaseTypeOK, AgentTypeOK
  <1>7. \A p \in OpIds : ops'[p] = IF p = o THEN op ELSE ops[p]
    BY <1>5 DEF TypeOK, BaseTypeOK
  <1>8. \A e \in Deployments : dep'[e] = IF e = d THEN row ELSE dep[e]
    BY <1>4 DEF TypeOK, BaseTypeOK
  <1>9. Referential'
    BY <1>2, <1>4, <1>5, <1>7, <1>8 DEF Referential, Exists, Outcomes
  <1>10. RunningIsRecoverable' /\ OperationsNameActions'
    BY <1>3, <1>5, <1>7 DEF RunningIsRecoverable, OperationsNameActions, Outcomes
  <1>11. dep[d].status \notin {"absent", "gone"}
    BY <1>1 DEF Exists, RowStatuses
  <1>12. CreationIsFresh' /\ CompletionIsOfDeployment'
    BY <1>1, <1>3, <1>5, <1>7, <1>8, <1>11, CommitOthers
  <1> QED
    BY <1>6, <1>9, <1>10, <1>12 DEF ExecutingHasCommand

\* A completion that deletes the deployment and its operations.
LEMMA DeleteCommitInv ==
  ASSUME Inv, NEW t \in Txns, DeleteCommit(t), NoFault, UNCHANGED agentVars
  PROVE  Inv'
  <1> USE DEF Inv, NoFault, agentVars
  <1> DEFINE d == txn[t].dep
             row == [status |-> "gone", desired |-> "deleted", gpus |-> {}]
  <1>1. /\ txn[t].kind = "complete" /\ Exists(d)
        /\ End(t) /\ UNCHANGED <<reports, observed>>
        /\ dep' = [dep EXCEPT ![d] = row]
        /\ ops' = WithoutOps(d)
    BY DEF DeleteCommit, Accepted
  <1>2. d \in Deployments
    BY <1>1, KindsOfTxn DEF TypeOK, CentralTypeOK, CompleteTxn
  <1>3. row \in DepRow
    BY DEF DepRow, DepStatuses, DesiredStates
  <1>4. PurgedOp \in OpRow /\ PurgedOp.status = "purged" /\ PurgedOp.lease = "none"
        /\ PurgedOp.dep = NoDeployment
    BY DEF PurgedOp, NoOp, OpRow, OpStatuses, Leases
  <1>5. \A p \in OpIds : ops'[p] = IF ops[p].dep = d THEN PurgedOp ELSE ops[p]
    BY <1>1 DEF WithoutOps
  <1>6. \A e \in Deployments : dep'[e] = IF e = d THEN row ELSE dep[e]
    BY <1>1 DEF TypeOK, BaseTypeOK
  <1>7. ops' \in [OpIds -> OpRow]
    BY <1>1, <1>4 DEF WithoutOps, TypeOK, BaseTypeOK
  <1>8. TypeOK'
    BY <1>1, <1>3, <1>7, EndType DEF TypeOK, BaseTypeOK, AgentTypeOK
  <1>9. Referential' /\ RunningIsRecoverable' /\ OperationsNameActions'
    BY <1>4, <1>5, <1>6 DEF Referential, RunningIsRecoverable, OperationsNameActions, Exists
  <1>10. dep[d].status # "absent"
    BY <1>1 DEF Exists, RowStatuses
  <1>11. CreationIsFresh' /\ CompletionIsOfDeployment'
    BY <1>1, <1>5, <1>6, <1>10, CommitOthers
  <1> QED
    BY <1>8, <1>9, <1>11 DEF ExecutingHasCommand

\* A runtime report writes the status of a row that is there.
LEMMA RuntimeCommitInv ==
  ASSUME Inv, NEW t \in Txns, RuntimeCommit(t), NoFault, UNCHANGED agentVars
  PROVE  Inv'
  <1> USE DEF Inv, NoFault, agentVars
  <1> DEFINE x == txn[t]
             d == x.dep
  <1>1. x.kind = "runtime" /\ End(t) /\ UNCHANGED <<ops, reports, observed>>
    BY DEF RuntimeCommit
  <1>2. x \in RuntimeTxn /\ d \in Deployments
    BY <1>1, KindsOfTxn DEF TypeOK, CentralTypeOK, RuntimeTxn
  <1>3. \A e \in Deployments :
          dep'[e] = IF e = d /\ Exists(d)
                    THEN [dep[d] EXCEPT !.status = Stored(x.status, x.mapped, dep[d].status)]
                    ELSE dep[e]
    BY <1>2 DEF RuntimeCommit, TypeOK, BaseTypeOK
  <1>4. Exists(d) => Stored(x.status, x.mapped, dep[d].status) \in RowStatuses
    BY <1>2, StoredType DEF RuntimeTxn, Exists
  <1>5. \A e \in Deployments : /\ dep'[e] \in DepRow
                               /\ Exists(e) => dep'[e].status \in RowStatuses
                               /\ ~Exists(e) => dep'[e] = dep[e]
    <2> TAKE e \in Deployments
    <2>1. dep[e] \in DepRow
      BY DEF TypeOK, BaseTypeOK
    <2>2. CASE e = d /\ Exists(d)
      <3>1. dep'[e] = DepWith(e, Stored(x.status, x.mapped, dep[e].status), dep[e].desired)
        BY <1>3, <2>1, <2>2 DEF DepWith, DepRow
      <3> QED
        BY <1>4, <2>1, <2>2, <3>1 DEF DepWith, DepRow, DepStatuses
    <2>3. CASE ~(e = d /\ Exists(d))
      BY <1>3, <2>1, <2>3 DEF Exists
    <2> QED
      BY <2>2, <2>3
  <1>6. dep' \in [Deployments -> DepRow]
    BY <1>5 DEF RuntimeCommit, TypeOK, BaseTypeOK
  <1>7. TypeOK'
    BY <1>1, <1>6, EndType DEF TypeOK, BaseTypeOK, AgentTypeOK
  <1>8. Referential' /\ RunningIsRecoverable' /\ OperationsNameActions'
    BY <1>1, <1>5 DEF Referential, RunningIsRecoverable, OperationsNameActions, Exists
  <1>9. CreationIsFresh' /\ CompletionIsOfDeployment'
    BY <1>1, <1>5, CommitOthers DEF Exists, RowStatuses
  <1> QED
    BY <1>7, <1>8, <1>9 DEF ExecutingHasCommand

-----------------------------------------------------------------------------
(* The theorems. *)

LEMMA StepInv == Inv /\ [Next]_vars => Inv'
  <1> SUFFICES ASSUME Inv, [Next]_vars PROVE Inv'
    OBVIOUS
  <1>1. CASE Administer
    BY <1>1, CreateLoadInv, RequestLoadInv, RequestCheckInv, CreateCommitInv,
       RequestCommitInv, NothingDoneInv DEF Administer, RequestLoad
  <1>2. CASE Claiming
    BY <1>2, AgentClaimsInv, ClaimInv, NothingDoneInv DEF Claiming
  <1>3. CASE ClaimTimesOut \/ AgentCrashes
    BY <1>3, DeafenedInv
  <1>4. CASE AgentRestarts \/ MessageLost
    BY <1>4, QuietInv
  <1>5. CASE AgentExecutes
    BY <1>5, ExecuteInv
  <1>6. CASE \E d \in Deployments : AgentAsks(d) \/ AgentObserves(d) \/ Exit(d)
    BY <1>6, QuietInv
  <1>7. CASE \E o \in OpIds : LeaseRunsOut(o)
    BY <1>7, LeaseInv
  <1>8. CASE Reported
    <2>1. CASE \E m \in reports : CompleteRefused(m)
      BY <1>8, <2>1, QuietInv DEF Reported
    <2>2. CASE \E m \in reports, t \in Txns : CompleteLoad(t, m)
      BY <1>8, <2>2, CompleteLoadInv DEF Reported
    <2>3. CASE \E t \in Txns : CompleteCommit(t) \/ DeleteCommit(t) \/ CompleteRollsBack(t)
      BY <1>8, <2>3, CompleteCommitInv, DeleteCommitInv, NothingDoneInv DEF Reported
    <2>4. CASE \E d \in Deployments : RuntimeSkipped(d)
      BY <1>8, <2>4, QuietInv DEF Reported
    <2>5. CASE \E d \in Deployments, t \in Txns : RuntimeLoad(t, d)
      BY <1>8, <2>5, RuntimeLoadInv DEF Reported
    <2>6. CASE \E t \in Txns : RuntimeCommit(t)
      BY <1>8, <2>6, RuntimeCommitInv DEF Reported
    <2> QED
      BY <1>8, <2>1, <2>2, <2>3, <2>4, <2>5, <2>6 DEF Reported
  <1>9. CASE UNCHANGED vars
    <2> USE <1>9 DEF vars, Inv
    <2>1. TypeOK'
      BY DEF TypeOK, BaseTypeOK, CentralTypeOK, AgentTypeOK
    <2>2. ExecutingHasCommand'
      BY DEF ExecutingHasCommand
    <2> QED
      BY <2>1, <2>2, RowsKept
  <1> QED
    BY <1>1, <1>2, <1>3, <1>4, <1>5, <1>6, <1>7, <1>8, <1>9 DEF Next

\* The invariant holds in every reachable state.
THEOREM InvIsInvariant == Spec => []Inv
  BY InitInv, StepInv, PTL DEF Spec

\* Every variable keeps its type, whatever overlaps, is lost or crashes.
THEOREM TypeCorrectness == Spec => []TypeOK
  <1>1. Inv => TypeOK
    BY DEF Inv
  <1> QED
    BY <1>1, InvIsInvariant, PTL

\* No operation is left behind by the deletion of its deployment, and none is
\* inserted for a deployment that another transaction has deleted.
THEOREM ReferentialIntegrity == Spec => []Referential
  <1>1. Inv => Referential
    BY DEF Inv
  <1> QED
    BY <1>1, InvIsInvariant, PTL

\* A running operation never loses its lease column, so that it can always be
\* claimed again once its holder is gone.
THEOREM Recoverability == Spec => []RunningIsRecoverable
  <1>1. Inv => RunningIsRecoverable
    BY DEF Inv
  <1> QED
    BY <1>1, InvIsInvariant, PTL
-----------------------------------------------------------------------------
(* The steps that write rows. *)

\* The step writes no row, but for the leases of operations.
RowsAreKept ==
  /\ dep' = dep
  /\ \A o \in OpIds : /\ ops'[o].status = ops[o].status /\ ops'[o].dep = ops[o].dep
                      /\ ops'[o].action = ops[o].action
                      /\ ops[o].lease # "live" => ops'[o] = ops[o]

\* Rows are written by commits alone.
LEMMA RowSteps ==
  ASSUME Inv, [Next]_vars
  PROVE  \/ RowsAreKept
         \/ \E t \in Txns :
              /\ \/ \E o \in OpIds : \/ CreateCommit(t, o)
                                     \/ RequestCommit(t, o)
                                     \/ ClaimCommit(t, o)
                 \/ CompleteCommit(t) \/ DeleteCommit(t) \/ RuntimeCommit(t)
              /\ End(t)
  <1>1. CASE \E o \in OpIds : LeaseRunsOut(o)
    BY <1>1 DEF LeaseRunsOut, LeaseExpires, RowsAreKept, Inv, TypeOK, BaseTypeOK, OpRow
  <1>2. ASSUME dep' = dep, ops' = ops PROVE RowsAreKept
    BY <1>2 DEF RowsAreKept
  <1>3. CASE Administer
    BY <1>2, <1>3 DEF Administer, CreateLoad, RequestLoad, RequestCheck, CreateCommit,
       RequestCommit, RequestEnds
  <1>4. CASE Claiming
    BY <1>2, <1>4 DEF Claiming, AgentClaims, ClaimLoad, ClaimAnswered, ClaimUnheard, ClaimCommit,
       ClaimEmpty, ClaimFindsNothing
  <1>5. CASE Reported
    BY <1>2, <1>5 DEF Reported, CompleteRefused, CompleteLoad, CompleteCommit, DeleteCommit,
       CompleteRollsBack, RuntimeSkipped, RuntimeLoad, RuntimeCommit
  <1>6. CASE \/ ClaimTimesOut \/ AgentCrashes \/ AgentRestarts \/ AgentExecutes \/ MessageLost
             \/ \E d \in Deployments : AgentAsks(d) \/ AgentObserves(d) \/ Exit(d)
             \/ UNCHANGED vars
    BY <1>2, <1>6 DEF ClaimTimesOut, AgentCrashes, AgentRestarts, AgentExecutes, Execute,
       MessageLost, AgentAsks, AgentObserves, Exit, vars
  <1> QED
    BY <1>1, <1>3, <1>4, <1>5, <1>6 DEF Next

-----------------------------------------------------------------------------
(***************************************************************************)
(* How many leases are live.  A claim under way may still take one, so     *)
(* claims and leases are counted together; and when the Agent waits for no *)
(* claim, each claim under way is one that it gave up on.                  *)
(***************************************************************************)
ClaimTxns == {t \in Txns : txn[t].kind = "claim"}

\* The step begins no claim and takes no lease; the Agent stops waiting for a
\* claim only when that claim is over, or given up.
NothingLeased ==
  /\ ClaimTxns' \subseteq ClaimTxns
  /\ LiveOps' \subseteq LiveOps
  /\ faults' \in {faults, faults + 1}
  /\ phase' # "claiming" => \/ phase # "claiming"
                            \/ faults' = faults + 1
                            \/ ClaimTxns' # ClaimTxns

\* What administrators' requests do to claims and leases: nothing.
LEMMA AdministerLeases ==
  ASSUME Inv, Administer
  PROVE  NothingLeased
  <1>1. PICK t \in Txns :
          \/ \E d \in Deployments, gs \in SUBSET Gpus : CreateLoad(t, d, gs)
          \/ \E d \in Deployments, a \in AdminActions : RequestLoad(t, d, a)
          \/ \E a \in Actions : RequestCheck(t, a)
          \/ \E o \in OpIds : CreateCommit(t, o) \/ RequestCommit(t, o)
          \/ RequestEnds(t)
    BY DEF Administer
  <1>2. \A p \in OpIds : ops'[p] = ops[p] \/ ops'[p].lease = "none"
    <2>1. CASE \E o \in OpIds : CreateCommit(t, o) \/ RequestCommit(t, o)
      BY <2>1 DEF CreateCommit, RequestCommit, QueuedOp, Inv, TypeOK, BaseTypeOK
    <2> QED
      BY <1>1, <2>1 DEF CreateLoad, RequestLoad, RequestCheck, RequestEnds
  <1>3. \A u \in Txns : txn'[u].kind = "claim" => txn[u].kind = "claim"
    <2>1. txn[t].kind = "loaded" => txn[t] \in LoadedTxn
      BY KindsOfTxn DEF Inv, TypeOK, CentralTypeOK
    <2> QED
      BY <1>1, <2>1 DEF CreateLoad, RequestLoad, RequestCheck, CreateCommit, RequestCommit,
         RequestEnds, Begin, End, NoTxn, LoadedTxn, Inv, TypeOK, CentralTypeOK
  <1> QED
    BY <1>2, <1>3 DEF NothingLeased, Administer, NoFault, agentVars, ClaimTxns, LiveOps

\* A claim that finds nothing ends.
LEMMA ClaimEmptyLeases ==
  ASSUME Inv, NEW t \in Txns, ClaimEmpty(t)
  PROVE  NothingLeased
  <1>1. t \in ClaimTxns /\ ClaimTxns' = ClaimTxns \ {t} /\ ops' = ops /\ faults' = faults
    BY DEF ClaimEmpty, ClaimFindsNothing, End, NoFault, ClaimTxns, NoTxn, Inv, TypeOK,
       CentralTypeOK
  <1> QED
    BY <1>1 DEF NothingLeased, LiveOps

\* Reports settle leases and touch no claim.
LEMMA ReportedLeases ==
  ASSUME Inv, Reported
  PROVE  NothingLeased
  <1>1. \A p \in OpIds : ops'[p] = ops[p] \/ ops'[p].lease = "none"
    <2>1. CASE \E t \in Txns : CompleteCommit(t)
      BY <2>1 DEF CompleteCommit, OpWith, Inv, TypeOK, BaseTypeOK
    <2>2. CASE \E t \in Txns : DeleteCommit(t)
      BY <2>2 DEF DeleteCommit, WithoutOps, PurgedOp, NoOp
    <2> QED
      BY <2>1, <2>2 DEF Reported, CompleteRefused, CompleteLoad, CompleteRollsBack,
         RuntimeSkipped, RuntimeLoad, RuntimeCommit
  <1>2. \A u \in Txns : txn'[u].kind = "claim" => txn[u].kind = "claim"
    <2>1. CASE \E t \in Txns : End(t)
      BY <2>1 DEF End, NoTxn, Inv, TypeOK, CentralTypeOK
    <2>2. CASE \E t \in Txns, m \in reports : CompleteLoad(t, m)
      BY <2>2 DEF CompleteLoad, Begin, Inv, TypeOK, CentralTypeOK
    <2>3. CASE \E t \in Txns, d \in Deployments : RuntimeLoad(t, d)
      BY <2>3 DEF RuntimeLoad, Begin, Inv, TypeOK, CentralTypeOK
    <2> QED
      BY <2>1, <2>2, <2>3 DEF Reported, CompleteRefused, CompleteCommit, DeleteCommit,
         CompleteRollsBack, RuntimeSkipped, RuntimeCommit
  <1> QED
    BY <1>1, <1>2 DEF NothingLeased, Reported, NoFault, agentVars, ClaimTxns, LiveOps

\* Steps of the Agent, of Docker, of the network and of time.
LEMMA QuietLeases ==
  ASSUME Inv,
         \/ ClaimTimesOut \/ AgentCrashes \/ AgentRestarts \/ AgentExecutes \/ MessageLost
         \/ \E d \in Deployments : AgentAsks(d) \/ AgentObserves(d) \/ Exit(d)
         \/ \E o \in OpIds : LeaseRunsOut(o)
  PROVE  NothingLeased
  <1>1. CASE ClaimTimesOut \/ AgentCrashes
    <2>1. ops' = ops /\ txn' = Deafened /\ faults' = faults + 1
      BY <1>1 DEF ClaimTimesOut, AgentCrashes, Fault
    <2>2. \A t \in Txns : txn[t].kind = "claim" => txn[t] \in ClaimTxn
      BY KindsOfTxn DEF Inv, TypeOK, CentralTypeOK
    <2>3. ClaimTxns' = ClaimTxns
      BY <2>1, <2>2 DEF Deafened, ClaimTxn, ClaimTxns
    <2> QED
      BY <2>1, <2>3 DEF NothingLeased, LiveOps
  <1>2. CASE \/ AgentRestarts \/ AgentExecutes \/ MessageLost
             \/ \E d \in Deployments : AgentAsks(d) \/ AgentObserves(d) \/ Exit(d)
             \/ \E o \in OpIds : LeaseRunsOut(o)
    <2>1. txn' = txn /\ faults' \in {faults, faults + 1}
      BY <1>2 DEF AgentRestarts, AgentExecutes, Execute, MessageLost, AgentAsks, AgentObserves,
         Exit, LeaseRunsOut, LeaseExpires, Fault, NoFault
    <2>2. phase = "claiming" => phase' = "claiming"
      BY <1>2 DEF AgentRestarts, Restart, AgentExecutes, Execute, NothingToDo, CreateContainer,
         FirstCall, StartContainer, StopContainer, RemoveContainer, CallRefused, CallFails,
         Executing, MessageLost, AgentAsks, Ask, AgentObserves, Observe, Exit, ContainerExits,
         LeaseRunsOut, agentVars
    <2>3. LiveOps' \subseteq LiveOps
      <3>1. CASE \E o \in OpIds : LeaseRunsOut(o)
        BY <3>1 DEF LeaseRunsOut, LeaseExpires, LiveOps, Inv, TypeOK, BaseTypeOK, OpRow
      <3>2. CASE ops' = ops
        BY <3>2 DEF LiveOps
      <3> QED
        BY <1>2, <3>1, <3>2 DEF AgentRestarts, AgentExecutes, Execute, MessageLost, AgentAsks,
           AgentObserves, Exit
    <2> QED
      BY <2>1, <2>2, <2>3 DEF NothingLeased, ClaimTxns
  <1> QED
    BY <1>1, <1>2

\* Leases are taken by claims alone.
LEMMA LeaseSteps ==
  ASSUME Inv, [Next]_vars
  PROVE  \/ NothingLeased
         \/ \E t \in Txns : AgentClaims(t)
         \/ \E t \in Txns, o \in OpIds : ClaimCommit(t, o) /\ faults' \in {faults, faults + 1}
  <1>1. CASE UNCHANGED vars
    BY <1>1 DEF vars, NothingLeased, ClaimTxns, LiveOps
  <1>2. CASE Claiming
    BY <1>2, ClaimEmptyLeases DEF Claiming, ClaimAnswered, ClaimUnheard, Fault, NoFault
  <1> QED
    BY <1>1, <1>2, AdministerLeases, ReportedLeases, QuietLeases DEF Next

Budget ==
  /\ Cardinality(ClaimTxns) + Cardinality(LiveOps) <= 1 + faults
  /\ phase # "claiming" => Cardinality(ClaimTxns) <= faults

\* One element more, or less.
LEMMA OneMore ==
  ASSUME NEW S, NEW T, NEW x, IsFiniteSet(S), T = S \cup {x}
  PROVE  Cardinality(T) \in Nat /\ Cardinality(T) <= Cardinality(S) + 1
  <1>1. Cardinality(S) \in Nat
    BY FS_CardinalityType
  <1>2. IsFiniteSet(T) /\ Cardinality(T) \in {Cardinality(S), Cardinality(S) + 1}
    BY FS_AddElement
  <1> QED
    BY <1>1, <1>2

LEMMA OneLess ==
  ASSUME NEW S, NEW T, NEW x \in S, IsFiniteSet(S), T = S \ {x}
  PROVE  Cardinality(T) \in Nat /\ Cardinality(T) = Cardinality(S) - 1
  BY FS_RemoveElement, FS_CardinalityType

\* What the budget counts is finite.
LEMMA BudgetType ==
  /\ IsFiniteSet(ClaimTxns) /\ Cardinality(ClaimTxns) \in Nat
  /\ IsFiniteSet(LiveOps) /\ Cardinality(LiveOps) \in Nat
  <1>1. IsFiniteSet(OpIds)
    BY FS_Interval, MaxOpsAssumption DEF OpIds
  <1>2. IsFiniteSet(LiveOps)
    BY <1>1, FS_Subset DEF LiveOps
  <1>3. IsFiniteSet(ClaimTxns)
    BY TxnsAssumption, FS_Subset DEF ClaimTxns
  <1> QED
    BY <1>2, <1>3, FS_CardinalityType

\* At first nothing is claimed or leased.
LEMMA BudgetInit == Init => Budget
  <1> SUFFICES ASSUME Init PROVE Budget
    OBVIOUS
  <1>1. ClaimTxns = {} /\ LiveOps = {} /\ faults = 0
    BY DEF Init, BaseInit, CentralInit, ClaimTxns, LiveOps, NoTxn, NoOp
  <1> QED
    BY <1>1, FS_EmptySet DEF Budget

\* Steps that neither begin nor commit a claim.
LEMMA BudgetKept ==
  ASSUME Inv, Budget, NothingLeased
  PROVE  Budget'
  <1>1. Cardinality(ClaimTxns') <= Cardinality(ClaimTxns)
        /\ Cardinality(ClaimTxns') \in Nat
        /\ (ClaimTxns' # ClaimTxns => Cardinality(ClaimTxns') # Cardinality(ClaimTxns))
    BY BudgetType, FS_Subset, FS_CardinalityType DEF NothingLeased
  <1>2. Cardinality(LiveOps') <= Cardinality(LiveOps) /\ Cardinality(LiveOps') \in Nat
    BY BudgetType, FS_Subset, FS_CardinalityType DEF NothingLeased
  <1>3. faults \in Nat
    BY DEF Inv, TypeOK
  <1> QED
    BY <1>1, <1>2, <1>3, BudgetType DEF Budget, NothingLeased

\* A claim begins while no lease is live, and when the Agent waits for no other.
LEMMA BudgetBegins ==
  ASSUME Inv, Budget, NEW t \in Txns, AgentClaims(t)
  PROVE  Budget'
  <1>1. LiveOps = {} /\ LiveOps' = {} /\ phase = "idle" /\ phase' = "claiming"
    BY DEF AgentClaims, ClaimLoad, BeginClaim, LiveOps
  <1>2. ClaimTxns' = ClaimTxns \cup {t}
    BY DEF AgentClaims, ClaimLoad, Begin, ClaimTxns, Inv, TypeOK, CentralTypeOK
  <1>3. Cardinality(ClaimTxns') \in Nat
        /\ Cardinality(ClaimTxns') <= Cardinality(ClaimTxns) + 1
    BY <1>2, BudgetType, OneMore
  <1>4. Cardinality(LiveOps') = 0
    BY <1>1, FS_EmptySet
  <1>5. faults' \in {faults, faults + 1} /\ faults \in Nat
    BY DEF AgentClaims, Fault, NoFault, Inv, TypeOK
  <1> QED
    BY <1>1, <1>3, <1>4, <1>5, BudgetType DEF Budget

\* A claim that commits gives its place to the lease it takes.
LEMMA BudgetCommits ==
  ASSUME Inv, Budget, NEW t \in Txns, NEW o \in OpIds, ClaimCommit(t, o),
         faults' \in {faults, faults + 1}
  PROVE  Budget'
  <1>1. t \in ClaimTxns /\ ClaimTxns' = ClaimTxns \ {t}
    BY DEF ClaimCommit, End, ClaimTxns, NoTxn, Inv, TypeOK, CentralTypeOK
  <1>2. LiveOps' = LiveOps \cup {o}
    BY DEF ClaimCommit, LiveOps, OpWith, Inv, TypeOK, BaseTypeOK
  <1>3. /\ Cardinality(ClaimTxns') = Cardinality(ClaimTxns) - 1
        /\ Cardinality(ClaimTxns') \in Nat
    BY <1>1, BudgetType, OneLess
  <1>4. /\ Cardinality(LiveOps') <= Cardinality(LiveOps) + 1
        /\ Cardinality(LiveOps') \in Nat
    BY <1>2, BudgetType, OneMore
  <1>5. faults \in Nat
    BY DEF Inv, TypeOK
  <1> QED
    BY <1>3, <1>4, <1>5, BudgetType DEF Budget

\* Every step keeps the budget.
LEMMA BudgetStep == Inv /\ Budget /\ [Next]_vars => Budget'
  BY LeaseSteps, BudgetKept, BudgetBegins, BudgetCommits

\* A second live lease takes a claim that the Agent gave up, a third one two:
\* the server has at most one live lease more than there were faults.
THEOREM LeasesAreFew == Spec => []LeasesNeedFaults
  <1>1. Inv /\ Budget => LeasesNeedFaults
    BY BudgetType DEF Budget, LeasesNeedFaults, Inv, TypeOK
  <1> QED
    BY <1>1, BudgetInit, BudgetStep, InvIsInvariant, PTL DEF Spec
=============================================================================
