----------------------- MODULE DeploymentStatusProofs -----------------------
(***************************************************************************)
(* What a deployment's row says, against its operations: theorems about    *)
(* DeploymentSystem when Central serves one request at a time.             *)
(***************************************************************************)
EXTENDS DeploymentRefinementProofs

(***************************************************************************)
(* What a transaction read is still so when it commits: nothing else       *)
(* writes rows meanwhile.  The mapped status of an observation moves the   *)
(* row only when no operation is active, and then to a status that no      *)
(* operation has to drive on.                                              *)
(***************************************************************************)
FreshReads ==
  \A t \in Txns :
    /\ txn[t].kind \in {"loaded", "checked", "complete"} =>
         txn[t].status = dep[txn[t].dep].status /\ txn[t].desired = dep[txn[t].dep].desired
    /\ txn[t].kind = "runtime" =>
         /\ txn[t].status = dep[txn[t].dep].status
         /\ IF ActiveOps(txn[t].dep) = {} THEN txn[t].mapped \in {"running", "stopped", "failed"}
                                         ELSE txn[t].mapped = txn[t].status

-----------------------------------------------------------------------------
(* Deletions, however transactions overlap. *)

LEMMA GoneStep ==
  ASSUME Inv, Inv', [Next]_vars, NEW d \in Deployments, dep[d].status = "gone"
  PROVE  dep'[d] = dep[d] /\ \A o \in OpIds : ops'[o].dep # d
  <1>1. dep'[d] = dep[d]
    <2>1. \A o \in OpIds : ops[o].dep # d
      BY NoDeploymentAssumption DEF Inv, Referential, Exists, RowStatuses
    <2>2. dep \in [Deployments -> DepRow] /\ ~Exists(d)
      BY DEF Inv, TypeOK, BaseTypeOK, Exists, RowStatuses
    <2>3. ASSUME NEW t \in Txns, NEW o \in OpIds, CreateCommit(t, o)
          PROVE  dep'[d] = dep[d]
      BY <2>2, <2>3 DEF CreateCommit, Inv, CreationIsFresh
    <2>4. ASSUME NEW t \in Txns, NEW o \in OpIds, RequestCommit(t, o)
          PROVE  dep'[d] = dep[d]
      BY <2>2, <2>4 DEF RequestCommit
    <2>5. ASSUME NEW t \in Txns, NEW o \in OpIds, ClaimCommit(t, o)
          PROVE  dep'[d] = dep[d]
      BY <2>1, <2>2, <2>5 DEF ClaimCommit
    <2>6. ASSUME NEW t \in Txns, CompleteCommit(t) \/ DeleteCommit(t) \/ RuntimeCommit(t)
          PROVE  dep'[d] = dep[d]
      BY <2>2, <2>6 DEF CompleteCommit, DeleteCommit, RuntimeCommit, Accepted
    <2> QED
      BY <2>3, <2>4, <2>5, <2>6, RowSteps DEF RowsAreKept
  <1> QED
    BY <1>1, NoDeploymentAssumption DEF Inv, Referential, Exists, RowStatuses

\* A deleted deployment stays deleted: no overlapping transaction that read it
\* before, and no late report, brings it or an operation on it back.
THEOREM GoneStaysGone == Spec => GoneIsGone
  <1>1. Inv /\ Inv' /\ [Next]_vars =>
          [\A d \in Deployments : dep[d].status = "gone" =>
             /\ dep'[d] = dep[d]
             /\ \A o \in OpIds : ops'[o].dep # d]_vars
    BY GoneStep
  <1> QED
    BY <1>1, InvIsInvariant, PTL DEF Spec, GoneIsGone

-----------------------------------------------------------------------------
(* Reads and commits, one transaction at a time. *)

\* Nothing has been read once a transaction has ended.
LEMMA EndReadsNothing ==
  ASSUME OneAtATime, CentralTypeOK, NEW t \in Txns, End(t)
  PROVE  FreshReads'
  BY DEF OneAtATime, CentralTypeOK, End, NoTxn, FreshReads

LEMMA FreshKept ==
  ASSUME FreshReads, RowsAreKept,
         \A t \in Txns : txn'[t].kind \in {"loaded", "checked", "complete", "runtime"} =>
                           txn'[t] = txn[t]
  PROVE  FreshReads'
  <1>1. \A d : ActiveOps(d)' = ActiveOps(d)
    BY DEF ActiveOps, RowsAreKept
  <1> QED
    BY <1>1 DEF FreshReads, RowsAreKept

\* What a transaction reads when it begins.
LEMMA FreshBegin ==
  ASSUME OneAtATime, Inv, NEW t \in Txns, dep' = dep, ops' = ops,
         \/ \E d \in Deployments, gs \in SUBSET Gpus : CreateLoad(t, d, gs)
         \/ \E d \in Deployments, a \in AdminActions : RequestLoad(t, d, a)
         \/ AgentClaims(t)
         \/ \E m \in reports : CompleteLoad(t, m)
         \/ \E d \in Deployments : RuntimeLoad(t, d)
  PROVE  FreshReads'
  <1>1. txn \in [Txns -> TxnStates] /\ \A u \in Txns : u = t
    BY DEF OneAtATime, Inv, TypeOK, CentralTypeOK
  <1>2. CASE \/ \E d \in Deployments, gs \in SUBSET Gpus : CreateLoad(t, d, gs)
             \/ AgentClaims(t)
    BY <1>1, <1>2 DEF CreateLoad, AgentClaims, ClaimLoad, Begin, FreshReads
  <1>3. CASE \E d \in Deployments, a \in AdminActions : RequestLoad(t, d, a)
    BY <1>1, <1>3 DEF RequestLoad, Begin, FreshReads
  <1>4. CASE \E m \in reports : CompleteLoad(t, m)
    BY <1>1, <1>4 DEF CompleteLoad, Begin, FreshReads
  <1>5. ASSUME NEW d \in Deployments, RuntimeLoad(t, d)
        PROVE  FreshReads'
    <2>1. MappedStatus(observed[d], dep[d].desired) \in {"running", "stopped", "failed"}
      BY <1>5 DEF RuntimeLoad, MappedStatus, ObservedStates
    <2>2. ActiveOps(d)' = ActiveOps(d)
      BY DEF ActiveOps
    <2>3. txn'[t] = [kind |-> "runtime", dep |-> d, status |-> dep[d].status,
                     mapped |-> RuntimeStatus(d)]
      BY <1>1, <1>5 DEF RuntimeLoad, Begin
    <2> QED
      BY <1>1, <2>1, <2>2, <2>3 DEF RuntimeStatus, FreshReads
  <1> QED
    BY <1>2, <1>3, <1>4, <1>5

LEMMA FreshStep ==
  ASSUME OneAtATime, Inv, FreshReads, [Next]_vars
  PROVE  FreshReads'
  <1>1. CentralTypeOK
    BY DEF Inv, TypeOK
  <1>2. CASE Administer
    <2>1. PICK t \in Txns :
            \/ \E d \in Deployments, gs \in SUBSET Gpus : CreateLoad(t, d, gs)
            \/ \E d \in Deployments, a \in AdminActions : RequestLoad(t, d, a)
            \/ \E a \in Actions : RequestCheck(t, a)
            \/ End(t)
      BY <1>2 DEF Administer, CreateCommit, RequestCommit, RequestEnds
    <2>2. CASE \/ \E d \in Deployments, gs \in SUBSET Gpus : CreateLoad(t, d, gs)
               \/ \E d \in Deployments, a \in AdminActions : RequestLoad(t, d, a)
      BY <2>2, FreshBegin DEF CreateLoad, RequestLoad
    <2>3. CASE \E a \in Actions : RequestCheck(t, a)
      <3>1. txn[t] \in LoadedTxn
        BY <1>1, <2>3, KindsOfTxn DEF RequestCheck, CentralTypeOK
      <3>2. /\ txn'[t].kind = "checked" /\ txn'[t].dep = txn[t].dep
            /\ txn'[t].status = txn[t].status /\ txn'[t].desired = txn[t].desired
            /\ dep' = dep /\ txn[t].kind = "loaded"
        BY <1>1, <2>3, <3>1 DEF RequestCheck, CentralTypeOK, LoadedTxn
      <3> QED
        BY <3>2 DEF OneAtATime, FreshReads
    <2> QED
      BY <1>1, <2>1, <2>2, <2>3, EndReadsNothing
  <1>3. CASE Claiming
    <2>1. PICK t \in Txns : AgentClaims(t) \/ End(t)
      BY <1>3 DEF Claiming, ClaimAnswered, ClaimUnheard, ClaimCommit, ClaimEmpty, ClaimFindsNothing
    <2> QED
      BY <1>1, <2>1, FreshBegin, EndReadsNothing DEF AgentClaims, ClaimLoad
  <1>4. CASE Reported
    <2>1. \/ \E m \in reports : CompleteRefused(m)
          \/ \E d \in Deployments : RuntimeSkipped(d)
          \/ \E t \in Txns : \/ \E m \in reports : CompleteLoad(t, m)
                             \/ \E d \in Deployments : RuntimeLoad(t, d)
                             \/ End(t)
      BY <1>4 DEF Reported, CompleteCommit, DeleteCommit, CompleteRollsBack, RuntimeCommit
    <2>2. CASE \/ \E m \in reports : CompleteRefused(m)
               \/ \E d \in Deployments : RuntimeSkipped(d)
      BY <2>2, FreshKept DEF CompleteRefused, RuntimeSkipped, RowsAreKept
    <2>3. CASE \E t \in Txns : \/ \E m \in reports : CompleteLoad(t, m)
                               \/ \E d \in Deployments : RuntimeLoad(t, d)
      BY <2>3, FreshBegin DEF CompleteLoad, RuntimeLoad
    <2> QED
      BY <1>1, <2>1, <2>2, <2>3, EndReadsNothing
  <1>5. CASE \E o \in OpIds : LeaseRunsOut(o)
    <2>1. RowsAreKept /\ txn' = txn
      BY <1>5 DEF LeaseRunsOut, LeaseExpires, RowsAreKept, Inv, TypeOK, BaseTypeOK, OpRow
    <2> QED
      BY <2>1, FreshKept
  <1>6. CASE ClaimTimesOut \/ AgentCrashes
    <2>1. RowsAreKept /\ txn' = Deafened
      BY <1>6 DEF ClaimTimesOut, AgentCrashes, RowsAreKept
    <2>2. \A t \in Txns : txn[t].kind = "claim" => txn[t] \in ClaimTxn
      BY <1>1, KindsOfTxn DEF CentralTypeOK
    <2>3. \A t \in Txns : txn'[t].kind # "claim" => txn'[t] = txn[t]
      BY <2>1, <2>2 DEF Deafened, ClaimTxn
    <2> QED
      BY <2>1, <2>3, FreshKept
  <1>7. CASE \/ AgentRestarts \/ AgentExecutes \/ MessageLost \/ UNCHANGED vars
             \/ \E d \in Deployments : AgentAsks(d) \/ AgentObserves(d) \/ Exit(d)
    <2>1. dep' = dep /\ ops' = ops /\ txn' = txn
      BY <1>7 DEF AgentRestarts, AgentExecutes, Execute, MessageLost, AgentAsks, AgentObserves,
         Exit, vars
    <2> QED
      BY <2>1, FreshKept DEF RowsAreKept
  <1> QED
    BY <1>2, <1>3, <1>4, <1>5, <1>6, <1>7 DEF Next

-----------------------------------------------------------------------------
(* Status and desired state. *)

StatusInv == DesiredIsCurrent /\ TransitionIsDriven

Transitional == {"queued", "starting", "stopping", "restarting", "deleting"}

\* The operation o drives the status of d on.
DrivenBy(d, o) ==
  IF dep[d].status = "queued"
  THEN ops[o].action = "create"
  ELSE ops[o].status = "running" /\ dep[d].status = TransitionStatus(ops[o].action)

LEMMA StatusInit == Init => StatusInv /\ FreshReads
  BY DEF Init, BaseInit, CentralInit, NoOp, NoTxn, StatusInv, DesiredIsCurrent,
     TransitionIsDriven, ActiveOps, FreshReads

\* A deployment whose row and operations are left alone.
LEMMA LeftAlone ==
  ASSUME StatusInv, NEW d \in Deployments, dep'[d] = dep[d],
         \A o \in OpIds :
           \/ ops'[o].dep # d /\ ops[o].dep # d
           \/ /\ ops'[o].status = ops[o].status /\ ops'[o].dep = ops[o].dep
              /\ ops'[o].action = ops[o].action
  PROVE  /\ \A o \in ActiveOps(d)' : dep'[d].desired = DesiredBy(ops'[o].action)
         /\ dep'[d].status \in Transitional => \E o \in ActiveOps(d)' : DrivenBy(d, o)'
  <1>1. ActiveOps(d)' = ActiveOps(d) /\ \A o \in ActiveOps(d) : ops[o].dep = d
    BY DEF ActiveOps
  <1>2. \A o \in ActiveOps(d) : ops'[o].status = ops[o].status /\ ops'[o].action = ops[o].action
    BY DEF ActiveOps
  <1>3. \A o \in ActiveOps(d) : DrivenBy(d, o) => DrivenBy(d, o)'
    BY <1>2 DEF DrivenBy
  <1>4. dep[d].status \in Transitional => \E o \in ActiveOps(d) : DrivenBy(d, o)
    BY DEF StatusInv, TransitionIsDriven, DrivenBy, Transitional
  <1> QED
    BY <1>1, <1>2, <1>3, <1>4 DEF StatusInv, DesiredIsCurrent

\* What a step has to show of the deployment that it writes.
LEMMA StatusOf ==
  ASSUME StatusInv, NEW e \in Deployments,
         \A d \in Deployments \ {e} :
           /\ dep'[d] = dep[d]
           /\ \A o \in OpIds :
                \/ ops'[o].dep # d /\ ops[o].dep # d
                \/ /\ ops'[o].status = ops[o].status /\ ops'[o].dep = ops[o].dep
                   /\ ops'[o].action = ops[o].action,
         \A o \in ActiveOps(e)' : dep'[e].desired = DesiredBy(ops'[o].action),
         dep'[e].status \in Transitional => \E o \in ActiveOps(e)' : DrivenBy(e, o)'
  PROVE  StatusInv'
  <1>1. ASSUME NEW d \in Deployments
        PROVE  /\ \A o \in ActiveOps(d)' : dep'[d].desired = DesiredBy(ops'[o].action)
               /\ dep'[d].status \in Transitional => \E o \in ActiveOps(d)' : DrivenBy(d, o)'
    BY LeftAlone
  <1>2. DesiredIsCurrent'
    BY <1>1 DEF DesiredIsCurrent
  <1>3. TransitionIsDriven'
    BY <1>1 DEF TransitionIsDriven, Transitional, DrivenBy
  <1> QED
    BY <1>2, <1>3 DEF StatusInv

\* A new operation is queued for a deployment that has none active.
LEMMA QueuedIsFree ==
  ASSUME RefInv, NEW t \in Txns, NEW o \in OpIds, CreateCommit(t, o) \/ RequestCommit(t, o)
  PROVE  ActiveOps(txn[t].dep) = {}
  <1>1. CASE CreateCommit(t, o)
    <2>1. dep[txn[t].dep].status = "absent" /\ txn[t].dep \in Deployments
      BY <1>1, KindsOfTxn DEF CreateCommit, RefInv, Inv, CreationIsFresh, TypeOK, CentralTypeOK,
         CreateTxn
    <2> QED
      BY <2>1 DEF ActiveOps, RefInv, Inv, Referential, Exists, RowStatuses
  <1>2. CASE RequestCommit(t, o)
    BY <1>2 DEF RequestCommit, RefInv, SerialInv, CheckedIsFree
  <1> QED
    BY <1>1, <1>2

LEMMA StatusQueued ==
  ASSUME RefInv, FreshReads, StatusInv, NEW t \in Txns, NEW d, d = txn[t].dep,
         NEW o \in OpIds,
         CreateCommit(t, o) \/ RequestCommit(t, o)
  PROVE  StatusInv'
  <1>1. /\ d \in Deployments
        /\ dep \in [Deployments -> DepRow] /\ ops \in [OpIds -> OpRow]
    BY KindsOfTxn DEF CreateCommit, RequestCommit, RefInv, Inv, TypeOK, BaseTypeOK,
       CentralTypeOK, CreateTxn, CheckedTxn
  <1>2. ActiveOps(d) = {}
    BY QueuedIsFree
  <1>3. PICK a \in Actions :
          /\ ops' = [ops EXCEPT ![o] = QueuedOp(d, a)]
          /\ dep'[d].desired = DesiredBy(a)
          /\ dep'[d].status \in Transitional => dep'[d].status = "queued" /\ a = "create"
    <2>1. CASE CreateCommit(t, o)
      <3>1. "create" \in Actions /\ DesiredBy("create") = "running"
        BY DEF Actions, DesiredBy
      <3> QED
        BY <1>1, <2>1, <3>1 DEF CreateCommit
    <2>2. CASE RequestCommit(t, o)
      <3>1. txn[t].action \in Actions
        BY <2>2, KindsOfTxn DEF RequestCommit, RefInv, Inv, TypeOK, CentralTypeOK, CheckedTxn
      <3>2. dep[d].status \notin Transitional
        BY <1>1, <1>2 DEF StatusInv, TransitionIsDriven, Transitional
      <3>3. dep'[d] = DepWith(d, IF txn[t].action = "create" THEN "queued" ELSE dep[d].status,
                              Stored(txn[t].desired, DesiredBy(txn[t].action), dep[d].desired))
        BY <1>1, <2>2 DEF RequestCommit
      <3>4. txn[t].desired = dep[d].desired
        BY <2>2 DEF RequestCommit, FreshReads
      <3>5. dep'[d].desired = DesiredBy(txn[t].action)
        BY <3>3, <3>4 DEF DepWith, Stored
      <3>6. dep'[d].status \in Transitional => dep'[d].status = "queued" /\ txn[t].action = "create"
        BY <3>2, <3>3 DEF DepWith
      <3>7. ops' = [ops EXCEPT ![o] = QueuedOp(d, txn[t].action)]
        BY <2>2 DEF RequestCommit
      <3> QED
        BY <3>1, <3>5, <3>6, <3>7
    <2> QED
      BY <2>1, <2>2
  <1>4. /\ \A p \in OpIds : ops'[p] = IF p = o THEN QueuedOp(d, a) ELSE ops[p]
        /\ \A e \in Deployments \ {d} : dep'[e] = dep[e]
    BY <1>1, <1>3 DEF CreateCommit, RequestCommit
  <1>5. ops[o].dep \notin Deployments
    BY NoDeploymentAssumption DEF CreateCommit, RequestCommit, IsNextOp, RefInv, Inv, Referential
  <1>6. ActiveOps(d)' = {o}
    BY <1>2, <1>4 DEF ActiveOps, QueuedOp
  <1>7. ops'[o].action = a
    BY <1>4 DEF QueuedOp
  <1>8. \A p \in ActiveOps(d)' : dep'[d].desired = DesiredBy(ops'[p].action)
    BY <1>3, <1>6, <1>7
  <1>9. dep'[d].status \in Transitional => \E p \in ActiveOps(d)' : DrivenBy(d, p)'
    BY <1>3, <1>6, <1>7 DEF DrivenBy
  <1>10. \A e \in Deployments \ {d} : \A p \in OpIds :
           \/ ops'[p].dep # e /\ ops[p].dep # e
           \/ /\ ops'[p].status = ops[p].status /\ ops'[p].dep = ops[p].dep
              /\ ops'[p].action = ops[p].action
    BY <1>4, <1>5 DEF QueuedOp
  <1> QED
    BY <1>1, <1>4, <1>8, <1>9, <1>10, StatusOf

\* A claim moves the deployment to the transition of the operation it takes.
LEMMA StatusClaimed ==
  ASSUME RefInv, StatusInv, NEW t \in Txns, NEW o \in OpIds, NEW d,
         d = ops[o].dep, ClaimCommit(t, o)
  PROVE  StatusInv'
  <1>1. ops[o].status \in {"queued", "running"} /\ ops[o].action \in Actions
    BY DEF ClaimCommit, Claimable, RefInv, Inv, OperationsNameActions
  <1>2. /\ d \in Deployments
        /\ dep \in [Deployments -> DepRow] /\ ops \in [OpIds -> OpRow]
    BY <1>1 DEF RefInv, Inv, Referential, TypeOK, BaseTypeOK
  <1>3. /\ \A p \in OpIds : ops'[p] = IF p = o THEN OpWith(o, "running", ops[o].attempt + 1, "live")
                                            ELSE ops[p]
        /\ dep'[d].status = TransitionStatus(ops[o].action) /\ dep'[d].desired = dep[d].desired
        /\ \A e \in Deployments \ {d} : dep'[e] = dep[e]
    BY <1>2 DEF ClaimCommit, DepRow
  <1>4. ActiveOps(d)' = ActiveOps(d) /\ o \in ActiveOps(d)
    BY <1>1, <1>3 DEF ActiveOps, OpWith
  <1>5. \A p \in OpIds : ops'[p].action = ops[p].action /\ ops'[p].dep = ops[p].dep
    BY <1>3 DEF OpWith
  <1>6. \A p \in ActiveOps(d)' : dep'[d].desired = DesiredBy(ops'[p].action)
    BY <1>2, <1>3, <1>4, <1>5 DEF StatusInv, DesiredIsCurrent, ActiveOps
  <1>7. DrivenBy(d, o)'
    <2>1. dep'[d].status # "queued"
      BY <1>3 DEF TransitionStatus
    <2>2. ops'[o].status = "running"
      BY <1>3 DEF OpWith
    <2> QED
      BY <1>3, <1>5, <2>1, <2>2 DEF DrivenBy
  <1>8. \A e \in Deployments \ {d} : \A p \in OpIds :
          \/ ops'[p].dep # e /\ ops[p].dep # e
          \/ /\ ops'[p].status = ops[p].status /\ ops'[p].dep = ops[p].dep
             /\ ops'[p].action = ops[p].action
    BY <1>3, <1>5
  <1> QED
    BY <1>2, <1>3, <1>4, <1>6, <1>7, <1>8, StatusOf

\* A completion commits for a deployment whose only active operation it settles.
LEMMA CompletedOp ==
  ASSUME RefInv, NEW t \in Txns, txn[t].kind = "complete", Exists(txn[t].dep)
  PROVE  /\ txn[t].report.op \in OpIds /\ txn[t].dep \in Deployments
         /\ txn[t].report.outcome \in Outcomes
         /\ ops[txn[t].report.op].dep = txn[t].dep
         /\ ops[txn[t].report.op].status = "running"
         /\ ActiveOps(txn[t].dep) = {txn[t].report.op}
  <1> DEFINE d == txn[t].dep
             o == txn[t].report.op
  <1>1. o \in OpIds /\ d \in Deployments /\ txn[t].report.outcome \in Outcomes
    BY KindsOfTxn DEF RefInv, Inv, TypeOK, CentralTypeOK, CompleteTxn, Report
  <1>2. ops[o].dep = d /\ ops[o].status = "running"
    BY DEF RefInv, Inv, CompletionIsOfDeployment, CompletionIsOfLastClaim, Exists, RowStatuses
  <1>3. \A p \in ActiveOps(d) : p = o
    BY <1>1, <1>2 DEF RefInv, SerialInv, OnlyLatestIsActive, IsLatestOp, ActiveOps, OpIds
  <1> QED
    BY <1>1, <1>2, <1>3 DEF ActiveOps

LEMMA StatusCompleted ==
  ASSUME RefInv, FreshReads, StatusInv, NEW t \in Txns, NEW d, d = txn[t].dep,
         CompleteCommit(t)
  PROVE  StatusInv'
  <1> DEFINE o == txn[t].report.op
             s == SettledStatus(ops[o].action, txn[t].report.outcome)
  <1>1. /\ o \in OpIds /\ d \in Deployments /\ txn[t].report.outcome \in {"completed", "failed"}
        /\ ops[o].dep = d /\ ActiveOps(d) = {o}
    BY CompletedOp DEF CompleteCommit, Accepted, Outcomes
  <1>2. dep \in [Deployments -> DepRow] /\ ops \in [OpIds -> OpRow]
    BY DEF RefInv, Inv, TypeOK, BaseTypeOK
  <1>3. /\ \A p \in OpIds :
             ops'[p] = IF p = o THEN OpWith(o, txn[t].report.outcome, ops[o].attempt, "none")
                                ELSE ops[p]
        /\ \A e \in Deployments \ {d} : dep'[e] = dep[e]
    BY <1>2 DEF CompleteCommit
  <1>4. ActiveOps(d)' = {}
    BY <1>1, <1>3 DEF ActiveOps, OpWith
  <1>5. dep'[d].status = s
    <2>1. txn[t].status = dep[d].status
      BY DEF CompleteCommit, FreshReads
    <2>2. dep'[d].status = Stored(txn[t].status, s, dep[d].status)
      BY <1>1, <1>2 DEF CompleteCommit, DepWith
    <2> QED
      BY <2>1, <2>2 DEF Stored
  <1>6. s \notin Transitional
    BY DEF SettledStatus, Transitional
  <1>7. \A e \in Deployments \ {d} : \A p \in OpIds :
          \/ ops'[p].dep # e /\ ops[p].dep # e
          \/ /\ ops'[p].status = ops[p].status /\ ops'[p].dep = ops[p].dep
             /\ ops'[p].action = ops[p].action
    BY <1>1, <1>3 DEF OpWith
  <1> QED
    BY <1>1, <1>3, <1>4, <1>5, <1>6, <1>7, StatusOf

LEMMA StatusDeleted ==
  ASSUME RefInv, StatusInv, NEW t \in Txns, NEW d, d = txn[t].dep,
         DeleteCommit(t)
  PROVE  StatusInv'
  <1>1. d \in Deployments
    BY CompletedOp DEF DeleteCommit, Accepted
  <1>2. dep \in [Deployments -> DepRow]
    BY DEF RefInv, Inv, TypeOK, BaseTypeOK
  <1>3. /\ \A p \in OpIds : ops'[p] = IF ops[p].dep = d THEN PurgedOp ELSE ops[p]
        /\ dep'[d].status = "gone"
        /\ \A e \in Deployments \ {d} : dep'[e] = dep[e]
    BY <1>1, <1>2 DEF DeleteCommit, WithoutOps
  <1>4. ActiveOps(d)' = {}
    BY <1>3 DEF ActiveOps, PurgedOp, NoOp
  <1>5. \A e \in Deployments \ {d} : \A p \in OpIds :
          \/ ops'[p].dep # e /\ ops[p].dep # e
          \/ /\ ops'[p].status = ops[p].status /\ ops'[p].dep = ops[p].dep
             /\ ops'[p].action = ops[p].action
    BY <1>3, NoDeploymentAssumption DEF PurgedOp, NoOp
  <1> QED
    BY <1>1, <1>3, <1>4, <1>5, StatusOf DEF Transitional

\* The status after an observation, while an operation is active and otherwise.
LEMMA ObservedStatus ==
  ASSUME Inv, FreshReads, NEW t \in Txns, RuntimeCommit(t)
  PROVE  /\ ops' = ops /\ txn[t].dep \in Deployments
         /\ \A e \in Deployments : e # txn[t].dep => dep'[e] = dep[e]
         /\ dep'[txn[t].dep].desired = dep[txn[t].dep].desired
         /\ \/ dep'[txn[t].dep].status = dep[txn[t].dep].status
            \/ /\ ActiveOps(txn[t].dep) = {}
               /\ dep'[txn[t].dep].status \in {"running", "stopped", "failed"}
  <1> DEFINE d == txn[t].dep
  <1>1. txn[t].kind = "runtime" /\ d \in Deployments /\ dep \in [Deployments -> DepRow]
    BY KindsOfTxn DEF RuntimeCommit, Inv, TypeOK, BaseTypeOK, CentralTypeOK, RuntimeTxn
  <1>2. /\ txn[t].status = dep[d].status
        /\ IF ActiveOps(d) = {} THEN txn[t].mapped \in {"running", "stopped", "failed"}
                               ELSE txn[t].mapped = txn[t].status
    BY <1>1 DEF FreshReads
  <1>3. CASE Exists(d)
    <2>1. /\ dep'[d].status = Stored(txn[t].status, txn[t].mapped, dep[d].status)
          /\ dep'[d].desired = dep[d].desired
          /\ \A e \in Deployments : e # d => dep'[e] = dep[e]
      BY <1>1, <1>3 DEF RuntimeCommit, DepRow
    <2> QED
      BY <1>1, <1>2, <2>1 DEF Stored, RuntimeCommit
  <1>4. CASE ~Exists(d)
    BY <1>1, <1>4 DEF RuntimeCommit
  <1> QED
    BY <1>3, <1>4

LEMMA StatusObserved ==
  ASSUME RefInv, FreshReads, StatusInv, NEW t \in Txns, NEW d, d = txn[t].dep,
         RuntimeCommit(t)
  PROVE  StatusInv'
  <1>1. /\ ops' = ops /\ d \in Deployments
        /\ \A e \in Deployments : e # d => dep'[e] = dep[e]
        /\ dep'[d].desired = dep[d].desired
        /\ \/ dep'[d].status = dep[d].status
           \/ ActiveOps(d) = {} /\ dep'[d].status \in {"running", "stopped", "failed"}
    BY ObservedStatus DEF RefInv
  <1>2. ActiveOps(d)' = ActiveOps(d)
    BY <1>1 DEF ActiveOps
  <1>3. \A o \in ActiveOps(d)' : dep'[d].desired = DesiredBy(ops'[o].action)
    BY <1>1, <1>2 DEF StatusInv, DesiredIsCurrent
  <1>4. dep'[d].status \in Transitional => \E o \in ActiveOps(d)' : DrivenBy(d, o)'
    <2>1. CASE dep'[d].status = dep[d].status
      <3>1. \A o : DrivenBy(d, o) => DrivenBy(d, o)'
        BY <1>1, <2>1 DEF DrivenBy
      <3>2. dep[d].status \in Transitional => \E o \in ActiveOps(d) : DrivenBy(d, o)
        BY <1>1 DEF StatusInv, TransitionIsDriven, Transitional, DrivenBy
      <3> QED
        BY <1>2, <2>1, <3>1, <3>2
    <2>2. CASE dep'[d].status \in {"running", "stopped", "failed"}
      BY <2>2 DEF Transitional
    <2> QED
      BY <1>1, <2>1, <2>2
  <1> QED
    BY <1>1, <1>3, <1>4, StatusOf

LEMMA StatusStep ==
  ASSUME RefInv, FreshReads, StatusInv, [Next]_vars
  PROVE  StatusInv'
  <1>1. CASE RowsAreKept
    <2>1. ASSUME NEW d \in Deployments
          PROVE  /\ \A o \in ActiveOps(d)' : dep'[d].desired = DesiredBy(ops'[o].action)
                 /\ dep'[d].status \in Transitional => \E o \in ActiveOps(d)' : DrivenBy(d, o)'
      BY <1>1, LeftAlone DEF RowsAreKept
    <2> QED
      BY <2>1 DEF StatusInv, DesiredIsCurrent, TransitionIsDriven, Transitional, DrivenBy
  <1> QED
    BY <1>1, RowSteps, StatusQueued, StatusClaimed, StatusCompleted, StatusDeleted,
       StatusObserved DEF RefInv

\* One request at a time: the invariants of this module and of the others.
LEMMA StatusHolds ==
  ASSUME OneAtATime
  PROVE  Spec => [](RefInv /\ FreshReads /\ StatusInv)
  <1>1. RefInv /\ [Next]_vars => CompletionIsOfLastClaim'
    BY CompletionStep
  <1>2. RefInv /\ FreshReads /\ StatusInv /\ [Next]_vars => FreshReads' /\ StatusInv'
    BY FreshStep, StatusStep DEF RefInv
  <1> QED
    BY <1>1, <1>2, StatusInit, CompletionInit, InvIsInvariant, SerialInvIsInvariant, PTL
       DEF Spec, RefInv

\* Served one at a time, no request or report redirects a deployment while an
\* operation on it is queued or running.
THEOREM DesiredStaysCurrent ==
  ASSUME OneAtATime
  PROVE  Spec => []DesiredIsCurrent
  BY StatusHolds, PTL DEF StatusInv

\* Served one at a time, no deployment is left in a transition that no
\* operation moves on.
THEOREM TransitionsAreDriven ==
  ASSUME OneAtATime
  PROVE  Spec => []TransitionIsDriven
  BY StatusHolds, PTL DEF StatusInv

-----------------------------------------------------------------------------
(* What a step may do to settled operations, and to the status beside them. *)

LEMMA MovesStep ==
  ASSUME RefInv, FreshReads, [Next]_vars, NEW d \in Deployments,
         ActiveOps(d) # {}, dep'[d].status # dep[d].status
  PROVE  \E o \in OpIds : ops[o].dep = d /\ ops'[o] # ops[o]
  <1>1. dep \in [Deployments -> DepRow] /\ ops \in [OpIds -> OpRow]
    BY DEF RefInv, Inv, TypeOK, BaseTypeOK
  <1>2. ASSUME NEW t \in Txns, NEW o \in OpIds, CreateCommit(t, o) \/ RequestCommit(t, o)
        PROVE  FALSE
    BY <1>1, <1>2, QueuedIsFree DEF CreateCommit, RequestCommit
  <1>3. ASSUME NEW t \in Txns, NEW o \in OpIds, ClaimCommit(t, o)
        PROVE  ops[o].dep = d /\ ops'[o] # ops[o]
    <2>1. ops[o].dep = d
      BY <1>1, <1>3 DEF ClaimCommit
    <2>2. ops'[o].attempt = ops[o].attempt + 1 /\ ops[o].attempt \in Nat
      BY <1>1, <1>3 DEF ClaimCommit, OpWith, OpRow
    <2> QED
      BY <2>1, <2>2
  <1>4. ASSUME NEW t \in Txns, CompleteCommit(t) \/ DeleteCommit(t)
        PROVE  \E o \in OpIds : ops[o].dep = d /\ ops'[o] # ops[o]
    <2> DEFINE o == txn[t].report.op
    <2>1. /\ o \in OpIds /\ txn[t].report.outcome \in {"completed", "failed"}
          /\ ops[o].dep = txn[t].dep /\ ops[o].status = "running" /\ txn[t].dep \in Deployments
      BY <1>4, CompletedOp DEF CompleteCommit, DeleteCommit, Accepted, Outcomes
    <2>2. txn[t].dep = d
      BY <1>1, <1>4 DEF CompleteCommit, DeleteCommit
    <2>3. CASE CompleteCommit(t)
      <3>1. ops'[o].status = txn[t].report.outcome
        BY <1>1, <2>1, <2>3 DEF CompleteCommit, OpWith
      <3> QED
        BY <2>1, <2>2, <3>1
    <2>4. CASE DeleteCommit(t)
      <3>1. ops'[o].status = "purged"
        BY <2>1, <2>4 DEF DeleteCommit, WithoutOps, PurgedOp, NoOp
      <3> QED
        BY <2>1, <2>2, <3>1
    <2> QED
      BY <1>4, <2>3, <2>4
  <1>5. ASSUME NEW t \in Txns, RuntimeCommit(t)
        PROVE  FALSE
    BY <1>5, ObservedStatus DEF RefInv
  <1> QED
    BY <1>2, <1>3, <1>4, <1>5, RowSteps DEF RefInv, RowsAreKept

LEMMA SettledStep ==
  ASSUME RefInv, [Next]_vars, NEW o \in OpIds, ops[o].status \in {"completed", "failed"}
  PROVE  ops'[o] = ops[o] \/ ops'[o] = PurgedOp
  <1>1. ops \in [OpIds -> OpRow] /\ ops[o].lease = "none"
    BY DEF RefInv, Inv, TypeOK, BaseTypeOK, RunningIsRecoverable
  <1>2. ASSUME NEW t \in Txns, NEW p \in OpIds, CreateCommit(t, p) \/ RequestCommit(t, p)
        PROVE  ops'[o] = ops[o]
    BY <1>1, <1>2 DEF CreateCommit, RequestCommit, IsNextOp
  <1>3. ASSUME NEW t \in Txns, NEW p \in OpIds, ClaimCommit(t, p)
        PROVE  ops'[o] = ops[o]
    BY <1>1, <1>3 DEF ClaimCommit, Claimable
  <1>4. ASSUME NEW t \in Txns, CompleteCommit(t)
        PROVE  ops'[o] = ops[o]
    <2>1. ops[txn[t].report.op].status = "running"
      BY <1>4, CompletedOp DEF CompleteCommit, Accepted
    <2> QED
      BY <1>1, <1>4, <2>1 DEF CompleteCommit
  <1>5. ASSUME NEW t \in Txns, DeleteCommit(t)
        PROVE  ops'[o] = ops[o] \/ ops'[o] = PurgedOp
    BY <1>1, <1>5 DEF DeleteCommit, WithoutOps
  <1>6. ASSUME NEW t \in Txns, RuntimeCommit(t)
        PROVE  ops'[o] = ops[o]
    BY <1>6 DEF RuntimeCommit
  <1> QED
    BY <1>1, <1>2, <1>3, <1>4, <1>5, <1>6, RowSteps DEF RefInv, RowsAreKept

\* Served one at a time, nothing settles an operation twice, and only the
\* deletion of its deployment takes it away.
THEOREM SettledStaysSettled ==
  ASSUME OneAtATime
  PROVE  Spec => SettledIsFinal
  <1>1. RefInv /\ [Next]_vars =>
          [\A o \in OpIds : ops[o].status \in {"completed", "failed"} =>
             ops'[o] = ops[o] \/ ops'[o] = PurgedOp]_vars
    BY SettledStep
  <1> QED
    BY <1>1, StatusHolds, PTL DEF Spec, SettledIsFinal

\* Served one at a time, no observation moves the status of a deployment under
\* an operation that is queued or running.
THEOREM StatusMovesWithItsOperation ==
  ASSUME OneAtATime
  PROVE  Spec => StatusMovesWithOperation
  <1>1. RefInv /\ FreshReads /\ [Next]_vars =>
          [\A d \in Deployments :
             ActiveOps(d) # {} /\ dep'[d].status # dep[d].status =>
               \E o \in OpIds : ops[o].dep = d /\ ops'[o] # ops[o]]_vars
    BY MovesStep
  <1> QED
    BY <1>1, StatusHolds, PTL DEF Spec, StatusMovesWithOperation
=============================================================================
