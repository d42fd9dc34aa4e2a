----------------------- MODULE DeploymentSerialProofs -----------------------
(***************************************************************************)
(* Theorems about DeploymentSystem: what the guards of the service achieve *)
(* as long as no request overlaps another where the database does not keep *)
(* them apart.  That one deployment has one active operation takes only    *)
(* that no two requests on it are between their check and their commit;    *)
(* everything else may overlap.  The run "two_active" shows that this is   *)
(* needed.  SerialInv, on which the later modules build, assumes that      *)
(* Central serves one request at a time.                                   *)
(***************************************************************************)
EXTENDS DeploymentProofs

\* No two requests on a deployment have checked it and not committed yet.
ChecksApart ==
  \A s, t \in Txns :
    txn[s].kind = "checked" /\ txn[t].kind = "checked" /\ txn[s].dep = txn[t].dep => s = t

(***************************************************************************)
(* The inductive invariant.  A retry looks at the latest operation alone,  *)
(* so uniqueness is not inductive by itself: no older operation may be     *)
(* active, operations must be numbered without gaps, what a check has      *)
(* found must still be so when it commits, and the creation of a           *)
(* deployment cannot come after a request on it.                           *)
(***************************************************************************)
OpsInOrder ==
  \A p, q \in OpIds : p < q /\ ops[q].status # "unused" => ops[p].status # "unused"

OnlyLatestIsActive ==
  \A d \in Deployments : \A o \in ActiveOps(d) : IsLatestOp(o, d)

CheckedIsFree == \A t \in Txns : txn[t].kind = "checked" => ActiveOps(txn[t].dep) = {}

RequestsFollowCreation ==
  \A t \in Txns : txn[t].kind \in {"loaded", "checked"} => dep[txn[t].dep].status # "absent"

OrderInv == OpsInOrder /\ OnlyLatestIsActive /\ CheckedIsFree /\ RequestsFollowCreation

LEMMA OrderInit == Init => OrderInv
  BY DEF Init, BaseInit, CentralInit, OrderInv, OpsInOrder, OnlyLatestIsActive, ActiveOps,
     CheckedIsFree, RequestsFollowCreation, NoOp, NoTxn

-----------------------------------------------------------------------------
(* What a step may do to rows and requests. *)

\* The step makes no operation active: one that is settles, or goes with its
\* deployment.
NothingQueued ==
  \A p \in OpIds :
    /\ ops'[p].status = "unused" <=> ops[p].status = "unused"
    /\ ops'[p].dep \in {ops[p].dep, NoDeployment}
    /\ ops'[p].status \in {"queued", "running"} =>
         ops[p].status \in {"queued", "running"} /\ ops'[p].dep = ops[p].dep

\* Requests and what they have read are of deployments.
LEMMA RequestType ==
  ASSUME Inv, NEW t \in Txns, txn[t].kind \in {"loaded", "checked"}
  PROVE  txn[t].dep \in Deployments
  BY KindsOfTxn DEF Inv, TypeOK, CentralTypeOK, LoadedTxn, CheckedTxn

\* A row that was inserted is never "not yet inserted" again.
LEMMA InsertedStays ==
  ASSUME Inv, [Next]_vars, NEW d \in Deployments, dep[d].status # "absent"
  PROVE  dep'[d].status # "absent"
  <1> USE DEF Inv, TypeOK, BaseTypeOK
  <1>1. ASSUME NEW t \in Txns, NEW o \in OpIds, CreateCommit(t, o) \/ RequestCommit(t, o)
        PROVE  dep'[d].status # "absent"
    BY <1>1 DEF CreateCommit, RequestCommit, DepWith
  <1>2. ASSUME NEW t \in Txns, NEW o \in OpIds, ClaimCommit(t, o)
        PROVE  dep'[d].status # "absent"
    <2>1. TransitionStatus(ops[o].action) # "absent"
      BY DEF TransitionStatus
    <2>2. dep' = [dep EXCEPT ![ops[o].dep].status = TransitionStatus(ops[o].action)]
      BY <1>2 DEF ClaimCommit
    <2> QED
      BY <2>1, <2>2 DEF DepRow
  <1>3. ASSUME NEW t \in Txns, CompleteCommit(t)
        PROVE  dep'[d].status # "absent"
    BY <1>3, SettledType DEF CompleteCommit, DepWith, Stored, RowStatuses
  <1>4. ASSUME NEW t \in Txns, DeleteCommit(t)
        PROVE  dep'[d].status # "absent"
    BY <1>4 DEF DeleteCommit
  <1>5. ASSUME NEW t \in Txns, RuntimeCommit(t)
        PROVE  dep'[d].status # "absent"
    <2>1. txn[t].mapped \in RowStatuses
      BY <1>5, KindsOfTxn DEF RuntimeCommit, CentralTypeOK, RuntimeTxn
    <2> QED
      BY <1>5, <2>1 DEF RuntimeCommit, Stored, RowStatuses
  <1> QED
    BY <1>1, <1>2, <1>3, <1>4, <1>5, RowSteps DEF RowsAreKept

\* A request comes into a state by its own step.
LEMMA RequestSteps ==
  ASSUME Inv, [Next]_vars, NEW u \in Txns
  PROVE  /\ txn'[u].kind = "loaded" =>
              \/ txn'[u] = txn[u]
              \/ txn'[u].dep \in Deployments /\ Exists(txn'[u].dep)
         /\ txn'[u].kind = "checked" =>
              \/ txn'[u] = txn[u]
              \/ \E a \in Actions : RequestCheck(u, a)
  <1> USE DEF Inv, TypeOK, CentralTypeOK
  <1> DEFINE Goal == /\ txn'[u].kind = "loaded" =>
                          \/ txn'[u] = txn[u]
                          \/ txn'[u].dep \in Deployments /\ Exists(txn'[u].dep)
                     /\ txn'[u].kind = "checked" =>
                          \/ txn'[u] = txn[u]
                          \/ \E a \in Actions : RequestCheck(u, a)
  <1>1. ASSUME NEW t \in Txns, End(t) PROVE Goal
    BY <1>1 DEF End, NoTxn
  <1>2. ASSUME NEW t \in Txns, NEW x, Begin(t, x), x.kind \notin {"loaded", "checked"} PROVE Goal
    BY <1>2 DEF Begin
  <1>3. ASSUME NEW t \in Txns, NEW d \in Deployments, NEW a \in AdminActions, RequestLoad(t, d, a)
        PROVE  Goal
    BY <1>3 DEF RequestLoad, Begin
  <1>4. ASSUME NEW t \in Txns, NEW a \in Actions, RequestCheck(t, a) PROVE Goal
    <2>1. txn[t] \in LoadedTxn
      BY <1>4, KindsOfTxn DEF RequestCheck
    <2> QED
      BY <1>4, <2>1 DEF RequestCheck, LoadedTxn
  <1>5. ASSUME txn' = txn \/ txn' = Deafened PROVE Goal
    <2>1. txn[u].kind = "claim" => txn[u] \in ClaimTxn
      BY KindsOfTxn
    <2> QED
      BY <1>5, <2>1 DEF Deafened, ClaimTxn
  <1> SUFFICES Goal
    OBVIOUS
  <1> HIDE DEF Goal
  <1>6. CASE Administer
    <2>1. CASE \E t \in Txns, d \in Deployments, gs \in SUBSET Gpus : CreateLoad(t, d, gs)
      <3>1. PICK t \in Txns, d \in Deployments, gs \in SUBSET Gpus : CreateLoad(t, d, gs)
        BY <2>1
      <3> QED
        BY <3>1, <1>2 DEF CreateLoad
    <2>2. CASE \E t \in Txns : RequestEnds(t) \/ \E o \in OpIds : CreateCommit(t, o) \/ RequestCommit(t, o)
      BY <2>2, <1>1 DEF RequestEnds, CreateCommit, RequestCommit
    <2> QED
      BY <1>3, <1>4, <1>6, <2>1, <2>2 DEF Administer
  <1>7. CASE Claiming
    BY <1>1, <1>2, <1>7 DEF Claiming, AgentClaims, ClaimLoad, ClaimAnswered, ClaimUnheard,
       ClaimCommit, ClaimEmpty, ClaimFindsNothing
  <1>8. CASE Reported
    <2>1. CASE \E t \in Txns : \/ \E m \in reports : CompleteLoad(t, m)
                               \/ \E d \in Deployments : RuntimeLoad(t, d)
      BY <2>1, <1>2 DEF CompleteLoad, RuntimeLoad
    <2>2. CASE \E t \in Txns : \/ CompleteCommit(t) \/ DeleteCommit(t) \/ CompleteRollsBack(t)
                               \/ RuntimeCommit(t)
      BY <2>2, <1>1 DEF CompleteCommit, DeleteCommit, CompleteRollsBack, RuntimeCommit
    <2>3. CASE txn' = txn
      BY <2>3, <1>5
    <2> QED
      BY <1>8, <2>1, <2>2, <2>3 DEF Reported, CompleteRefused, RuntimeSkipped
  <1>9. CASE \/ ClaimTimesOut \/ AgentCrashes \/ AgentRestarts \/ AgentExecutes \/ MessageLost
             \/ \E d \in Deployments : AgentAsks(d) \/ AgentObserves(d) \/ Exit(d)
             \/ \E o \in OpIds : LeaseRunsOut(o)
             \/ UNCHANGED vars
    BY <1>5, <1>9 DEF ClaimTimesOut, AgentCrashes, AgentRestarts, AgentExecutes, MessageLost,
       AgentAsks, AgentObserves, Exit, LeaseRunsOut, LeaseExpires, vars
  <1> QED
    BY <1>6, <1>7, <1>8, <1>9 DEF Next

\* Operations are inserted by requests alone.
LEMMA QueueSteps ==
  ASSUME Inv, [Next]_vars
  PROVE  \/ NothingQueued
         \/ \E t \in Txns, o \in OpIds : CreateCommit(t, o) \/ RequestCommit(t, o)
  <1>1. ASSUME NEW t \in Txns, NEW o \in OpIds, ClaimCommit(t, o)
        PROVE  NothingQueued
    BY <1>1 DEF ClaimCommit, Claimable, OpWith, NothingQueued, Inv, TypeOK, BaseTypeOK
  <1>2. ASSUME NEW t \in Txns, CompleteCommit(t)
        PROVE  NothingQueued
    <2> DEFINE o == txn[t].report.op
               outcome == txn[t].report.outcome
    <2>1. /\ o \in OpIds /\ outcome \in {"completed", "failed"}
          /\ txn[t].dep \in Deployments
      BY <1>2, KindsOfTxn
         DEF CompleteCommit, Inv, TypeOK, CentralTypeOK, CompleteTxn, Report, Outcomes
    <2>2. ops[o].status # "unused"
      BY <1>2, <2>1, NoDeploymentAssumption
         DEF CompleteCommit, Accepted, Inv, CompletionIsOfDeployment, Referential, Exists,
             RowStatuses
    <2>3. \A p \in OpIds : ops'[p] = IF p = o THEN OpWith(o, outcome, ops[o].attempt, "none")
                                             ELSE ops[p]
      BY <1>2 DEF CompleteCommit, Inv, TypeOK, BaseTypeOK
    <2> QED
      BY <2>1, <2>2, <2>3 DEF OpWith, NothingQueued
  <1>3. ASSUME NEW t \in Txns, DeleteCommit(t)
        PROVE  NothingQueued
    <2>1. txn[t].dep \in Deployments
      BY <1>3, KindsOfTxn DEF DeleteCommit, Inv, TypeOK, CentralTypeOK, CompleteTxn
    <2>2. \A p \in OpIds : ops[p].dep = txn[t].dep => ops[p].status # "unused"
      BY <2>1, NoDeploymentAssumption DEF Inv, Referential
    <2> QED
      BY <1>3, <2>2 DEF DeleteCommit, WithoutOps, PurgedOp, NoOp, NothingQueued
  <1>4. CASE RowsAreKept
    BY <1>4 DEF RowsAreKept, NothingQueued
  <1>5. ASSUME NEW t \in Txns, RuntimeCommit(t)
        PROVE  NothingQueued
    BY <1>5 DEF RuntimeCommit, NothingQueued
  <1> QED
    BY <1>1, <1>2, <1>3, <1>4, <1>5, RowSteps

-----------------------------------------------------------------------------
(* One active operation. *)

\* Where nothing is queued, the order of the operations stays.
LEMMA OrderKept ==
  ASSUME OrderInv, NothingQueued
  PROVE  OpsInOrder' /\ OnlyLatestIsActive'
  <1>1. OpsInOrder'
    BY DEF OrderInv, OpsInOrder, NothingQueued
  <1>2. OnlyLatestIsActive'
    BY NoDeploymentAssumption
       DEF OrderInv, OnlyLatestIsActive, ActiveOps, IsLatestOp, NothingQueued
  <1> QED
    BY <1>1, <1>2

\* An operation is inserted for a deployment that has none active.
LEMMA OrderInserted ==
  ASSUME Inv, OrderInv, NEW o \in OpIds, IsNextOp(o), NEW d \in Deployments, NEW a,
         ActiveOps(d) = {}, ops' = [ops EXCEPT ![o] = QueuedOp(d, a)]
  PROVE  OpsInOrder' /\ OnlyLatestIsActive'
  <1> USE DEF OrderInv
  <1>1. \A p \in OpIds : ops'[p] = IF p = o THEN QueuedOp(d, a) ELSE ops[p]
    BY DEF Inv, TypeOK, BaseTypeOK
  <1>2. \A p \in OpIds : p > o => ops[p].status = "unused"
    BY DEF OpsInOrder, IsNextOp, OpIds
  <1>3. \A p \in OpIds : ops[p].status = "unused" => ops[p].dep \notin Deployments
    BY NoDeploymentAssumption DEF Inv, Referential
  <1>4. OpsInOrder'
    BY <1>1, <1>2 DEF OpsInOrder, IsNextOp, QueuedOp, OpIds
  <1>5. OnlyLatestIsActive'
    <2> SUFFICES ASSUME NEW e \in Deployments, NEW p \in OpIds, ops'[p].dep = e,
                        ops'[p].status \in {"queued", "running"},
                        NEW q \in OpIds, ops'[q].dep = e
                 PROVE  q <= p
      BY DEF OnlyLatestIsActive, ActiveOps, IsLatestOp
    <2>1. CASE p = o
      BY <1>1, <1>2, <1>3, <2>1 DEF QueuedOp, OpIds
    <2>2. CASE p # o /\ q # o
      BY <1>1, <2>2 DEF OnlyLatestIsActive, ActiveOps, IsLatestOp
    <2>3. CASE p # o /\ q = o
      BY <1>1, <2>3 DEF QueuedOp, ActiveOps
    <2> QED
      BY <2>1, <2>2, <2>3
  <1> QED
    BY <1>4, <1>5

\* The deployment that an operation is inserted for has none active: it is new,
\* or the request has seen it so.
LEMMA InsertionIsFree ==
  ASSUME Inv, OrderInv, NEW t \in Txns, NEW o \in OpIds,
         CreateCommit(t, o) \/ RequestCommit(t, o)
  PROVE  /\ txn[t].dep \in Deployments /\ ActiveOps(txn[t].dep) = {}
         /\ IsNextOp(o) /\ End(t)
         /\ \E a : ops' = [ops EXCEPT ![o] = QueuedOp(txn[t].dep, a)]
         /\ txn[t].kind = "checked" \/ dep[txn[t].dep].status = "absent"
  <1>1. CASE CreateCommit(t, o)
    <2>1. txn[t].dep \in Deployments /\ dep[txn[t].dep].status = "absent"
      BY <1>1, KindsOfTxn
         DEF CreateCommit, Inv, TypeOK, CentralTypeOK, CreateTxn, CreationIsFresh
    <2>2. ActiveOps(txn[t].dep) = {}
      BY <2>1 DEF ActiveOps, Inv, Referential, Exists, RowStatuses
    <2> QED
      BY <1>1, <2>1, <2>2 DEF CreateCommit
  <1>2. CASE RequestCommit(t, o)
    BY <1>2, RequestType DEF RequestCommit, OrderInv, CheckedIsFree
  <1> QED
    BY <1>1, <1>2

\* What a request has checked: its deployment has no active operation.
LEMMA CheckFindsNone ==
  ASSUME Inv, OrderInv, NEW t \in Txns, NEW a \in Actions, RequestCheck(t, a)
  PROVE  ActiveOps(txn[t].dep) = {}
  <1> DEFINE d == txn[t].dep
  <1>1. d \in Deployments
    BY RequestType DEF RequestCheck
  <1>2. CASE MayQueue(d, a, txn[t].status)
    BY <1>2 DEF MayQueue
  <1>3. CASE MayRetry(d, a, txn[t].status)
    <2>1. PICK o \in OpIds : IsLatestOp(o, d) /\ ops[o].status = "failed"
      BY <1>3 DEF MayRetry
    <2>2. \A p \in ActiveOps(d) : p = o
      BY <1>1, <2>1 DEF OrderInv, OnlyLatestIsActive, IsLatestOp, ActiveOps, OpIds
    <2> QED
      BY <2>1, <2>2 DEF ActiveOps
  <1> QED
    BY <1>2, <1>3 DEF RequestCheck

LEMMA CheckedStaysFree ==
  ASSUME Inv, OrderInv, ChecksApart, [Next]_vars, NEW u \in Txns, txn'[u].kind = "checked"
  PROVE  ActiveOps(txn[u].dep)' = {}
  <1>1. CASE \E a \in Actions : RequestCheck(u, a)
    <2>1. PICK a \in Actions : RequestCheck(u, a)
      BY <1>1
    <2>2. txn[u] \in LoadedTxn
      BY <2>1, KindsOfTxn DEF RequestCheck, Inv, TypeOK, CentralTypeOK
    <2>3. ops' = ops /\ txn'[u].dep = txn[u].dep
      BY <2>1, <2>2 DEF RequestCheck, LoadedTxn, Inv, TypeOK, CentralTypeOK
    <2> QED
      BY <2>1, <2>3, CheckFindsNone DEF ActiveOps
  <1>2. CASE txn'[u] = txn[u]
    <2> DEFINE d == txn[u].dep
    <2>1. d \in Deployments /\ ActiveOps(d) = {} /\ dep[d].status # "absent"
      BY <1>2, RequestType DEF OrderInv, CheckedIsFree, RequestsFollowCreation
    <2>2. CASE NothingQueued
      BY <1>2, <2>1, <2>2, NoDeploymentAssumption DEF NothingQueued, ActiveOps
    <2>3. ASSUME NEW t \in Txns, NEW o \in OpIds, CreateCommit(t, o) \/ RequestCommit(t, o)
          PROVE  ActiveOps(txn[u].dep)' = {}
      <3>1. txn[t].dep # d
        <4>1. u # t
          BY <1>2, <2>3, InsertionIsFree DEF End, NoTxn, Inv, TypeOK, CentralTypeOK
        <4> QED
          BY <1>2, <2>1, <2>3, <4>1, InsertionIsFree DEF ChecksApart
      <3>2. PICK a : ops' = [ops EXCEPT ![o] = QueuedOp(txn[t].dep, a)]
        BY <2>3, InsertionIsFree
      <3> QED
        BY <1>2, <2>1, <3>1, <3>2 DEF ActiveOps, QueuedOp, Inv, TypeOK, BaseTypeOK
    <2> QED
      BY <1>2, <2>2, <2>3, QueueSteps
  <1> QED
    BY <1>1, <1>2, RequestSteps

LEMMA OrderStep == Inv /\ OrderInv /\ ChecksApart /\ [Next]_vars => OrderInv'
  <1> SUFFICES ASSUME Inv, OrderInv, ChecksApart, [Next]_vars PROVE OrderInv'
    OBVIOUS
  <1>1. OpsInOrder' /\ OnlyLatestIsActive'
    <2>1. ASSUME NEW t \in Txns, NEW o \in OpIds, CreateCommit(t, o) \/ RequestCommit(t, o)
          PROVE  OpsInOrder' /\ OnlyLatestIsActive'
      BY <2>1, InsertionIsFree, OrderInserted
    <2> QED
      BY <2>1, OrderKept, QueueSteps
  <1>2. CheckedIsFree'
    BY CheckedStaysFree DEF CheckedIsFree
  <1>3. RequestsFollowCreation'
    <2> SUFFICES ASSUME NEW u \in Txns, txn'[u].kind \in {"loaded", "checked"}
                 PROVE  dep'[txn'[u].dep].status # "absent"
      BY DEF RequestsFollowCreation
    <2>1. CASE txn'[u] = txn[u]
      BY <2>1, RequestType, InsertedStays DEF OrderInv, RequestsFollowCreation
    <2>2. CASE txn'[u].dep \in Deployments /\ Exists(txn'[u].dep)
      BY <2>2, InsertedStays DEF Exists, RowStatuses
    <2>3. ASSUME NEW a \in Actions, RequestCheck(u, a)
          PROVE  dep'[txn'[u].dep].status # "absent"
      <3>1. txn[u] \in LoadedTxn /\ txn[u].kind = "loaded"
        BY <2>3, KindsOfTxn DEF RequestCheck, Inv, TypeOK, CentralTypeOK
      <3>2. dep' = dep /\ txn'[u].dep = txn[u].dep
        BY <2>3, <3>1 DEF RequestCheck, LoadedTxn, Inv, TypeOK, CentralTypeOK
      <3> QED
        BY <3>1, <3>2 DEF OrderInv, RequestsFollowCreation
    <2> QED
      BY <2>1, <2>2, <2>3, RequestSteps
  <1> QED
    BY <1>1, <1>2, <1>3 DEF OrderInv

LEMMA OrderIsInvariant == Spec => ([]ChecksApart => []OrderInv)
  BY OrderInit, OrderStep, InvIsInvariant, PTL DEF Spec

\* A deployment has two active operations only after two requests on it were
\* both between their check and their commit, be it an action or a retry.
\* Creations, claims, completions, observations, requests on other deployments,
\* losses and crashes may overlap them and each other as they like.
THEOREM SingleOperation == Spec => ([]ChecksApart => []OneActiveOperation)
  <1>1. OrderInv => OneActiveOperation
    BY DEF OrderInv, OneActiveOperation, OnlyLatestIsActive, ActiveOps, IsLatestOp, OpIds
  <1> QED
    BY <1>1, OrderIsInvariant, PTL

-----------------------------------------------------------------------------
(***************************************************************************)
(* One request at a time: in addition, a claim still sees no live lease    *)
(* when it commits.                                                        *)
(***************************************************************************)
OneAtATime == \A s, t \in Txns : s = t

OneLease == \A o, p \in LiveOps : o = p

ClaimSeesNoLease == \A t \in Txns : txn[t].kind = "claim" => LiveOps = {}

SerialInv ==
  /\ OpsInOrder
  /\ OnlyLatestIsActive
  /\ CheckedIsFree
  /\ OneLease
  /\ ClaimSeesNoLease

LEMMA SerialLeases ==
  ASSUME OneAtATime
  PROVE  /\ Init => OneLease /\ ClaimSeesNoLease
         /\ Inv /\ OneLease /\ ClaimSeesNoLease /\ [Next]_vars => (OneLease /\ ClaimSeesNoLease)'
  <1>1. Init => OneLease /\ ClaimSeesNoLease
    BY DEF Init, BaseInit, CentralInit, OneLease, ClaimSeesNoLease, LiveOps, NoOp, NoTxn
  <1>2. ASSUME Inv, OneLease, ClaimSeesNoLease, [Next]_vars
        PROVE  OneLease' /\ ClaimSeesNoLease'
    <2>1. CASE NothingLeased
      BY <1>2, <2>1 DEF NothingLeased, OneLease, ClaimSeesNoLease, ClaimTxns
    <2>2. ASSUME NEW t \in Txns, AgentClaims(t)
          PROVE  OneLease' /\ ClaimSeesNoLease'
      BY <2>2 DEF AgentClaims, ClaimLoad, OneLease, ClaimSeesNoLease, LiveOps
    <2>3. ASSUME NEW t \in Txns, NEW o \in OpIds, ClaimCommit(t, o)
          PROVE  OneLease' /\ ClaimSeesNoLease'
      <3>1. LiveOps' = {o}
        BY <1>2, <2>3 DEF ClaimCommit, ClaimSeesNoLease, LiveOps, OpWith, Inv, TypeOK, BaseTypeOK
      <3>2. \A u \in Txns : txn'[u] = NoTxn
        BY <1>2, <2>3 DEF ClaimCommit, End, OneAtATime, Inv, TypeOK, CentralTypeOK
      <3> QED
        BY <3>1, <3>2 DEF OneLease, ClaimSeesNoLease, NoTxn
    <2> QED
      BY <1>2, <2>1, <2>2, <2>3, LeaseSteps
  <1> QED
    BY <1>1, <1>2

THEOREM SerialInvIsInvariant ==
  ASSUME OneAtATime
  PROVE  Spec => []SerialInv
  <1>1. ChecksApart
    BY DEF OneAtATime, ChecksApart
  <1>2. OrderInv /\ OneLease /\ ClaimSeesNoLease => SerialInv
    BY DEF OrderInv, SerialInv
  <1>3. Init => OneLease /\ ClaimSeesNoLease
    BY SerialLeases
  <1>4. Inv /\ OneLease /\ ClaimSeesNoLease /\ [Next]_vars => (OneLease /\ ClaimSeesNoLease)'
    BY SerialLeases
  <1> QED
    BY <1>1, <1>2, <1>3, <1>4, OrderInit, OrderStep, InvIsInvariant, PTL DEF Spec
=============================================================================
