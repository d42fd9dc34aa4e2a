----------------------- MODULE DeploymentAgentProofs -----------------------
(***************************************************************************)
(* What the Agent works on, and the containers it leaves: theorems about   *)
(* DeploymentSystem when Central serves one request at a time.             *)
(***************************************************************************)
EXTENDS DeploymentStatusProofs

(***************************************************************************)
(* The inductive invariant.  A report answers a claim that was made, and   *)
(* an earlier one than the Agent is working on; so nothing it can settle   *)
(* is being executed, and no container comes up behind a deletion that is  *)
(* reported done.                                                          *)
(***************************************************************************)
IsAnswer(m) == m \in reports \/ \E t \in Txns : txn[t].kind = "complete" /\ txn[t].report = m

CommandIsOpen ==
  phase \in Executing =>
    /\ ops[cmd.op].status = "running" /\ ops[cmd.op].attempt >= cmd.attempt
    /\ ops[cmd.op].dep = cmd.dep /\ ops[cmd.op].action = cmd.action

AnswersPrecede ==
  \A m \in Report :
    IsAnswer(m) /\ phase \in Executing /\ cmd.op = m.op => m.attempt < cmd.attempt

AnswersAreOfClaims ==
  \A m \in Report : IsAnswer(m) =>
    /\ ops[m.op].status # "unused"
    /\ ops[m.op].status # "purged" => m.attempt <= ops[m.op].attempt

DeletionDone(m) ==
  /\ m.outcome = "completed" /\ m.attempt = ops[m.op].attempt
  /\ ops[m.op].status = "running" /\ ops[m.op].action = "delete"
  => container[ops[m.op].dep] = "none"

DeletionsAreDone == \A m \in Report : IsAnswer(m) => DeletionDone(m)

StartsAreMeant == phase = "start" => cmd.action # "delete"

AgentInv ==
  /\ CommandIsOpen
  /\ AnswersPrecede
  /\ AnswersAreOfClaims
  /\ DeletionsAreDone
  /\ StartsAreMeant
  /\ NoOrphanContainer

LEMMA AgentInvInit == Init => AgentInv
  BY DEF Init, BaseInit, CentralInit, AgentInit, NoTxn, AgentInv, CommandIsOpen, AnswersPrecede,
     AnswersAreOfClaims, DeletionsAreDone, IsAnswer, StartsAreMeant, NoOrphanContainer, Executing

\* The reports in flight and at Central are typed.
LEMMA AnswersAreReports ==
  ASSUME Inv, NEW m, IsAnswer(m)
  PROVE  m \in Report
  BY KindsOfTxn DEF Inv, TypeOK, BaseTypeOK, CentralTypeOK, CompleteTxn, IsAnswer

-----------------------------------------------------------------------------
(* Steps that execute nothing. *)

\* Operations keep their place, containers that are not there stay away, and no
\* report comes up.
LEMMA AgentKept ==
  ASSUME Inv, AgentInv,
         \A o \in OpIds : /\ ops'[o].status = ops[o].status /\ ops'[o].dep = ops[o].dep
                          /\ ops'[o].action = ops[o].action /\ ops'[o].attempt = ops[o].attempt,
         \A d \in Deployments : dep'[d].status = "gone" => dep[d].status = "gone",
         \A d \in Deployments : container[d] = "none" => container'[d] = "none",
         phase' \in Executing => phase' = phase /\ cmd' = cmd,
         \A m \in Report : IsAnswer(m)' => IsAnswer(m)
  PROVE  AgentInv'
  <1>1. phase' \in Executing => cmd \in Command
    BY DEF Inv, ExecutingHasCommand
  <1>2. CommandIsOpen'
    BY <1>1 DEF AgentInv, CommandIsOpen, Command
  <1>3. AnswersPrecede'
    BY DEF AgentInv, AnswersPrecede
  <1>4. AnswersAreOfClaims'
    BY DEF AgentInv, AnswersAreOfClaims, Report
  <1>5. DeletionsAreDone'
    <2> SUFFICES ASSUME NEW m \in Report, IsAnswer(m), DeletionDone(m),
                        m.outcome = "completed", m.attempt = ops[m.op].attempt,
                        ops[m.op].status = "running", ops[m.op].action = "delete"
                 PROVE  container'[ops[m.op].dep] = "none"
      BY DEF AgentInv, DeletionsAreDone, DeletionDone, Report
    <2>1. ops[m.op].dep \in Deployments
      BY DEF Inv, Referential, Report
    <2> QED
      BY <2>1 DEF DeletionDone
  <1>6. StartsAreMeant'
    BY DEF AgentInv, StartsAreMeant, Executing
  <1>7. NoOrphanContainer'
    BY DEF AgentInv, NoOrphanContainer
  <1> QED
    BY <1>2, <1>3, <1>4, <1>5, <1>6, <1>7 DEF AgentInv

\* A transaction ends, or one that completes nothing begins.
LEMMA AnswersKept ==
  ASSUME CentralTypeOK, reports' \subseteq reports, NEW t \in Txns,
         End(t) \/ \E x : x.kind # "complete" /\ Begin(t, x)
  PROVE  \A m \in Report : IsAnswer(m)' => IsAnswer(m)
  <1>1. \A u \in Txns : txn'[u].kind = "complete" => txn'[u] = txn[u]
    BY DEF CentralTypeOK, End, Begin, NoTxn
  <1> QED
    BY <1>1 DEF IsAnswer

-----------------------------------------------------------------------------
(* Steps of the Agent. *)

\* Whatever the Agent does to the container it works on, it undoes no deletion
\* that is reported.
LEMMA WorksAlone ==
  ASSUME RefInv, AgentInv, phase \in Executing, ops' = ops, dep' = dep,
         \A d \in Deployments : d # cmd.dep => container'[d] = container[d],
         container[cmd.dep] = "none" /\ container'[cmd.dep] # "none" => cmd.action # "delete"
  PROVE  /\ NoOrphanContainer'
         /\ \A m \in Report : IsAnswer(m) => DeletionDone(m)'
  <1>1. /\ cmd.op \in OpIds /\ cmd.dep \in Deployments
        /\ ops[cmd.op].status = "running" /\ ops[cmd.op].dep = cmd.dep
        /\ ops[cmd.op].action = cmd.action
    BY DEF RefInv, Inv, ExecutingHasCommand, Command, AgentInv, CommandIsOpen
  <1>2. dep[cmd.dep].status # "gone"
    BY <1>1 DEF RefInv, Inv, Referential, Exists, RowStatuses
  <1>3. NoOrphanContainer'
    BY <1>2 DEF AgentInv, NoOrphanContainer
  <1>4. ASSUME NEW m \in Report, IsAnswer(m)
        PROVE  DeletionDone(m)'
    <2> SUFFICES ASSUME m.outcome = "completed", m.attempt = ops[m.op].attempt,
                        ops[m.op].status = "running", ops[m.op].action = "delete"
                 PROVE  container'[ops[m.op].dep] = "none"
      BY DEF DeletionDone
    <2>1. m.op \in OpIds /\ ops[m.op].dep \in Deployments
      BY DEF Report, RefInv, Inv, Referential
    <2>2. container[ops[m.op].dep] = "none"
      BY <1>4 DEF AgentInv, DeletionsAreDone, DeletionDone
    <2>3. CASE ops[m.op].dep # cmd.dep
      BY <2>1, <2>2, <2>3
    <2>4. CASE ops[m.op].dep = cmd.dep
      <3>1. m.op \in ActiveOps(cmd.dep) /\ cmd.op \in ActiveOps(cmd.dep)
        BY <1>1, <2>1, <2>4 DEF ActiveOps
      <3>2. m.op = cmd.op
        BY <1>1, <3>1 DEF RefInv, SerialInv, OnlyLatestIsActive, IsLatestOp, ActiveOps, OpIds
      <3> QED
        BY <1>1, <2>2, <2>4, <3>2
    <2> QED
      BY <2>3, <2>4
  <1> QED
    BY <1>3, <1>4

\* The Agent goes on with its command.
LEMMA WorkGoesOn ==
  ASSUME RefInv, AgentInv, phase \in Executing, ops' = ops, dep' = dep, txn' = txn,
         cmd' = cmd, reports' = reports, StartsAreMeant',
         \A d \in Deployments : d # cmd.dep => container'[d] = container[d],
         container[cmd.dep] = "none" /\ container'[cmd.dep] # "none" => cmd.action # "delete"
  PROVE  AgentInv'
  <1>1. NoOrphanContainer' /\ \A m \in Report : IsAnswer(m) => DeletionDone(m)'
    BY WorksAlone
  <1>2. \A m : IsAnswer(m)' = IsAnswer(m)
    BY DEF IsAnswer
  <1>3. DeletionsAreDone'
    BY <1>1, <1>2 DEF DeletionsAreDone
  <1>4. CommandIsOpen' /\ AnswersPrecede' /\ AnswersAreOfClaims'
    BY <1>2 DEF AgentInv, CommandIsOpen, AnswersPrecede, AnswersAreOfClaims
  <1> QED
    BY <1>1, <1>3, <1>4 DEF AgentInv

\* The Agent finishes its command.
LEMMA WorkIsOver ==
  ASSUME RefInv, AgentInv, phase \in Executing, ops' = ops, dep' = dep, txn' = txn,
         NEW outcome \in Outcomes, NEW state \in ObservedStates, Finish(outcome, state),
         \A d \in Deployments : d # cmd.dep => container'[d] = container[d],
         container[cmd.dep] = "none" /\ container'[cmd.dep] # "none" => cmd.action # "delete",
         outcome = "completed" /\ cmd.action = "delete" => container'[cmd.dep] = "none"
  PROVE  AgentInv'
  <1> DEFINE n == [op |-> cmd.op, attempt |-> cmd.attempt, outcome |-> outcome, state |-> state]
  <1>1. NoOrphanContainer' /\ \A m \in Report : IsAnswer(m) => DeletionDone(m)'
    BY WorksAlone
  <1>2. \A m : IsAnswer(m)' => IsAnswer(m) \/ m = n
    BY DEF IsAnswer, Finish
  <1>3. phase' = "idle"
    BY DEF Finish
  <1>4. /\ ops[cmd.op].status = "running" /\ ops[cmd.op].attempt >= cmd.attempt
        /\ ops[cmd.op].dep = cmd.dep /\ ops[cmd.op].action = cmd.action
        /\ cmd.attempt \in Nat /\ ops[cmd.op].attempt \in Nat
    BY DEF AgentInv, CommandIsOpen, RefInv, Inv, ExecutingHasCommand, Command, TypeOK, BaseTypeOK,
       OpRow
  <1>5. AnswersAreOfClaims'
    BY <1>2, <1>4 DEF AgentInv, AnswersAreOfClaims
  <1>6. DeletionsAreDone'
    BY <1>1, <1>2, <1>4 DEF DeletionsAreDone, DeletionDone
  <1>7. CommandIsOpen' /\ AnswersPrecede' /\ StartsAreMeant'
    BY <1>3 DEF CommandIsOpen, AnswersPrecede, StartsAreMeant, Executing
  <1> QED
    BY <1>1, <1>5, <1>6, <1>7 DEF AgentInv

LEMMA ExecuteKeeps ==
  ASSUME RefInv, AgentInv, AgentExecutes
  PROVE  AgentInv'
  <1>1. /\ ops' = ops /\ dep' = dep /\ txn' = txn /\ phase \in Executing
        /\ container \in [Deployments -> ContainerStates]
        /\ cmd.dep \in Deployments
    <2>1. phase \in Executing
      BY DEF AgentExecutes, Execute, NothingToDo, CreateContainer, FirstCall, StartContainer,
         StopContainer, RemoveContainer, CallRefused, CallFails, Executing
    <2> QED
      BY <2>1 DEF AgentExecutes, Execute, RefInv, Inv, TypeOK, AgentTypeOK, ExecutingHasCommand,
         Command
  <1>2. CASE NothingToDo
    BY <1>1, <1>2, WorkIsOver DEF NothingToDo, Outcomes, ObservedStates
  <1>3. CASE CreateContainer
    BY <1>1, <1>3, WorkGoesOn DEF CreateContainer, StartsAreMeant
  <1>4. CASE FirstCall
    BY <1>1, <1>4, WorkGoesOn DEF FirstCall, StartsAreMeant
  <1>5. CASE StartContainer
    <2>1. cmd.action # "delete"
      BY <1>5 DEF StartContainer, AgentInv, StartsAreMeant
    <2> QED
      BY <1>1, <1>5, <2>1, WorkIsOver DEF StartContainer, Outcomes, ObservedStates
  <1>6. CASE StopContainer
    <2>1. /\ \A d \in Deployments : d # cmd.dep => container'[d] = container[d]
          /\ container[cmd.dep] = "none" => container'[cmd.dep] = "none"
      BY <1>1, <1>6 DEF StopContainer
    <2>2. CASE cmd.action = "stop" /\ Finish("completed", "stopped")
      BY <1>1, <2>1, <2>2, WorkIsOver DEF Outcomes, ObservedStates
    <2>3. CASE cmd.action \in {"restart", "delete"}
      <3>1. StartsAreMeant' /\ cmd' = cmd /\ reports' = reports
        BY <1>6, <2>3 DEF StopContainer, StartsAreMeant
      <3> QED
        BY <1>1, <2>1, <3>1, WorkGoesOn
    <2> QED
      BY <1>6, <2>2, <2>3 DEF StopContainer
  <1>7. CASE RemoveContainer
    BY <1>1, <1>7, WorkIsOver DEF RemoveContainer, Outcomes, ObservedStates
  <1>8. CASE CallRefused \/ CallFails
    BY <1>1, <1>8, WorkIsOver DEF CallRefused, CallFails, Outcomes, ObservedStates
  <1> QED
    BY <1>2, <1>3, <1>4, <1>5, <1>6, <1>7, <1>8 DEF AgentExecutes, Execute

-----------------------------------------------------------------------------
(* Commits. *)

\* An operation is inserted.
LEMMA QueueKeeps ==
  ASSUME RefInv, AgentInv, NEW t \in Txns, NEW o \in OpIds,
         CreateCommit(t, o) \/ RequestCommit(t, o), UNCHANGED agentVars
  PROVE  AgentInv'
  <1>1. /\ \E d \in Deployments : \E a : ops' = [ops EXCEPT ![o] = QueuedOp(d, a)]
        /\ IsNextOp(o)
        /\ \A e \in Deployments : dep'[e].status = "gone" => dep[e].status = "gone"
    <2>1. /\ txn[t].dep \in Deployments /\ dep \in [Deployments -> DepRow]
          /\ dep[txn[t].dep].status # "gone"
      BY KindsOfTxn DEF CreateCommit, RequestCommit, Exists, RowStatuses, RefInv, Inv, TypeOK,
         BaseTypeOK, CentralTypeOK, CreateTxn, CheckedTxn, CreationIsFresh
    <2>2. \A e \in Deployments : dep'[e].status = "gone" => dep[e].status = "gone"
      BY <2>1 DEF CreateCommit, RequestCommit, DepWith
    <2> QED
      BY <2>1, <2>2 DEF CreateCommit, RequestCommit
  <1>2. \A m \in Report : IsAnswer(m)' => IsAnswer(m)
    BY AnswersKept DEF CreateCommit, RequestCommit, RefInv, Inv, TypeOK
  <1>3. \A p \in OpIds : ops[p].status # "unused" => ops'[p] = ops[p]
    BY <1>1 DEF IsNextOp, RefInv, Inv, TypeOK, BaseTypeOK
  <1>4. \A m \in Report : IsAnswer(m) => ops[m.op].status # "unused" /\ ops'[m.op] = ops[m.op]
    BY <1>3 DEF AgentInv, AnswersAreOfClaims, Report
  <1>5. CommandIsOpen'
    <2> SUFFICES ASSUME phase \in Executing
                 PROVE  ops'[cmd.op] = ops[cmd.op]
      BY DEF AgentInv, CommandIsOpen, agentVars
    <2> QED
      BY <1>3 DEF AgentInv, CommandIsOpen, RefInv, Inv, ExecutingHasCommand, Command
  <1>6. AnswersPrecede' /\ AnswersAreOfClaims' /\ DeletionsAreDone'
    BY <1>2, <1>4 DEF AgentInv, AnswersPrecede, AnswersAreOfClaims, DeletionsAreDone,
       DeletionDone, agentVars
  <1>7. StartsAreMeant' /\ NoOrphanContainer'
    BY <1>1 DEF AgentInv, StartsAreMeant, NoOrphanContainer, agentVars
  <1> QED
    BY <1>5, <1>6, <1>7 DEF AgentInv

\* A claim is answered, or the answer is lost.
LEMMA ClaimKeeps ==
  ASSUME RefInv, AgentInv, NEW t \in Txns, NEW o \in OpIds,
         ClaimAnswered(t, o) \/ ClaimUnheard(t, o)
  PROVE  AgentInv'
  <1>1. ClaimCommit(t, o) /\ container' = container
    BY DEF ClaimAnswered, ClaimUnheard, ReceiveCommand, ClaimIsOver, agentVars
  <1>2. /\ ops \in [OpIds -> OpRow] /\ dep \in [Deployments -> DepRow]
        /\ ops[o].attempt \in Nat /\ ops[o].status \in {"queued", "running"}
        /\ ops[o].dep \in Deployments
    <2>1. ops \in [OpIds -> OpRow] /\ dep \in [Deployments -> DepRow]
      BY DEF RefInv, Inv, TypeOK, BaseTypeOK
    <2>2. ops[o].status \in {"queued", "running"}
      BY <1>1 DEF ClaimCommit, Claimable
    <2> QED
      BY <2>1, <2>2 DEF OpRow, RefInv, Inv, Referential
  <1>3. \A p \in OpIds : ops'[p] = IF p = o THEN OpWith(o, "running", ops[o].attempt + 1, "live")
                                           ELSE ops[p]
    BY <1>1, <1>2 DEF ClaimCommit
  <1>4. \A m \in Report : IsAnswer(m)' => IsAnswer(m)
    BY <1>1, AnswersKept DEF ClaimCommit, RefInv, Inv, TypeOK
  <1>5. /\ ops'[o].status = "running" /\ ops'[o].attempt = ops[o].attempt + 1
        /\ ops'[o].dep = ops[o].dep /\ ops'[o].action = ops[o].action
    BY <1>3 DEF OpWith
  <1>6. \A m \in Report : IsAnswer(m) /\ m.op = o => m.attempt <= ops[o].attempt /\ m.attempt \in Nat
    BY <1>2 DEF AgentInv, AnswersAreOfClaims, Report
  <1>7. AnswersAreOfClaims'
    BY <1>2, <1>3, <1>4, <1>5, <1>6 DEF AgentInv, AnswersAreOfClaims, Report
  <1>8. DeletionsAreDone'
    <2> SUFFICES ASSUME NEW m \in Report, IsAnswer(m)
                 PROVE  DeletionDone(m)'
      BY <1>4 DEF DeletionsAreDone
    <2>1. CASE m.op = o
      BY <1>2, <1>5, <1>6, <2>1 DEF DeletionDone
    <2>2. CASE m.op # o
      <3>1. ops'[m.op] = ops[m.op]
        BY <1>3, <2>2 DEF Report
      <3> QED
        BY <1>1, <3>1 DEF AgentInv, DeletionsAreDone, DeletionDone
    <2> QED
      BY <2>1, <2>2
  <1>9. NoOrphanContainer'
    <2>1. \A d \in Deployments : dep'[d].status = "gone" => dep[d].status = "gone"
      BY <1>1, <1>2 DEF ClaimCommit, TransitionStatus
    <2> QED
      BY <1>1, <2>1 DEF AgentInv, NoOrphanContainer
  <1>10. CASE ClaimAnswered(t, o)
    <2>1. phase' = "begin" /\ cmd' = CommandFor(o)
      BY <1>10 DEF ClaimAnswered, ReceiveCommand
    <2>2. CommandIsOpen'
      BY <1>2, <1>5, <2>1 DEF CommandIsOpen, CommandFor
    <2>3. AnswersPrecede'
      BY <1>2, <1>4, <1>6, <2>1 DEF AnswersPrecede, CommandFor
    <2>4. StartsAreMeant'
      BY <2>1 DEF StartsAreMeant
    <2> QED
      BY <1>7, <1>8, <1>9, <2>2, <2>3, <2>4 DEF AgentInv
  <1>11. CASE ClaimUnheard(t, o)
    <2>1. phase' = "idle" \/ (phase' = phase /\ cmd' = cmd)
      BY <1>11 DEF ClaimUnheard, ClaimIsOver, agentVars
    <2>2. CommandIsOpen'
      <3> SUFFICES ASSUME phase \in Executing, phase' = phase, cmd' = cmd
                   PROVE  CommandIsOpen'
        BY <2>1 DEF CommandIsOpen, Executing
      <3>1. cmd.op \in OpIds /\ cmd.attempt \in Nat
        BY DEF RefInv, Inv, ExecutingHasCommand, Command
      <3> QED
        BY <1>2, <1>3, <1>5, <3>1 DEF AgentInv, CommandIsOpen
    <2>3. AnswersPrecede' /\ StartsAreMeant'
      BY <1>4, <2>1 DEF AgentInv, AnswersPrecede, StartsAreMeant, Executing
    <2> QED
      BY <1>7, <1>8, <1>9, <2>2, <2>3 DEF AgentInv
  <1> QED
    BY <1>10, <1>11

\* What a completion settles is not being executed.
LEMMA SettlesNoWork ==
  ASSUME RefInv, AgentInv, NEW t \in Txns, txn[t].kind = "complete", phase \in Executing
  PROVE  cmd.op # txn[t].report.op
  <1>1. txn[t].report \in Report /\ IsAnswer(txn[t].report)
    BY KindsOfTxn DEF RefInv, Inv, TypeOK, CentralTypeOK, CompleteTxn, IsAnswer
  <1>2. cmd.attempt \in Nat /\ txn[t].report.attempt \in Nat
    BY <1>1 DEF RefInv, Inv, ExecutingHasCommand, Command, Report
  <1>3. SUFFICES ASSUME cmd.op = txn[t].report.op PROVE FALSE
    OBVIOUS
  <1>4. txn[t].report.attempt < cmd.attempt
    BY <1>1, <1>3 DEF AgentInv, AnswersPrecede
  <1>5. txn[t].report.attempt >= cmd.attempt
    BY <1>3 DEF AgentInv, CommandIsOpen, RefInv, CompletionIsOfLastClaim
  <1> QED
    BY <1>2, <1>4, <1>5

\* A completion that leaves the row.
LEMMA CompleteKeeps ==
  ASSUME RefInv, AgentInv, NEW t \in Txns, CompleteCommit(t), UNCHANGED agentVars
  PROVE  AgentInv'
  <1>1. /\ txn[t].report.op \in OpIds /\ txn[t].dep \in Deployments
        /\ txn[t].report.outcome \in Outcomes /\ dep[txn[t].dep].status # "gone"
    BY CompletedOp DEF CompleteCommit, Accepted, Exists, RowStatuses
  <1>2. dep \in [Deployments -> DepRow] /\ ops \in [OpIds -> OpRow]
    BY DEF RefInv, Inv, TypeOK, BaseTypeOK
  <1>3. \A p \in OpIds :
          ops'[p] = IF p = txn[t].report.op
                    THEN OpWith(p, txn[t].report.outcome, ops[p].attempt, "none") ELSE ops[p]
    BY <1>2 DEF CompleteCommit
  <1>4. \A m \in Report : IsAnswer(m)' => IsAnswer(m)
    BY AnswersKept DEF CompleteCommit, RefInv, Inv, TypeOK
  <1>5. CommandIsOpen'
    <2> SUFFICES ASSUME phase \in Executing
                 PROVE  ops'[cmd.op] = ops[cmd.op]
      BY DEF AgentInv, CommandIsOpen, agentVars
    <2>1. cmd.op \in OpIds /\ cmd.op # txn[t].report.op
      BY SettlesNoWork DEF CompleteCommit, RefInv, Inv, ExecutingHasCommand, Command
    <2> QED
      BY <1>3, <2>1
  <1>6. AnswersPrecede' /\ StartsAreMeant'
    BY <1>4 DEF AgentInv, AnswersPrecede, StartsAreMeant, agentVars
  <1>7. \A p \in OpIds : \/ ops'[p] = ops[p]
                         \/ /\ ops'[p].attempt = ops[p].attempt
                            /\ ops'[p].status \in {"completed", "failed"}
                            /\ ops[p].status = "running"
    BY <1>1, <1>3, CompletedOp DEF OpWith, Outcomes, CompleteCommit, Accepted
  <1>8. AnswersAreOfClaims'
    BY <1>4, <1>7 DEF AgentInv, AnswersAreOfClaims, Report
  <1>9. DeletionsAreDone'
    BY <1>4, <1>7 DEF AgentInv, DeletionsAreDone, DeletionDone, Report, agentVars
  <1>10. NoOrphanContainer'
    <2>1. dep'[txn[t].dep].status # "gone" /\ \A d \in Deployments : d # txn[t].dep => dep'[d] = dep[d]
      BY <1>1, <1>2 DEF CompleteCommit, DepWith, Stored
    <2> QED
      BY <2>1 DEF AgentInv, NoOrphanContainer, agentVars
  <1> QED
    BY <1>5, <1>6, <1>8, <1>9, <1>10 DEF AgentInv

\* A deletion that is reported done: the container is gone before the row goes.
LEMMA DeleteKeeps ==
  ASSUME RefInv, AgentInv, NEW t \in Txns, NEW d, d = txn[t].dep,
         DeleteCommit(t), UNCHANGED agentVars
  PROVE  AgentInv'
  <1>1. /\ txn[t].report \in Report /\ IsAnswer(txn[t].report)
        /\ txn[t].report.op \in OpIds /\ d \in Deployments
        /\ txn[t].report.outcome \in Outcomes
        /\ ops[txn[t].report.op].dep = d /\ ops[txn[t].report.op].status = "running"
        /\ ActiveOps(d) = {txn[t].report.op}
    BY CompletedOp, KindsOfTxn DEF DeleteCommit, Accepted, RefInv, Inv, TypeOK, CentralTypeOK,
       CompleteTxn, IsAnswer
  <1>2. dep \in [Deployments -> DepRow]
    BY DEF RefInv, Inv, TypeOK, BaseTypeOK
  <1>3. \A p \in OpIds : ops'[p] = IF ops[p].dep = d THEN PurgedOp ELSE ops[p]
    BY DEF DeleteCommit, WithoutOps
  <1>4. \A m \in Report : IsAnswer(m)' => IsAnswer(m)
    BY AnswersKept DEF DeleteCommit, RefInv, Inv, TypeOK
  <1>5. CommandIsOpen'
    <2> SUFFICES ASSUME phase \in Executing
                 PROVE  ops'[cmd.op] = ops[cmd.op]
      BY DEF AgentInv, CommandIsOpen, agentVars
    <2>1. cmd.op \in OpIds /\ ops[cmd.op].status = "running"
      BY DEF RefInv, Inv, ExecutingHasCommand, Command, AgentInv, CommandIsOpen
    <2>2. cmd.op # txn[t].report.op
      BY SettlesNoWork DEF DeleteCommit
    <2>3. ops[cmd.op].dep # d
      BY <1>1, <2>1, <2>2 DEF ActiveOps
    <2> QED
      BY <1>3, <2>1, <2>3
  <1>6. AnswersPrecede' /\ StartsAreMeant'
    BY <1>4 DEF AgentInv, AnswersPrecede, StartsAreMeant, agentVars
  <1>7. \A p \in OpIds : ops'[p] = ops[p] \/ ops'[p].status = "purged"
    BY <1>3 DEF PurgedOp, NoOp
  <1>8. AnswersAreOfClaims'
    BY <1>4, <1>7 DEF AgentInv, AnswersAreOfClaims, Report
  <1>9. DeletionsAreDone'
    BY <1>4, <1>7 DEF AgentInv, DeletionsAreDone, DeletionDone, Report, agentVars
  <1>10. NoOrphanContainer'
    <2>1. container[d] = "none"
      <3>1. txn[t].report.outcome = "completed" /\ ops[txn[t].report.op].action = "delete"
        BY <1>1 DEF DeleteCommit, SettledStatus, Outcomes
      <3>2. txn[t].report.attempt = ops[txn[t].report.op].attempt
        BY DEF DeleteCommit, RefInv, CompletionIsOfLastClaim
      <3> QED
        BY <1>1, <3>1, <3>2 DEF AgentInv, DeletionsAreDone, DeletionDone
    <2>2. \A e \in Deployments : e # d => dep'[e] = dep[e]
      BY <1>2 DEF DeleteCommit
    <2> QED
      BY <2>1, <2>2 DEF AgentInv, NoOrphanContainer, agentVars
  <1> QED
    BY <1>5, <1>6, <1>8, <1>9, <1>10 DEF AgentInv

\* An observation deletes no row.
LEMMA ObserveKeeps ==
  ASSUME RefInv, FreshReads, AgentInv, NEW t \in Txns, RuntimeCommit(t), UNCHANGED agentVars
  PROVE  AgentInv'
  <1>1. /\ ops' = ops
        /\ \A d \in Deployments : dep'[d].status = "gone" => dep[d].status = "gone"
    BY ObservedStatus DEF RefInv
  <1>2. \A m \in Report : IsAnswer(m)' => IsAnswer(m)
    BY AnswersKept DEF RuntimeCommit, RefInv, Inv, TypeOK
  <1> QED
    BY <1>1, <1>2, AgentKept DEF RefInv, agentVars

-----------------------------------------------------------------------------
(* The other steps, and the theorems. *)

\* Requests begin, or end with nothing done.
LEMMA RequestsKeep ==
  ASSUME RefInv, AgentInv, NEW t \in Txns, UNCHANGED agentVars,
         \/ \E d \in Deployments, gs \in SUBSET Gpus : CreateLoad(t, d, gs)
         \/ \E d \in Deployments, a \in AdminActions : RequestLoad(t, d, a)
         \/ \E a \in Actions : RequestCheck(t, a)
         \/ RequestEnds(t)
  PROVE  AgentInv'
  <1>1. CentralTypeOK /\ dep' = dep /\ ops' = ops /\ reports' = reports
    BY DEF RefInv, Inv, TypeOK, CreateLoad, RequestLoad, RequestCheck, RequestEnds
  <1>2. \A m \in Report : IsAnswer(m)' => IsAnswer(m)
    <2>1. CASE \/ \E d \in Deployments, gs \in SUBSET Gpus : CreateLoad(t, d, gs)
               \/ \E d \in Deployments, a \in AdminActions : RequestLoad(t, d, a)
               \/ RequestEnds(t)
      <3>1. End(t) \/ \E x : x.kind # "complete" /\ Begin(t, x)
        BY <2>1 DEF CreateLoad, RequestLoad, RequestEnds
      <3> QED
        BY <1>1, <3>1, AnswersKept
    <2>2. CASE \E a \in Actions : RequestCheck(t, a)
      <3>1. txn[t] \in LoadedTxn
        BY <1>1, <2>2, KindsOfTxn DEF RequestCheck, CentralTypeOK
      <3>2. \A u \in Txns : txn'[u].kind = "complete" => txn'[u] = txn[u]
        BY <1>1, <2>2, <3>1 DEF RequestCheck, CentralTypeOK, LoadedTxn
      <3> QED
        BY <1>1, <3>2 DEF IsAnswer
    <2> QED
      BY <2>1, <2>2
  <1> QED
    BY <1>1, <1>2, AgentKept DEF RefInv, agentVars

\* The Agent asks for work and gets none.
LEMMA ClaimsKeep ==
  ASSUME RefInv, AgentInv, NEW t \in Txns, AgentClaims(t) \/ ClaimEmpty(t)
  PROVE  AgentInv'
  <1>1. /\ CentralTypeOK /\ dep' = dep /\ ops' = ops /\ reports' = reports
        /\ container' = container
        /\ phase' \in {"claiming", "idle"} \/ (phase' = phase /\ cmd' = cmd)
    BY DEF RefInv, Inv, TypeOK, AgentClaims, ClaimEmpty, ClaimLoad, ClaimFindsNothing, BeginClaim,
       ClaimIsOver, agentVars
  <1>2. End(t) \/ \E x : x.kind # "complete" /\ Begin(t, x)
    BY DEF AgentClaims, ClaimEmpty, ClaimLoad, ClaimFindsNothing
  <1>3. \A m \in Report : IsAnswer(m)' => IsAnswer(m)
    BY <1>1, <1>2, AnswersKept
  <1> QED
    BY <1>1, <1>3, AgentKept DEF RefInv, Executing

\* Central takes a report up, refuses it, or gives the completion up.
LEMMA ReportsKeep ==
  ASSUME RefInv, AgentInv, UNCHANGED agentVars,
         \/ \E m \in reports : CompleteRefused(m) \/ \E t \in Txns : CompleteLoad(t, m)
         \/ \E t \in Txns : CompleteRollsBack(t)
         \/ \E d \in Deployments : RuntimeSkipped(d) \/ \E t \in Txns : RuntimeLoad(t, d)
  PROVE  AgentInv'
  <1>1. CentralTypeOK /\ dep' = dep /\ ops' = ops /\ reports' \subseteq reports
    BY DEF RefInv, Inv, TypeOK, CompleteRefused, CompleteLoad, CompleteRollsBack, RuntimeSkipped,
       RuntimeLoad
  <1>2. \A m \in Report : IsAnswer(m)' => IsAnswer(m)
    <2>1. CASE \/ \E m \in reports : CompleteRefused(m)
               \/ \E d \in Deployments : RuntimeSkipped(d)
      BY <1>1, <2>1 DEF CompleteRefused, RuntimeSkipped, IsAnswer
    <2>2. CASE \E m \in reports, t \in Txns : CompleteLoad(t, m)
      <3>1. PICK n \in reports, t \in Txns : CompleteLoad(t, n)
        BY <2>2
      <3>2. \A u \in Txns : txn'[u].kind = "complete" => txn'[u] = txn[u] \/ txn'[u].report = n
        BY <1>1, <3>1 DEF CentralTypeOK, CompleteLoad, Begin
      <3> QED
        BY <1>1, <3>1, <3>2 DEF IsAnswer
    <2>3. CASE \E t \in Txns : CompleteRollsBack(t) \/ \E d \in Deployments : RuntimeLoad(t, d)
      <3>1. PICK t \in Txns : CompleteRollsBack(t) \/ \E d \in Deployments : RuntimeLoad(t, d)
        BY <2>3
      <3>2. End(t) \/ \E x : x.kind # "complete" /\ Begin(t, x)
        BY <3>1 DEF CompleteRollsBack, RuntimeLoad
      <3> QED
        BY <1>1, <3>2, AnswersKept
    <2> QED
      BY <2>1, <2>2, <2>3
  <1> QED
    BY <1>1, <1>2, AgentKept DEF RefInv, agentVars

\* The Agent dies or gives up on a claim.
LEMMA FaultsKeep ==
  ASSUME RefInv, AgentInv, ClaimTimesOut \/ AgentCrashes
  PROVE  AgentInv'
  <1>1. /\ dep' = dep /\ ops' = ops /\ reports' = reports /\ container' = container
        /\ txn' = Deafened /\ phase' \in {"idle", "down"}
    BY DEF ClaimTimesOut, ClaimIsOver, AgentCrashes, Crash
  <1>2. \A t \in Txns : txn[t].kind = "claim" => txn[t] \in ClaimTxn
    BY KindsOfTxn DEF RefInv, Inv, TypeOK, CentralTypeOK
  <1>3. \A t \in Txns : txn'[t].kind = "complete" => txn'[t] = txn[t]
    BY <1>1, <1>2 DEF Deafened, ClaimTxn
  <1>4. \A m \in Report : IsAnswer(m)' => IsAnswer(m)
    BY <1>1, <1>3 DEF IsAnswer
  <1> QED
    BY <1>1, <1>4, AgentKept DEF RefInv, Executing

\* Nothing but leases, observations, messages or exits.
LEMMA OthersKeep ==
  ASSUME RefInv, AgentInv,
         \/ AgentRestarts \/ MessageLost \/ UNCHANGED vars
         \/ \E o \in OpIds : LeaseRunsOut(o)
         \/ \E d \in Deployments : AgentAsks(d) \/ AgentObserves(d) \/ Exit(d)
  PROVE  AgentInv'
  <1>1. dep' = dep /\ txn' = txn /\ reports' \subseteq reports
    BY DEF AgentRestarts, MessageLost, vars, LeaseRunsOut, LeaseExpires, AgentAsks, AgentObserves,
       Ask, Observe, Exit
  <1>2. \A o \in OpIds : /\ ops'[o].status = ops[o].status /\ ops'[o].dep = ops[o].dep
                         /\ ops'[o].action = ops[o].action /\ ops'[o].attempt = ops[o].attempt
    BY DEF AgentRestarts, MessageLost, vars, LeaseRunsOut, LeaseExpires, AgentAsks, AgentObserves,
       Exit, RefInv, Inv, TypeOK, BaseTypeOK, OpRow
  <1>3. \A d \in Deployments : container[d] = "none" => container'[d] = "none"
    BY DEF AgentRestarts, Restart, MessageLost, vars, agentVars, LeaseRunsOut, AgentAsks,
       AgentObserves, Ask, Observe, Exit, ContainerExits, RefInv, Inv, TypeOK, AgentTypeOK
  <1>4. phase' \in Executing => phase' = phase /\ cmd' = cmd
    BY DEF AgentRestarts, Restart, MessageLost, vars, agentVars, LeaseRunsOut, AgentAsks,
       AgentObserves, Ask, Observe, Exit, ContainerExits, Executing
  <1>5. \A m \in Report : IsAnswer(m)' => IsAnswer(m)
    BY <1>1 DEF IsAnswer
  <1> QED
    BY <1>1, <1>2, <1>3, <1>4, <1>5, AgentKept DEF RefInv

LEMMA AgentInvStep ==
  ASSUME RefInv, FreshReads, AgentInv, [Next]_vars
  PROVE  AgentInv'
  <1>1. CASE Administer
    BY <1>1, RequestsKeep, QueueKeeps DEF Administer
  <1>2. CASE Claiming
    BY <1>2, ClaimsKeep, ClaimKeeps DEF Claiming
  <1>3. CASE Reported
    BY <1>3, ReportsKeep, CompleteKeeps, DeleteKeeps, ObserveKeeps DEF Reported
  <1> QED
    BY <1>1, <1>2, <1>3, ExecuteKeeps, FaultsKeep, OthersKeep DEF Next

LEMMA AgentInvHolds ==
  ASSUME OneAtATime
  PROVE  Spec => []AgentInv
  <1>1. RefInv /\ FreshReads /\ AgentInv /\ [Next]_vars => AgentInv'
    BY AgentInvStep
  <1> QED
    BY <1>1, AgentInvInit, StatusHolds, PTL DEF Spec

\* Served one at a time, what the Agent executes is still open at Central, for
\* the deployment and the claim it was given: no late report of an earlier
\* claim settles it under the Agent's hands.
THEOREM WorkStaysOpen ==
  ASSUME OneAtATime
  PROVE  Spec => []ExecutesOpenWork
  <1>1. AgentInv => ExecutesOpenWork
    BY DEF AgentInv, CommandIsOpen, ExecutesOpenWork
  <1> QED
    BY <1>1, AgentInvHolds, PTL

\* Served one at a time, no container outlives the row of its deployment,
\* through crashes, lost answers and late reports.
THEOREM NoContainerIsOrphaned ==
  ASSUME OneAtATime
  PROVE  Spec => []NoOrphanContainer
  BY AgentInvHolds, PTL DEF AgentInv
=============================================================================
