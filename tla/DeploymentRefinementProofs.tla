--------------------- MODULE DeploymentRefinementProofs ---------------------
(***************************************************************************)
(* DeploymentSystem implements LeasedWork when Central serves one request  *)
(* at a time: every step of the system is a step of the abstract           *)
(* specification, or changes nothing of it.                                *)
(***************************************************************************)
EXTENDS DeploymentSerialProofs

(***************************************************************************)
(* A claim and the check of a lease find the operation free, or held, and  *)
(* commit later.  The serial invariant says so of claims; completions need *)
(* the same: until it commits, nothing hands its operation out again.      *)
(***************************************************************************)
CompletionIsOfLastClaim ==
  \A t \in Txns : txn[t].kind = "complete" =>
    /\ ops[txn[t].report.op].status = "running"
    /\ ops[txn[t].report.op].attempt = txn[t].report.attempt

RefInv == Inv /\ SerialInv /\ CompletionIsOfLastClaim

LEMMA CompletionInit == Init => CompletionIsOfLastClaim
  BY DEF Init, CentralInit, NoTxn, CompletionIsOfLastClaim

\* With a single slot, no completion is under way when a transaction has ended.
LEMMA EndsNoCompletion ==
  ASSUME OneAtATime, CentralTypeOK, NEW t \in Txns, End(t)
  PROVE  CompletionIsOfLastClaim'
  BY DEF OneAtATime, CentralTypeOK, End, NoTxn, CompletionIsOfLastClaim

\* Nor while anything else is.
LEMMA BeginsNoCompletion ==
  ASSUME OneAtATime, CentralTypeOK, NEW t \in Txns, NEW x, x.kind # "complete", Begin(t, x)
  PROVE  CompletionIsOfLastClaim'
  BY DEF OneAtATime, CentralTypeOK, Begin, CompletionIsOfLastClaim

\* Steps that move neither the status nor the claim of an operation.
LEMMA CompletionKept ==
  ASSUME RefInv,
         \A o \in OpIds : ops'[o].status = ops[o].status /\ ops'[o].attempt = ops[o].attempt,
         \A t \in Txns : txn'[t].kind = "complete" => txn'[t] = txn[t]
  PROVE  CompletionIsOfLastClaim'
  <1> SUFFICES ASSUME NEW t \in Txns, txn'[t].kind = "complete"
               PROVE  /\ ops'[txn'[t].report.op].status = "running"
                      /\ ops'[txn'[t].report.op].attempt = txn'[t].report.attempt
    BY DEF CompletionIsOfLastClaim
  <1>1. txn'[t] = txn[t] /\ txn[t].kind = "complete"
    OBVIOUS
  <1>2. txn[t].report.op \in OpIds
    BY <1>1, KindsOfTxn DEF RefInv, Inv, TypeOK, CentralTypeOK, CompleteTxn, Report
  <1> QED
    BY <1>1, <1>2 DEF RefInv, CompletionIsOfLastClaim

\* Every step.
LEMMA CompletionStep ==
  ASSUME OneAtATime, RefInv, [Next]_vars
  PROVE  CompletionIsOfLastClaim'
  <1>0. CentralTypeOK
    BY DEF RefInv, Inv, TypeOK
  <1>1. CASE Administer
    <2>1. PICK t \in Txns :
            \/ \E d \in Deployments, gs \in SUBSET Gpus : CreateLoad(t, d, gs)
            \/ \E d \in Deployments, a \in AdminActions : RequestLoad(t, d, a)
            \/ \E a \in Actions : RequestCheck(t, a)
            \/ End(t)
      BY <1>1 DEF Administer, CreateCommit, RequestCommit, RequestEnds
    <2>2. CASE \E d \in Deployments, gs \in SUBSET Gpus : CreateLoad(t, d, gs)
      BY <1>0, <2>2, BeginsNoCompletion DEF CreateLoad
    <2>3. CASE \E d \in Deployments, a \in AdminActions : RequestLoad(t, d, a)
      BY <1>0, <2>3, BeginsNoCompletion DEF RequestLoad
    <2>4. CASE \E a \in Actions : RequestCheck(t, a)
      BY <1>0, <2>4, CompletionKept DEF RequestCheck, CentralTypeOK
    <2> QED
      BY <1>0, <2>1, <2>2, <2>3, <2>4, EndsNoCompletion
  <1>2. CASE Claiming
    BY <1>0, <1>2, EndsNoCompletion, BeginsNoCompletion
       DEF Claiming, AgentClaims, ClaimLoad, ClaimAnswered, ClaimUnheard, ClaimCommit,
           ClaimEmpty, ClaimFindsNothing
  <1>3. CASE \E m \in reports : CompleteRefused(m)
    BY <1>3, CompletionKept DEF CompleteRefused
  <1>4. CASE \E m \in reports, t \in Txns : CompleteLoad(t, m)
    <2>1. PICK m \in reports, t \in Txns : CompleteLoad(t, m)
      BY <1>4
    <2>2. txn'[t].kind = "complete" /\ txn'[t].report = m /\ ops' = ops
      BY <1>0, <2>1 DEF CompleteLoad, Begin, CentralTypeOK
    <2> QED
      BY <2>1, <2>2 DEF OneAtATime, CompletionIsOfLastClaim, CompleteLoad, LeaseHeldBy
  <1>5. CASE \E t \in Txns : \/ CompleteCommit(t) \/ DeleteCommit(t)
                             \/ CompleteRollsBack(t) \/ RuntimeCommit(t)
    BY <1>0, <1>5, EndsNoCompletion DEF CompleteCommit, DeleteCommit, CompleteRollsBack, RuntimeCommit
  <1>6. CASE \E d \in Deployments : RuntimeSkipped(d)
    BY <1>6, CompletionKept DEF RuntimeSkipped
  <1>7. CASE \E d \in Deployments, t \in Txns : RuntimeLoad(t, d)
    BY <1>0, <1>7, BeginsNoCompletion DEF RuntimeLoad
  <1>8. CASE \E o \in OpIds : LeaseRunsOut(o)
    BY <1>8, CompletionKept DEF LeaseRunsOut, LeaseExpires, RefInv, Inv, TypeOK, BaseTypeOK, OpRow
  <1>9. CASE ClaimTimesOut \/ AgentCrashes
    <2>1. ops' = ops /\ txn' = Deafened
      BY <1>9 DEF ClaimTimesOut, AgentCrashes
    <2>2. \A t \in Txns : txn[t].kind = "claim" => txn[t] \in ClaimTxn
      BY <1>0, KindsOfTxn DEF CentralTypeOK
    <2>3. \A t \in Txns : txn'[t].kind = "complete" => txn'[t] = txn[t]
      BY <2>1, <2>2 DEF Deafened, ClaimTxn
    <2> QED
      BY <2>1, <2>3, CompletionKept
  <1>10. CASE \/ AgentRestarts \/ AgentExecutes \/ MessageLost \/ UNCHANGED vars
              \/ \E d \in Deployments : AgentAsks(d) \/ AgentObserves(d) \/ Exit(d)
    <2>1. ops' = ops /\ txn' = txn
      BY <1>10 DEF AgentRestarts, AgentExecutes, Execute, MessageLost, AgentAsks, AgentObserves,
         Exit, vars
    <2> QED
      BY <2>1, CompletionKept
  <1> QED
    BY <1>1, <1>2, <1>3, <1>4, <1>5, <1>6, <1>7, <1>8, <1>9, <1>10 DEF Next, Reported

-----------------------------------------------------------------------------
(* Steps of LeasedWork. *)

\* One operation changes its place in the abstract work.
LEMMA WorkGoes ==
  ASSUME NEW o \in OpIds, NEW state, NEW claim,
         WorkOf(o)' = [state |-> state, claim |-> claim],
         \A p \in OpIds : p # o => ops'[p] = ops[p]
  PROVE  Work!Goes(o, state, claim)
  <1>1. \A p \in OpIds : WorkOf(p)' = IF p = o THEN [state |-> state, claim |-> claim]
                                             ELSE WorkOf(p)
    BY DEF WorkOf
  <1> QED
    BY <1>1 DEF Work!Goes, Work!Item

\* Nothing happens but that answers are lost.
LEMMA AnswersLost ==
  ASSUME ops' = ops, WorkHeld' = WorkHeld, WorkAnswers' \subseteq WorkAnswers
  PROVE  Work!Next
  BY DEF Work!Next, Work!LoseAnswers, WorkOf

\* Nothing the Agent holds or sent has changed.
LEMMA AgentAsIs ==
  ASSUME phase' = phase, cmd' = cmd
  PROVE  WorkHeld' = WorkHeld
  BY DEF WorkHeld, ClaimOf

\* No answer comes up with transactions that complete nothing.
LEMMA NoNewAnswers ==
  ASSUME reports' \subseteq reports,
         \A t \in Txns : txn'[t].kind = "complete" => txn'[t] = txn[t]
  PROVE  WorkAnswers' \subseteq WorkAnswers
  <1> SUFFICES ASSUME NEW t \in Txns, txn'[t].kind = "complete"
               PROVE  ClaimOf(txn'[t].report) \in WorkAnswers
    BY DEF WorkAnswers, ClaimOf
  <1> QED
    BY DEF WorkAnswers, ClaimOf

\* The end of a transaction, or the beginning of one that completes nothing.
LEMMA SlotAnswers ==
  ASSUME CentralTypeOK, reports' \subseteq reports, NEW t \in Txns,
         End(t) \/ \E x : x.kind # "complete" /\ Begin(t, x)
  PROVE  WorkAnswers' \subseteq WorkAnswers
  <1>1. \A u \in Txns : txn'[u].kind = "complete" => txn'[u] = txn[u]
    BY DEF CentralTypeOK, End, Begin, NoTxn
  <1> QED
    BY <1>1, NoNewAnswers

\* The Agent finishes its command.
LEMMA WorkedOff ==
  ASSUME RefInv, phase \in Executing, NEW outcome, NEW state, Finish(outcome, state),
         ops' = ops, txn' = txn
  PROVE  Work!Next
  <1>1. cmd \in Command
    BY DEF RefInv, Inv, ExecutingHasCommand
  <1>2. WorkHeld = ClaimOf(cmd) /\ WorkHeld # Work!NoClaim
    BY <1>1 DEF WorkHeld, ClaimOf, Command, OpIds, Work!NoClaim
  <1>3. WorkHeld' = Work!NoClaim
    BY DEF Finish, WorkHeld, Executing, Work!NoClaim
  <1> DEFINE m == [op |-> cmd.op, attempt |-> cmd.attempt, outcome |-> outcome, state |-> state]
  <1>4. reports' = reports \cup {m} /\ ClaimOf(m) = ClaimOf(cmd)
    BY DEF Finish, ClaimOf
  <1>5. WorkAnswers' = WorkAnswers \cup {ClaimOf(m)}
    BY <1>4 DEF WorkAnswers, ClaimOf
  <1>6. \A o \in OpIds : WorkOf(o)' = WorkOf(o)
    BY DEF WorkOf
  <1> QED
    BY <1>2, <1>3, <1>4, <1>5, <1>6 DEF Work!Next, Work!WorkOff

LEMMA ExecuteRefines ==
  ASSUME RefInv, AgentExecutes
  PROVE  Work!Next
  <1> USE DEF AgentExecutes
  <1>1. ops' = ops /\ txn' = txn
    BY DEF Execute
  <1>2. phase \in Executing
    BY DEF Execute, NothingToDo, CreateContainer, FirstCall, StartContainer, StopContainer,
       RemoveContainer, CallRefused, CallFails, Executing
  <1>3. CASE \E outcome \in Outcomes, state \in ObservedStates : Finish(outcome, state)
    BY <1>1, <1>2, <1>3, WorkedOff
  <1>4. CASE phase' \in Executing /\ cmd' = cmd /\ reports' = reports
    <2>1. WorkHeld' = WorkHeld
      BY <1>2, <1>4 DEF WorkHeld, ClaimOf
    <2>2. WorkAnswers' \subseteq WorkAnswers
      BY <1>1, <1>4, NoNewAnswers
    <2> QED
      BY <1>1, <2>1, <2>2, AnswersLost
  <1> QED
    BY <1>2, <1>3, <1>4
       DEF Execute, NothingToDo, CreateContainer, FirstCall, StartContainer, StopContainer,
           RemoveContainer, CallRefused, CallFails, Executing, Outcomes, ObservedStates

LEMMA CrashRefines ==
  ASSUME RefInv, AgentCrashes \/ ClaimTimesOut
  PROVE  Work!Next
  <1>1. ops' = ops /\ reports' = reports /\ txn' = Deafened
    BY DEF AgentCrashes, ClaimTimesOut
  <1>2. \A t \in Txns : txn[t].kind = "claim" => txn[t] \in ClaimTxn
    BY KindsOfTxn DEF RefInv, Inv, TypeOK, CentralTypeOK
  <1>3. \A t \in Txns : txn'[t].kind = "complete" <=> txn[t].kind = "complete"
    BY <1>1, <1>2 DEF Deafened, ClaimTxn
  <1>4. \A t \in Txns : txn[t].kind = "complete" => txn'[t] = txn[t]
    BY <1>1 DEF Deafened
  <1>5. WorkAnswers' = WorkAnswers
    BY <1>1, <1>3, <1>4 DEF WorkAnswers, ClaimOf
  <1>6. phase' \notin Executing
    BY DEF AgentCrashes, ClaimTimesOut, Crash, ClaimIsOver, Executing
  <1>7. WorkHeld' = Work!NoClaim
    BY <1>6 DEF WorkHeld, Work!NoClaim
  <1>8. CASE phase \in Executing
    <2>1. WorkHeld # Work!NoClaim
      BY <1>8 DEF RefInv, Inv, ExecutingHasCommand, WorkHeld, ClaimOf, Command, OpIds, Work!NoClaim
    <2>2. \A o \in OpIds : WorkOf(o)' = WorkOf(o)
      BY <1>1 DEF WorkOf
    <2> QED
      BY <1>5, <1>7, <2>1, <2>2 DEF Work!Next, Work!Die
  <1>9. CASE phase \notin Executing
    BY <1>1, <1>5, <1>7, <1>9, AnswersLost DEF WorkHeld, Work!NoClaim
  <1> QED
    BY <1>8, <1>9

\* What administrators' requests do: only the commits that insert an operation
\* are seen.
LEMMA AdministerRefines ==
  ASSUME RefInv, Administer
  PROVE  Work!Next
  <1>1. reports' = reports /\ WorkHeld' = WorkHeld
    BY AgentAsIs DEF Administer, agentVars, CreateLoad, RequestLoad, RequestCheck,
       CreateCommit, RequestCommit, RequestEnds
  <1>2. PICK t \in Txns :
          \/ /\ ops' = ops
             /\ \/ \E x : x.kind # "complete" /\ Begin(t, x)
                \/ \E a \in Actions : RequestCheck(t, a)
                \/ End(t)
          \/ \E o \in OpIds : CreateCommit(t, o) \/ RequestCommit(t, o)
    <2>1. CASE \E t \in Txns, d \in Deployments, gs \in SUBSET Gpus : CreateLoad(t, d, gs)
      BY <2>1 DEF CreateLoad
    <2>2. CASE \E t \in Txns, d \in Deployments, a \in AdminActions : RequestLoad(t, d, a)
      BY <2>2 DEF RequestLoad
    <2>3. CASE \E t \in Txns, a \in Actions : RequestCheck(t, a)
      BY <2>3 DEF RequestCheck
    <2>4. CASE \E t \in Txns : RequestEnds(t)
      BY <2>4 DEF RequestEnds
    <2> QED
      BY <2>1, <2>2, <2>3, <2>4 DEF Administer
  <1>3. WorkAnswers' \subseteq WorkAnswers
    <2>1. CentralTypeOK
      BY DEF RefInv, Inv, TypeOK
    <2>2. CASE End(t) \/ \E x : x.kind # "complete" /\ Begin(t, x)
      BY <1>1, <2>1, <2>2, SlotAnswers
    <2>3. CASE \E a \in Actions : RequestCheck(t, a)
      BY <1>1, <2>1, <2>3, NoNewAnswers DEF RequestCheck, CentralTypeOK
    <2> QED
      BY <1>2, <2>2, <2>3 DEF CreateCommit, RequestCommit
  <1>4. CASE ops' = ops
    BY <1>1, <1>3, <1>4, AnswersLost
  <1>5. CASE \E o \in OpIds : CreateCommit(t, o) \/ RequestCommit(t, o)
    <2>1. PICK o \in OpIds : CreateCommit(t, o) \/ RequestCommit(t, o)
      BY <1>5
    <2>2. PICK d, a : ops' = [ops EXCEPT ![o] = QueuedOp(d, a)]
      BY <2>1 DEF CreateCommit, RequestCommit
    <2>3. IsNextOp(o) /\ End(t)
      BY <2>1 DEF CreateCommit, RequestCommit
    <2>4. /\ WorkOf(o)' = [state |-> "queued", claim |-> 0]
          /\ \A p \in OpIds : p # o => ops'[p] = ops[p]
      BY <2>2 DEF WorkOf, QueuedOp, RefInv, Inv, TypeOK, BaseTypeOK
    <2>5. Work!Goes(o, "queued", 0)
      BY <2>4, WorkGoes
    <2>6. \A p \in OpIds : p \in Work!In({"unused"}) <=> ops[p].status = "unused"
      BY DEF Work!In, WorkOf
    <2>7. WorkAnswers' = WorkAnswers
      BY <1>1, <2>1, <2>3 DEF WorkAnswers, ClaimOf, End, NoTxn, CreateCommit, RequestCommit,
         RefInv, Inv, TypeOK, CentralTypeOK
    <2>8. Work!Submit(o)
      BY <1>1, <2>3, <2>5, <2>6, <2>7 DEF Work!Submit, IsNextOp
    <2> QED
      BY <2>8 DEF Work!Next
  <1> QED
    BY <1>2, <1>4, <1>5

\* A lease that expires.
LEMMA LeaseRefines ==
  ASSUME RefInv, NEW o \in OpIds, LeaseRunsOut(o)
  PROVE  Work!Next
  <1>1. ops[o].lease = "live" /\ ops[o].status = "running"
    BY DEF LeaseRunsOut, LeaseExpires, RefInv, Inv, RunningIsRecoverable
  <1>2. /\ \A p \in OpIds : p # o => ops'[p] = ops[p]
        /\ ops'[o].lease = "expired" /\ ops'[o].status = ops[o].status
        /\ ops'[o].attempt = ops[o].attempt
    BY DEF LeaseRunsOut, LeaseExpires, RefInv, Inv, TypeOK, BaseTypeOK, OpRow
  <1>3. WorkOf(o)' = [state |-> "lapsed", claim |-> WorkOf(o).claim] /\ WorkOf(o).state = "leased"
    BY <1>1, <1>2 DEF WorkOf
  <1>4. Work!Goes(o, "lapsed", WorkOf(o).claim)
    BY <1>2, <1>3, WorkGoes
  <1>5. WorkHeld' = WorkHeld
    BY AgentAsIs DEF LeaseRunsOut, agentVars
  <1>6. WorkAnswers' = WorkAnswers
    BY DEF LeaseRunsOut, LeaseExpires, WorkAnswers, ClaimOf
  <1>7. Work!Lapse(o)
    BY <1>3, <1>4, <1>5, <1>6 DEF Work!Lapse, Work!In
  <1> QED
    BY <1>7 DEF Work!Next

\* Restarts, observations, exits and losses.
LEMMA QuietRefines ==
  ASSUME RefInv,
         \/ AgentRestarts \/ MessageLost
         \/ \E d \in Deployments : AgentAsks(d) \/ AgentObserves(d) \/ Exit(d)
  PROVE  Work!Next
  <1>1. ops' = ops /\ txn' = txn /\ reports' \subseteq reports
    BY DEF AgentRestarts, MessageLost, AgentAsks, AgentObserves, Exit, Ask, Observe
  <1>2. WorkHeld' = WorkHeld
    <2>1. CASE AgentRestarts
      BY <2>1 DEF AgentRestarts, Restart, WorkHeld, Executing
    <2>2. CASE \/ MessageLost
               \/ \E d \in Deployments : AgentAsks(d) \/ AgentObserves(d) \/ Exit(d)
      BY <2>2, AgentAsIs DEF MessageLost, AgentAsks, AgentObserves, Exit, Ask, Observe,
         ContainerExits, agentVars
    <2> QED
      BY <2>1, <2>2
  <1>3. WorkAnswers' \subseteq WorkAnswers
    BY <1>1, NoNewAnswers
  <1> QED
    BY <1>1, <1>2, <1>3, AnswersLost

\* An operation is handed out: to the Agent, or to nobody.
LEMMA ClaimRefines ==
  ASSUME OneAtATime, RefInv, NEW t \in Txns, NEW o \in OpIds, ClaimCommit(t, o),
         reports' = reports,
         WorkHeld' = WorkHeld \/ (phase = "claiming" /\ phase' = "begin" /\ cmd' = CommandFor(o))
  PROVE  Work!Next
  <1>1. LiveOps = {}
    BY DEF ClaimCommit, RefInv, SerialInv, ClaimSeesNoLease
  <1>2. Work!In({"leased"}) = {}
    BY <1>1 DEF Work!In, WorkOf, LiveOps, RefInv, Inv, TypeOK, BaseTypeOK, OpRow, OpStatuses
  <1>3. \A p \in OpIds : p \in Work!In({"queued", "lapsed"}) <=> Claimable(p)
    BY <1>1 DEF Work!In, WorkOf, Claimable, LiveOps, RefInv, Inv, RunningIsRecoverable,
       TypeOK, BaseTypeOK, OpRow, OpStatuses, Leases
  <1>4. \A p \in OpIds : ops'[p] = IF p = o THEN OpWith(o, "running", ops[o].attempt + 1, "live")
                                           ELSE ops[p]
    BY DEF ClaimCommit, RefInv, Inv, TypeOK, BaseTypeOK
  <1>5. WorkOf(o)' = [state |-> "leased", claim |-> WorkOf(o).claim + 1]
    BY <1>4 DEF WorkOf, OpWith
  <1>6. Work!Goes(o, "leased", WorkOf(o).claim + 1)
    BY <1>4, <1>5, WorkGoes
  <1>7. \/ WorkHeld' = WorkHeld
        \/ /\ WorkHeld = Work!NoClaim
           /\ WorkHeld' = [item |-> o, claim |-> WorkOf(o).claim + 1]
    BY DEF WorkHeld, Executing, CommandFor, ClaimOf, WorkOf, Work!NoClaim
  <1>8. WorkAnswers' = WorkAnswers
    BY DEF ClaimCommit, WorkAnswers, ClaimOf, End, NoTxn, RefInv, Inv, TypeOK, CentralTypeOK
  <1>9. Claimable(o) /\ \A p \in OpIds : Claimable(p) => o <= p
    BY DEF ClaimCommit
  <1>10. /\ o \in Work!In({"queued", "lapsed"})
         /\ \A p \in Work!In({"queued", "lapsed"}) : o <= p
    BY <1>3, <1>9 DEF Work!In
  <1>11. [p \in OpIds |-> WorkOf(p)][o] = WorkOf(o)
    OBVIOUS
  <1>12. Work!Claim(o)
    BY <1>2, <1>6, <1>7, <1>8, <1>10, <1>11 DEF Work!Claim
  <1> QED
    BY <1>12 DEF Work!Next

LEMMA ClaimingRefines ==
  ASSUME OneAtATime, RefInv, Claiming
  PROVE  Work!Next
  <1>1. CASE \E t \in Txns : AgentClaims(t) \/ ClaimEmpty(t)
    <2>1. PICK t \in Txns : AgentClaims(t) \/ ClaimEmpty(t)
      BY <1>1
    <2>2. /\ ops' = ops /\ reports' = reports
          /\ End(t) \/ \E x : x.kind # "complete" /\ Begin(t, x)
      BY <2>1 DEF AgentClaims, ClaimLoad, ClaimEmpty, ClaimFindsNothing
    <2>3. WorkHeld' = WorkHeld
      BY <2>1 DEF AgentClaims, BeginClaim, ClaimEmpty, ClaimIsOver, agentVars, WorkHeld,
         Executing, ClaimOf
    <2> QED
      BY <2>2, <2>3, SlotAnswers, AnswersLost DEF RefInv, Inv, TypeOK
  <1>2. CASE \E t \in Txns, o \in OpIds : ClaimAnswered(t, o)
    BY <1>2, ClaimRefines DEF ClaimAnswered, ClaimCommit, ReceiveCommand
  <1>3. CASE \E t \in Txns, o \in OpIds : ClaimUnheard(t, o)
    <2>1. PICK t \in Txns, o \in OpIds : ClaimUnheard(t, o)
      BY <1>3
    <2>2. WorkHeld' = WorkHeld
      BY <2>1 DEF ClaimUnheard, ClaimIsOver, agentVars, WorkHeld, Executing, ClaimOf
    <2> QED
      BY <2>1, <2>2, ClaimRefines DEF ClaimUnheard, ClaimCommit
  <1> QED
    BY <1>1, <1>2, <1>3 DEF Claiming

\* A completion that commits answers the last claim of its operation.
LEMMA CompletionAnswers ==
  ASSUME RefInv, NEW t \in Txns, txn[t].kind = "complete"
  PROVE  /\ txn[t].report.op \in OpIds
         /\ Work!IsAnswered(txn[t].report.op)
         /\ ops[txn[t].report.op].status = "running"
         /\ txn[t].report.outcome \in {"completed", "failed"}
  <1> DEFINE o == txn[t].report.op
  <1>1. o \in OpIds /\ txn[t].report.outcome \in {"completed", "failed"}
    BY KindsOfTxn DEF RefInv, Inv, TypeOK, CentralTypeOK, CompleteTxn, Report, Outcomes
  <1>2. ops[o].status = "running" /\ ops[o].attempt = txn[t].report.attempt
    BY DEF RefInv, CompletionIsOfLastClaim
  <1>3. o \in Work!In({"leased", "lapsed"})
    BY <1>1, <1>2 DEF Work!In, WorkOf
  <1>4. ClaimOf(txn[t].report) \in WorkAnswers
    BY DEF WorkAnswers, ClaimOf
  <1>5. Work!LastClaim(o) = ClaimOf(txn[t].report)
    BY <1>1, <1>2 DEF Work!LastClaim, WorkOf, ClaimOf
  <1> QED
    BY <1>1, <1>2, <1>3, <1>4, <1>5 DEF Work!IsAnswered

LEMMA CompleteRefines ==
  ASSUME RefInv, NEW t \in Txns, CompleteCommit(t), agentVars' = agentVars
  PROVE  Work!Next
  <1>0. PICK o \in OpIds, outcome \in {"completed", "failed"} :
          o = txn[t].report.op /\ outcome = txn[t].report.outcome
    BY CompletionAnswers DEF CompleteCommit
  <1>1. Work!IsAnswered(o)
    BY <1>0, CompletionAnswers DEF CompleteCommit
  <1>2. \A p \in OpIds : ops'[p] = IF p = o THEN OpWith(o, outcome, ops[o].attempt, "none")
                                           ELSE ops[p]
    BY <1>0 DEF CompleteCommit, RefInv, Inv, TypeOK, BaseTypeOK
  <1>3. WorkOf(o)' = [state |-> "settled", claim |-> WorkOf(o).claim]
    BY <1>1, <1>2 DEF WorkOf, OpWith
  <1>4. Work!Goes(o, "settled", WorkOf(o).claim)
    BY <1>1, <1>2, <1>3, WorkGoes
  <1>5. WorkAnswers' \subseteq WorkAnswers
    BY SlotAnswers DEF CompleteCommit, RefInv, Inv, TypeOK
  <1>6. WorkHeld' = WorkHeld
    BY AgentAsIs DEF agentVars
  <1>7. Work!Settle(o)
    BY <1>1, <1>4, <1>5, <1>6 DEF Work!Settle
  <1> QED
    BY <1>1, <1>7 DEF Work!Next

\* A deletion takes the other operations of its deployment away, and they are
\* settled: none but the latest is active.
LEMMA DeleteRefines ==
  ASSUME RefInv, NEW t \in Txns, DeleteCommit(t), agentVars' = agentVars
  PROVE  Work!Next
  <1> DEFINE o == txn[t].report.op
             d == txn[t].dep
             Gone == {p \in OpIds : ops[p].dep = d /\ p # o}
  <1>1. o \in OpIds /\ Work!IsAnswered(o) /\ ops[o].status = "running"
    BY CompletionAnswers DEF DeleteCommit
  <1>2. d \in Deployments /\ Exists(d)
    BY KindsOfTxn DEF DeleteCommit, Accepted, RefInv, Inv, TypeOK, CentralTypeOK, CompleteTxn
  <1>3. ops[o].dep = d
    BY <1>2 DEF DeleteCommit, RefInv, Inv, CompletionIsOfDeployment, Exists, RowStatuses
  <1>4. Gone \subseteq Work!In({"settled"})
    <2> SUFFICES ASSUME NEW p \in OpIds, ops[p].dep = d, p # o
                 PROVE  ops[p].status \in {"completed", "failed"}
      BY DEF Work!In, WorkOf
    <2>1. ops[p].status \notin {"unused", "purged"}
      BY <1>2, NoDeploymentAssumption DEF RefInv, Inv, Referential
    <2>2. ops[p].status \notin {"queued", "running"}
      BY <1>1, <1>2, <1>3 DEF RefInv, SerialInv, OnlyLatestIsActive, ActiveOps, IsLatestOp, OpIds
    <2> QED
      BY <2>1, <2>2 DEF RefInv, Inv, TypeOK, BaseTypeOK, OpRow, OpStatuses
  <1>5. \A p \in OpIds : ops'[p] = IF p \in Gone \cup {o} THEN PurgedOp ELSE ops[p]
    BY <1>1, <1>3 DEF DeleteCommit, WithoutOps
  <1>6. \A p \in OpIds : WorkOf(p)' = IF p \in Gone \cup {o} THEN [state |-> "removed", claim |-> 0]
                                                           ELSE WorkOf(p)
    BY <1>5 DEF WorkOf, PurgedOp, NoOp
  <1>7. WorkAnswers' \subseteq WorkAnswers
    BY SlotAnswers DEF DeleteCommit, RefInv, Inv, TypeOK
  <1>8. WorkHeld' = WorkHeld
    BY AgentAsIs DEF agentVars
  <1>9. Gone \in SUBSET Work!In({"settled"})
    BY <1>4
  <1>10. [p \in OpIds |-> WorkOf(p)]'
           = [p \in OpIds |-> IF p \in Gone \cup {o} THEN Work!Item("removed", 0)
                              ELSE [q \in OpIds |-> WorkOf(q)][p]]
    BY <1>6 DEF Work!Item
  <1> HIDE DEF Gone
  <1>11. Work!SettleAway(o)
    BY <1>1, <1>7, <1>8, <1>9, <1>10 DEF Work!SettleAway
  <1> QED
    BY <1>1, <1>11 DEF Work!Next

LEMMA ReportedRefines ==
  ASSUME OneAtATime, RefInv, Reported
  PROVE  Work!Next
  <1>1. agentVars' = agentVars /\ WorkHeld' = WorkHeld
    BY AgentAsIs DEF Reported, agentVars
  <1>2. CentralTypeOK
    BY DEF RefInv, Inv, TypeOK
  <1>3. CASE \/ \E m \in reports : CompleteRefused(m)
             \/ \E d \in Deployments : RuntimeSkipped(d)
    BY <1>1, <1>3, NoNewAnswers, AnswersLost DEF CompleteRefused, RuntimeSkipped
  <1>4. CASE \E m \in reports, t \in Txns : CompleteLoad(t, m)
    <2>1. PICK m \in reports, t \in Txns : CompleteLoad(t, m)
      BY <1>4
    <2>2. /\ ops' = ops /\ reports' = reports \ {m}
          /\ \A u \in Txns : txn'[u].kind = "complete" =>
               txn'[u] = txn[u] \/ txn'[u].report = m
      BY <1>2, <2>1 DEF CompleteLoad, Begin, CentralTypeOK
    <2>3. WorkAnswers' \subseteq WorkAnswers
      <3> SUFFICES ASSUME NEW u \in Txns, txn'[u].kind = "complete"
                   PROVE  ClaimOf(txn'[u].report) \in WorkAnswers
        BY <2>2 DEF WorkAnswers, ClaimOf
      <3> QED
        BY <2>1, <2>2 DEF WorkAnswers, ClaimOf
    <2> QED
      BY <1>1, <2>2, <2>3, AnswersLost
  <1>5. CASE \E t \in Txns : CompleteCommit(t)
    BY <1>1, <1>5, CompleteRefines
  <1>6. CASE \E t \in Txns : DeleteCommit(t)
    BY <1>1, <1>6, DeleteRefines
  <1>7. CASE \E t \in Txns : \/ CompleteRollsBack(t) \/ RuntimeCommit(t)
                             \/ \E d \in Deployments : RuntimeLoad(t, d)
    <2>1. PICK t \in Txns : \/ CompleteRollsBack(t) \/ RuntimeCommit(t)
                            \/ \E d \in Deployments : RuntimeLoad(t, d)
      BY <1>7
    <2>2. /\ ops' = ops /\ reports' = reports
          /\ End(t) \/ \E x : x.kind # "complete" /\ Begin(t, x)
      BY <2>1 DEF CompleteRollsBack, RuntimeCommit, RuntimeLoad
    <2> QED
      BY <1>1, <1>2, <2>2, SlotAnswers, AnswersLost
  <1> QED
    BY <1>3, <1>4, <1>5, <1>6, <1>7 DEF Reported

-----------------------------------------------------------------------------
(* The theorem. *)

LEMMA WorkInit == Init => Work!Init
  BY DEF Init, BaseInit, CentralInit, AgentInit, NoOp, NoTxn, Work!Init, Work!Item, Work!NoClaim,
     WorkOf, WorkHeld, WorkAnswers, Executing

LEMMA WorkStep ==
  ASSUME OneAtATime, RefInv, [Next]_vars
  PROVE  Work!Next
  <1>1. CASE Administer
    BY <1>1, AdministerRefines
  <1>2. CASE Claiming
    BY <1>2, ClaimingRefines
  <1>3. CASE Reported
    BY <1>3, ReportedRefines
  <1>4. CASE \E o \in OpIds : LeaseRunsOut(o)
    BY <1>4, LeaseRefines
  <1>5. CASE ClaimTimesOut \/ AgentCrashes
    BY <1>5, CrashRefines
  <1>6. CASE AgentExecutes
    BY <1>6, ExecuteRefines
  <1>7. CASE \/ AgentRestarts \/ MessageLost
             \/ \E d \in Deployments : AgentAsks(d) \/ AgentObserves(d) \/ Exit(d)
    BY <1>7, QuietRefines
  <1>8. CASE UNCHANGED vars
    BY <1>8, AgentAsIs, NoNewAnswers, AnswersLost DEF vars, agentVars
  <1> QED
    BY <1>1, <1>2, <1>3, <1>4, <1>5, <1>6, <1>7, <1>8 DEF Next

\* Served one at a time, requests and reports make the deployment service and
\* the Agent an implementation of leased work: for any number of deployments
\* and operations and any faults, an operation is settled only by the report of
\* whoever executed its last claim.
THEOREM OperationsAreLeasedWork ==
  ASSUME OneAtATime
  PROVE  Spec => IsLeasedWork
  <1>1. Init => Work!Init
    BY WorkInit
  <1>2. RefInv /\ [Next]_vars => CompletionIsOfLastClaim'
    BY CompletionStep
  <1>3. RefInv /\ [Next]_vars => Work!Next
    BY WorkStep
  <1>4. Spec => []RefInv
    BY <1>2, CompletionInit, InvIsInvariant, SerialInvIsInvariant, PTL DEF Spec, RefInv
  <1> QED
    BY <1>1, <1>3, <1>4, PTL DEF Spec, IsLeasedWork, Work!Spec
=============================================================================
