-------------------------- MODULE DeploymentAgent --------------------------
(***************************************************************************)
(* The Agent's deployment supervisor (deployment_supervisor.py) and its    *)
(* Docker runtime (deployment_runtime.py).  The supervisor runs one        *)
(* command at a time in a thread, one Docker call after another, and       *)
(* observes the containers of the expected deployments meanwhile.          *)
(***************************************************************************)
EXTENDS DeploymentBase

CONSTANT DockerMayFail  \* whether Docker calls may fail for reasons of their own

ASSUME DockerMayFailAssumption == DockerMayFail \in BOOLEAN

VARIABLES
  phase,     \* where the supervisor is; the Docker call due next when it executes
  cmd,       \* the command being executed
  container  \* per deployment, the container Docker has for it

agentVars == <<phase, cmd, container>>

Command == [op: OpIds, attempt: Nat \ {0}, dep: Deployments, action: Actions]
NoCmd == [op |-> 0]
Executing == {"begin", "start", "stop", "remove"}
Phases == {"down", "idle", "claiming"} \cup Executing

\* "created" was never started; "stopped" and "failed" exited with code zero
\* and with another.
ContainerStates == {"none", "created", "running", "stopped", "failed"}

AgentTypeOK ==
  /\ phase \in Phases
  /\ cmd \in Command \cup {NoCmd}
  /\ container \in [Deployments -> ContainerStates]

AgentInit ==
  /\ phase = "idle"
  /\ cmd = NoCmd
  /\ container = [d \in Deployments |-> "none"]

(***************************************************************************)
(* The supervisor (tick and _run)                                          *)
(***************************************************************************)

\* tick: no command is active, so one is claimed.  Ticks do not overlap.
BeginClaim ==
  /\ phase = "idle"
  /\ \A d \in Deployments : observed[d] # "asked"
  /\ phase' = "claiming"
  /\ UNCHANGED <<cmd, container>>

ReceiveCommand(c) ==
  /\ phase = "claiming"
  /\ phase' = "begin"
  /\ cmd' = c
  /\ UNCHANGED container

\* The answer holds no task, or the request failed.
ClaimIsOver ==
  /\ phase = "claiming"
  /\ phase' = "idle"
  /\ UNCHANGED <<cmd, container>>

\* The thread is done and the supervisor reports.  It does not report again
\* if that fails, and forgets the command either way.
Finish(outcome, state) ==
  /\ phase' = "idle"
  /\ cmd' = NoCmd
  /\ reports' = reports \cup {[op |-> cmd.op, attempt |-> cmd.attempt,
                               outcome |-> outcome, state |-> state]}

\* The process dies, and with it the executing thread and what it was about
\* to observe.
Crash ==
  /\ phase # "down"
  /\ phase' = "down"
  /\ cmd' = NoCmd
  /\ observed' = [d \in Deployments |-> IF observed[d] = "asked" THEN "nothing" ELSE observed[d]]
  /\ UNCHANGED container

Restart ==
  /\ phase = "down"
  /\ phase' = "idle"
  /\ UNCHANGED <<cmd, container>>

(***************************************************************************)
(* The runtime (execute, _create and _lifecycle)                           *)
(***************************************************************************)

\* The container is looked up, and what is missing is created or settles
\* the command.
NothingToDo ==
  /\ phase = "begin"
  /\ \/ cmd.action = "create" /\ container[cmd.dep] = "running" /\ Finish("completed", "running")
     \/ cmd.action \in {"stop", "delete"} /\ container[cmd.dep] = "none"
          /\ Finish("completed", "missing")
  /\ UNCHANGED <<container, observed>>

CreateContainer ==
  /\ phase = "begin"
  /\ cmd.action = "create"
  /\ container[cmd.dep] = "none"
  /\ container' = [container EXCEPT ![cmd.dep] = "created"]
  /\ phase' = "start"
  /\ UNCHANGED <<cmd, reports, observed>>

\* The Docker call that an existing container is due.
FirstCall ==
  /\ phase = "begin"
  /\ container[cmd.dep] # "none"
  /\ \/ cmd.action = "create" /\ container[cmd.dep] # "running" /\ phase' = "start"
     \/ cmd.action = "start" /\ phase' = "start"
     \/ cmd.action \in {"stop", "restart", "delete"} /\ phase' = "stop"
  /\ UNCHANGED <<cmd, container, reports, observed>>

StartContainer ==
  /\ phase = "start"
  /\ container' = [container EXCEPT ![cmd.dep] = "running"]
  /\ Finish("completed", "running")
  /\ UNCHANGED observed

\* A running container exits with either code; any other is left as it is.
StopContainer ==
  /\ phase = "stop"
  /\ \E c \in {"stopped", "failed"} :
       container' = [container EXCEPT ![cmd.dep] = IF @ = "running" THEN c ELSE @]
  /\ \/ cmd.action = "stop" /\ Finish("completed", "stopped")
     \/ cmd.action = "restart" /\ phase' = "start" /\ UNCHANGED <<cmd, reports>>
     \/ cmd.action = "delete" /\ phase' = "remove" /\ UNCHANGED <<cmd, reports>>
  /\ UNCHANGED observed

RemoveContainer ==
  /\ phase = "remove"
  /\ container' = [container EXCEPT ![cmd.dep] = "none"]
  /\ Finish("completed", "missing")
  /\ UNCHANGED observed

\* There is no container to start, or the port probe of a start finds the
\* port in use: by the container itself, when it runs already.
CallRefused ==
  /\ phase = "begin"
  /\ \/ cmd.action \in {"start", "restart"} /\ container[cmd.dep] = "none"
     \/ cmd.action = "start" /\ container[cmd.dep] = "running"
  /\ Finish("failed", "failed")
  /\ UNCHANGED <<container, observed>>

\* Docker, the host or a local check fails the call that is due.
CallFails ==
  /\ DockerMayFail
  /\ phase \in Executing
  /\ Finish("failed", "failed")
  /\ UNCHANGED <<container, observed>>

Execute ==
  /\ \/ NothingToDo \/ CreateContainer \/ FirstCall
     \/ StartContainer \/ StopContainer \/ RemoveContainer
     \/ CallRefused \/ CallFails
  /\ UNCHANGED <<dep, ops>>

(***************************************************************************)
(* The containers and their observation                                    *)
(***************************************************************************)

ContainerExits(d) ==
  /\ container[d] = "running"
  /\ \E c \in {"stopped", "failed"} : container' = [container EXCEPT ![d] = c]
  /\ UNCHANGED <<phase, cmd>>

\* observe, for one deployment.
StateOf(d) ==
  IF container[d] = "none" THEN "missing"
  ELSE IF container[d] = "created" THEN "stopped" ELSE container[d]

\* The reconciliation of a tick: d is among the expected deployments.
Ask(d) ==
  /\ phase \notin {"down", "claiming"}
  /\ observed[d] = "nothing"
  /\ observed' = [observed EXCEPT ![d] = "asked"]
  /\ UNCHANGED <<reports, agentVars>>

\* Docker is asked for its container, and the answer sent.
Observe(d) ==
  /\ observed[d] = "asked"
  /\ observed' = [observed EXCEPT ![d] = StateOf(d)]
  /\ UNCHANGED <<reports, agentVars>>
=============================================================================
