--------------------------- MODULE ModelTaskAgent ---------------------------
(***************************************************************************)
(* The Agent's model task supervisor (task_supervisor.py) and executor     *)
(* (model_tasks.py).  The supervisor runs one task at a time in a thread   *)
(* and reports the progress of a download meanwhile; the thread looks at   *)
(* the supervisor's cancel event whenever bytes arrive.  The main loop     *)
(* (runner.py) scans the models between its ticks.                         *)
(***************************************************************************)
EXTENDS ModelTaskBase

VARIABLES
  phase,     \* where the supervisor is, and where the executing thread is
  cmd,       \* the task being executed
  cancel,    \* the cancel event of the task
  failures,  \* progress reports that failed in a row
  progress,  \* bytes the thread has counted
  stopping   \* whether the process was told to stop

agentVars == <<phase, cmd, cancel, failures, progress, stopping>>

Command == [task: TaskIds, attempt: Nat \ {0}, kind: {"download", "delete"},
            target: Targets, asked: BOOLEAN]
NoCommand == [task |-> 0]
Executing == {"begin", "fetching", "published"}
Phases == {"down", "idle", "ready", "claiming"} \cup Executing

\* Failed reports after which the supervisor cancels the task itself.
MaxFailures == 3

AgentTypeOK ==
  /\ phase \in Phases
  /\ cmd \in Command \cup {NoCommand}
  /\ cancel \in BOOLEAN
  /\ failures \in 0 .. MaxFailures
  /\ progress \in 0 .. Size
  /\ stopping \in BOOLEAN

AgentInit ==
  /\ phase = "idle"
  /\ cmd = NoCommand
  /\ cancel = FALSE
  /\ failures = 0
  /\ progress = 0
  /\ stopping = FALSE

(***************************************************************************)
(* The supervisor (tick, _run_download, _run_delete, stop)                 *)
(***************************************************************************)

\* The models of the server are scanned for a heartbeat.  What is left of a
\* model passes for one as long as there are weights among it.
Scan(t) ==
  /\ phase \in {"idle"} \cup Executing
  /\ seen[t] = "nothing"
  /\ \E s \in {"none", "published"} :
       /\ disk[t] \in {"none", "published"} => s = disk[t]
       /\ seen' = [seen EXCEPT ![t] = s]
  /\ UNCHANGED <<tasks, file, deployed, disk, reports, agentVars>>

\* A heartbeat was answered, and the tick that follows may claim.
HeartbeatAnswered ==
  /\ phase = "idle"
  /\ phase' = "ready"
  /\ UNCHANGED <<cmd, cancel, failures, progress, stopping>>

BeginClaim ==
  /\ phase = "ready"
  /\ ~stopping
  /\ phase' = "claiming"
  /\ UNCHANGED <<cmd, cancel, failures, progress, stopping>>

\* A task that arrives while the process stops is cancelled once it runs.
ReceiveCommand(c) ==
  /\ phase = "claiming"
  /\ phase' = "begin"
  /\ cmd' = c
  /\ cancel' = stopping
  /\ UNCHANGED <<failures, progress, stopping>>

ClaimIsOver ==
  /\ phase = "claiming"
  /\ phase' = "idle"
  /\ UNCHANGED <<cmd, cancel, failures, progress, stopping>>

\* The supervisor forgets the task.
Forget ==
  /\ cmd' = NoCommand
  /\ cancel' = FALSE
  /\ failures' = 0
  /\ progress' = 0

\* The thread is done and the supervisor reports.  It does not report again
\* if that fails, and forgets the task either way.
Finish(outcome) ==
  /\ phase' = "idle"
  /\ Forget
  /\ reports' = reports \cup {[task |-> cmd.task, attempt |-> cmd.attempt,
                               outcome |-> outcome, size |-> progress]}
  /\ UNCHANGED stopping

\* A progress report was taken, and says whether to cancel.
ProgressTaken(asked) ==
  /\ failures' = 0
  /\ cancel' = (cancel \/ asked)
  /\ UNCHANGED <<phase, cmd, progress, stopping>>

\* A progress report was refused or failed.
ProgressFailed ==
  /\ failures' = IF failures < MaxFailures THEN failures + 1 ELSE failures
  /\ cancel' = (cancel \/ failures' >= MaxFailures)
  /\ UNCHANGED <<phase, cmd, progress, stopping>>

\* The process is told to stop: it takes no more tasks and cancels the
\* download it executes.
Stop ==
  /\ phase # "down"
  /\ ~stopping
  /\ stopping' = TRUE
  /\ cancel' = (phase \in Executing)
  /\ UNCHANGED <<phase, cmd, failures, progress>>

\* It ends when the task is done.
Stopped ==
  /\ stopping
  /\ phase \in {"idle", "ready"}
  /\ phase' = "down"
  /\ UNCHANGED <<cmd, cancel, failures, progress, stopping>>

\* What may be left of a target whose removal breaks off.
Remains(d) == {"debris"} \cup IF d = "debris" THEN {} ELSE {"hollow"}

\* The process dies, and with it the executing thread.
Crash ==
  /\ phase # "down"
  /\ phase' = "down"
  /\ Forget
  /\ \/ UNCHANGED disk
     \/ /\ phase = "begin" /\ cmd.kind = "delete" /\ disk[cmd.target] # "none"
        /\ \E d \in Remains(disk[cmd.target]) \cup {"none"} :
             disk' = [disk EXCEPT ![cmd.target] = d]
  /\ UNCHANGED stopping

Restart ==
  /\ phase = "down"
  /\ phase' = "idle"
  /\ stopping' = FALSE
  /\ UNCHANGED <<cmd, cancel, failures, progress>>

(***************************************************************************)
(* The executor (execute_download, execute_delete)                         *)
(***************************************************************************)

\* What has the right manifest already is not fetched again, whether or not
\* the task is to be cancelled; anything else in its place fails the task.
BeginDownload ==
  /\ phase = "begin"
  /\ cmd.kind = "download"
  /\ IF HasManifest(cmd.target)
     THEN phase' = "published" /\ progress' = Size /\ UNCHANGED <<cmd, cancel, failures, reports>>
     ELSE IF disk[cmd.target] = "debris"
     THEN Finish("failed")
     ELSE IF cmd.asked \/ cancel
     THEN Finish("cancelled")
     ELSE phase' = "fetching" /\ UNCHANGED <<cmd, cancel, failures, progress, reports>>
  /\ UNCHANGED <<disk, stopping>>

\* Bytes arrive.
Fetch ==
  /\ phase = "fetching"
  /\ ~cancel
  /\ progress < Size
  /\ progress' = progress + 1
  /\ UNCHANGED <<phase, cmd, cancel, failures, stopping, reports, disk>>

CancelNoticed ==
  /\ phase = "fetching"
  /\ cancel
  /\ Finish("cancelled")
  /\ UNCHANGED disk

\* The complete download is moved into place, unless something is there.
Publish ==
  /\ phase = "fetching"
  /\ ~cancel
  /\ disk[cmd.target] = "none"
  /\ disk' = [disk EXCEPT ![cmd.target] = "published"]
  /\ phase' = "published"
  /\ progress' = Size
  /\ UNCHANGED <<cmd, cancel, failures, stopping, reports>>

DownloadDone ==
  /\ phase = "published"
  /\ Finish("completed")
  /\ UNCHANGED disk

\* The target is removed, or is gone already.
Delete ==
  /\ phase = "begin"
  /\ cmd.kind = "delete"
  /\ disk' = [disk EXCEPT ![cmd.target] = "none"]
  /\ Finish("completed")

DeleteBreaksOff ==
  /\ phase = "begin"
  /\ cmd.kind = "delete"
  /\ disk[cmd.target] # "none"
  /\ \E d \in Remains(disk[cmd.target]) : disk' = [disk EXCEPT ![cmd.target] = d]
  /\ Finish("failed")

\* The provider, the file system or a local check fails the task.
TaskFails ==
  /\ phase \in {"begin", "fetching"}
  /\ Finish("failed")
  /\ UNCHANGED disk

Execute ==
  /\ \/ BeginDownload \/ Fetch \/ CancelNoticed \/ Publish
     \/ DownloadDone \/ Delete \/ TaskFails
  /\ UNCHANGED <<tasks, file, deployed, seen>>
=============================================================================
