---------------------------- MODULE ReportSystem ----------------------------
(***************************************************************************)
(* One server, its Agent's reporting loop and Central.  The server and the *)
(* Agent's settings change, requests break off and time out, the Agent     *)
(* crashes and is started again, and administrators choose directories and *)
(* issue and revoke tokens.                                                *)
(***************************************************************************)
EXTENDS ReportViews

CONSTANTS
  NoReportSlot,
  FirstWorlds, \* bound: what it consists of when its Agent first starts
  MaxEvents    \* bound: changes of the server, faults, and steps of administrators

VARIABLES
  world,   \* what the server consists of
  agent,   \* the loop, the report it waits for and the token it was started with
  cache,   \* the scan the Agent may still reuse, if any
  events

agentVars == <<world, agent, cache>>
vars == <<reportCentralVars, agentVars, events>>

ASSUME BoundsAssumption ==
  MaxEvents \in Nat /\ FirstWorlds \subseteq Worlds /\ NoReportSlot \notin Reports

Agent == [phase: {"stopped", "idle", "waiting"}, report: Reports \cup {NoReportSlot},
          token: 0 .. MaxTokens]

TypeOK ==
  /\ ReportCentralTypeOK
  /\ world \in Worlds /\ agent \in Agent
  /\ cache \in SUBSET Scans /\ Cardinality(cache) <= 1
  /\ events \in 0 .. MaxEvents
  /\ agent.phase = "waiting" <=> agent.report \in Reports

AgentInit ==
  /\ agent = [phase |-> "idle", report |-> NoReportSlot, token |-> 0]
  /\ cache = {}

Init ==
  /\ ReportCentralInit
  /\ world \in FirstWorlds
  /\ AgentInit
  /\ events = 0

(***************************************************************************)
(* The Agent                                                               *)
(***************************************************************************)
AgentIs(phase, x) == agent' = [phase |-> phase, report |-> x, token |-> agent.token]
IsAwaited(x) == agent.phase = "waiting" /\ agent.report = x
Event == events < MaxEvents /\ events' = events + 1

CurrentScan == IF cache # {} THEN CHOOSE scan \in cache : TRUE ELSE Scan(world)

\* Which of the free slots a report takes makes no difference.
FreeReport == CHOOSE x \in Reports : report[x].phase = "none"

AgentReports(x) ==
  /\ agent.phase = "idle" /\ report[x].phase = "none" /\ x = FreeReport
  /\ Send(x, SnapshotOf(world, CurrentScan), agent.token)
  /\ cache' = {CurrentScan}
  /\ AgentIs("waiting", x)
  /\ UNCHANGED <<reportTables, sweep, choice, world, events>>

\* The faulty variant keeps its first scan.
ScanKept ==
  /\ cache # {} /\ UNCHANGED vars
ScanExpires ==
  /\ cache # {} /\ cache' = {}
  /\ UNCHANGED <<reportCentralVars, world, agent, events>>

\* The Agent goes on without the answer; the report stays under way.
AgentTimesOut ==
  /\ agent.phase = "waiting" /\ Event
  /\ AgentIs("idle", NoReportSlot)
  /\ UNCHANGED <<reportCentralVars, world, cache>>

AgentCrashes ==
  /\ agent.phase # "stopped" /\ Event
  /\ AgentIs("stopped", NoReportSlot) /\ cache' = {}
  /\ UNCHANGED <<reportCentralVars, world>>

AgentStarts ==
  /\ agent.phase = "stopped"
  /\ agent' = [phase |-> "idle", report |-> NoReportSlot, token |-> token.version]
  /\ UNCHANGED <<reportCentralVars, world, cache, events>>

\* Settings are read when the Agent starts.
WorldChanges(w) ==
  /\ w # world /\ Event
  /\ agent.phase # "stopped" => w.advertised = world.advertised /\ w.default = world.default
  /\ world' = w
  /\ UNCHANGED <<reportCentralVars, agent, cache>>

(***************************************************************************)
(* Requests, with what the Agent makes of their answers                    *)
(***************************************************************************)
Answered(x) == IF IsAwaited(x) THEN AgentIs("idle", NoReportSlot) ELSE UNCHANGED agent

ReportAuthenticated(x) == Authenticate(x) /\ UNCHANGED <<agentVars, events>>
ReportBegins(x) == BeginMerge(x) /\ UNCHANGED <<agentVars, events>>

\* 401 ends the Agent process.
ReportRefused(x) ==
  /\ Refuse(x)
  /\ IF IsAwaited(x) THEN AgentIs("stopped", NoReportSlot) /\ cache' = {}
                     ELSE UNCHANGED <<agent, cache>>
  /\ UNCHANGED <<world, events>>

ReportCommitted(x) ==
  ReportCommit(x) /\ Answered(x) /\ UNCHANGED <<world, cache, events>>
ReportFailed(x) ==
  ReportFails(x) /\ Answered(x) /\ UNCHANGED <<world, cache, events>>
ReportBroken(x) ==
  ReportBreaksOff(x) /\ Answered(x) /\ Event /\ UNCHANGED <<world, cache>>

(***************************************************************************)
(* Everything else                                                         *)
(***************************************************************************)
\* agent_offline_seconds pass without a report.
TimePasses ==
  /\ server.lastSeen = "fresh"
  /\ server' = [status |-> server.status, lastSeen |-> "stale"]
  /\ UNCHANGED <<token, gpu, dir, file, report, sweep, choice, agentVars, events>>

SweepStep == (SweepSelect \/ SweepCommit) /\ UNCHANGED <<agentVars, events>>

Chooses(d) ==
  DefaultLoad(d) /\ Event /\ UNCHANGED agentVars
ChoiceCommitted == DefaultCommit /\ UNCHANGED <<agentVars, events>>
TokenStep == (rotate_agent_token \/ revoke_agent_token) /\ Event /\ UNCHANGED agentVars

AgentStep == \E x \in Reports : AgentReports(x)
ReportStep(x) ==
  \/ ReportAuthenticated(x)
  \/ ReportRefused(x)
  \/ ReportBegins(x)
  \/ ReportCommitted(x)
  \/ ReportFailed(x)

Next ==
  \/ AgentStep
  \/ ScanExpires
  \/ AgentTimesOut
  \/ AgentCrashes
  \/ AgentStarts
  \/ \E w \in Worlds : WorldChanges(w)
  \/ \E x \in Reports : ReportStep(x)
  \/ \E x \in Reports : ReportBroken(x)
  \/ TimePasses
  \/ SweepStep
  \/ \E d \in Dirs : Chooses(d)
  \/ ChoiceCommitted
  \/ TokenStep

Spec == Init /\ [][Next]_vars

(***************************************************************************)
(* The loop goes on while the Agent runs, Central handles each request,    *)
(* time passes, and somebody looks at the console now and then, which      *)
(* sweeps.                                                                 *)
(***************************************************************************)
Fairness ==
  /\ WF_vars(AgentStep) /\ WF_vars(ScanExpires) /\ WF_vars(TimePasses) /\ WF_vars(SweepStep)
  /\ \A x \in Reports : WF_vars(ReportStep(x))
FairSpec == Spec /\ Fairness

(***************************************************************************)
(* Properties                                                              *)
(***************************************************************************)
DeviceHasRow(g) == \E r \in RowsThere : gpu[r].device = g

\* GPU rows are what deployments refer to: a row comes to stand for another
\* GPU only if that GPU had no row, so a GPU that Central knows never moves to
\* another row, however the server renumbers its GPUs (by_uuid before by_index).
RowKeepsDevice ==
  [][\A r \in Rows : gpu'[r].device # gpu[r].device => ~DeviceHasRow(gpu'[r].device)]_vars

\* However reports with renumbered, lost and replaced GPUs follow each other, no
\* two rows come to stand for one GPU or to hold one index: the UPDATEs of a
\* report never violate unique=True of uuid and, but for the moving out of the
\* way, UniqueConstraint("server_id", "gpu_index").
GpuRowsAreDistinct ==
  \A r, q \in RowsThere :
    r # q => gpu[r].device # gpu[q].device /\ gpu[r].index # gpu[q].index

\* A report that is stored leaves available only GPUs it carries, at their
\* index, and leaves out a GPU it carries only if one that is new to Central
\* took the row over by the index.
TakenOver(s, i) ==
  \E r \in RowsThere : /\ gpu[r].device = s.gpus[i] /\ gpu[r].index # i
                       /\ \E j \in Reported(s) : j = gpu[r].index /\ ~DeviceHasRow(s.gpus[j])
NewGpuIsDropped(s, i) ==
  ~DeviceHasRow(s.gpus[i]) /\ \E r \in RowAtIndex(i) : \E j \in Reported(s) : s.gpus[j] = gpu[r].device
ReportIsMirrored ==
  [][\A x \in Reports : ReportCommit(x) =>
       LET s == report[x].snapshot IN
       /\ \A r \in Rows : gpu'[r].status = "available" =>
            gpu'[r].index \in Reported(s) /\ s.gpus[gpu'[r].index] = gpu'[r].device
       /\ \A i \in Reported(s) :
            \/ TakenOver(s, i) \/ NewGpuIsDropped(s, i)
            \/ \E r \in Rows : gpu'[r] = AvailableRow(s, i)]_vars

\* A model that is shown as present lies in a directory that the last report
\* advertised and could read (persist_model_inventory, last loop).
DiscoveredIsServed ==
  \A d \in Dirs : file[d] = "discovered" => dir[d].allowed /\ dir[d].available

\* A report takes the default from a directory only if it no longer advertises
\* it or another of the defaults stays, unless a choice came between its read
\* and its commit: the Agent's settings never undo an administrator's choice.
DefaultsNow == {d \in Dirs : dir[d].default}
DefaultStays ==
  [][\A x \in Reports : ReportCommit(x) /\ report[x].defaults = DefaultsNow =>
       \A d \in DefaultsNow \cap report[x].snapshot.advertised :
         \/ dir'[d].default
         \/ \E e \in DefaultsNow : e # d /\ dir'[e].default]_vars

AgentIsUp == agent.phase # "stopped" /\ TokenIsValid(agent.token)
Wedged == <>[]~Renumberable

\* A server whose Agent keeps running with a valid token is online again and
\* again, whatever sweeps cross its reports, unless its GPU rows can no longer
\* be moved out of the way (persist_agent_snapshot against
\* mark_stale_servers_offline).
ReportingIsOnline ==
  <>[]AgentIsUp => []<>(server.status = "online") \/ Wedged

\* A server whose Agent stays down, or keeps a token that is not valid, ends up
\* not counted as online, with no GPU shown as available, offered neither for deployments nor for
\* downloads, refused for both and, if it ever reported, with a notification.
SilentIsOffline ==
  <>[]~AgentIsUp => <>[](/\ InfrastructureSummary = [online_server_count |-> 0,
                                                    available_gpu_count |-> 0]
                         /\ ~IsDeploymentTarget /\ DownloadTargets = {}
                         /\ ~AcceptsDeployment(1) /\ ~\E d \in Dirs : _eligible_target(d)
                         /\ server.lastSeen # "never" => IsNotified)

\* While its Agent is up, the details that Central shows of the server come to
\* be those of the server and stay so, whatever late and lost reports there
\* were, unless the GPU rows can no longer be moved out of the way.
ShowsGpus(detail) ==
  /\ \A i \in Reported(world) : \E row \in detail.gpus :
       row.index = i /\ row.device = world.gpus[i]
  /\ detail.summary.status = "online" =>
       detail.summary.available_gpu_count = Cardinality(Reported(world))
ShowsDirectories(detail) ==
  /\ \A d \in world.advertised : \E row \in detail.directories :
       /\ row.dir = d /\ row.allowed
       /\ row.available = ScanDirectory(world, d).available
       /\ row.holds = ScanDirectory(world, d).holds
  /\ \A row \in detail.directories : row.allowed => row.dir \in world.advertised
  /\ Cardinality({row \in detail.directories : row.default}) = 1
  /\ {m.dir : m \in {n \in detail.models : n.status = "discovered"}} = Scan(world).found
  /\ detail.summary.model_count = ModelInventorySummary.current_installation_count
  /\ detail.summary.model_count = Cardinality(Scan(world).found)
WorldIsShown ==
  <>[]AgentIsUp => <>[](ShowsGpus(ServerDetail) /\ ShowsDirectories(ServerDetail)) \/ Wedged
=============================================================================
