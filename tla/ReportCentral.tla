--------------------------- MODULE ReportCentral ---------------------------
(***************************************************************************)
(* The handlers: a report is authenticated, then updates the server row,   *)
(* whose lock it holds until its commit, and merges what it carries.       *)
(* Beside it, the sweep for stale servers that every listing starts with,  *)
(* the choice of a default directory, and the issue of tokens.             *)
(***************************************************************************)
EXTENDS ReportBase

CONSTANTS Reports  \* slots for reports under way

VARIABLES
  report,  \* the reports under way
  sweep,   \* has a listing found the server stale and not yet marked it
  choice   \* the directory an administrator is making the default

reportCentralVars == <<reportTables, report, sweep, choice>>

Phases == {"none", "sent", "loaded", "merging"}
Report == [phase: Phases, token: 0 .. MaxTokens, snapshot: Snapshot,
           status: ServerStatuses, defaults: SUBSET Dirs]

NoReport == [phase |-> "none", token |-> 0, snapshot |-> NoSnapshot,
             status |-> "pending", defaults |-> {}]

InPhase(x, phase, status, defaults) ==
  [phase |-> phase, token |-> report[x].token, snapshot |-> report[x].snapshot,
   status |-> status, defaults |-> defaults]
Moves(x, phase, status, defaults) ==
  report' = [report EXCEPT ![x] = InPhase(x, phase, status, defaults)]
ReportOver(x) == report' = [report EXCEPT ![x] = NoReport]

ReportCentralTypeOK ==
  /\ ReportTablesTypeOK
  /\ report \in [Reports -> Report]
  /\ sweep \in BOOLEAN
  /\ choice \in Dirs \cup {NoDir}

ReportCentralInit ==
  /\ ReportTablesInit
  /\ report = [x \in Reports |-> NoReport]
  /\ sweep = FALSE
  /\ choice = NoDir

(***************************************************************************)
(* Reports                                                                 *)
(***************************************************************************)
TokenIsValid(version) == version = token.version /\ ~token.revoked

Send(x, snapshot, version) ==
  /\ report[x].phase = "none"
  /\ report' = [report EXCEPT ![x] = [phase |-> "sent", token |-> version,
                                      snapshot |-> snapshot, status |-> "pending",
                                      defaults |-> {}]]

Authenticate(x) ==
  /\ report[x].phase = "sent" /\ TokenIsValid(report[x].token)
  /\ Moves(x, "loaded", server.status, {})
  /\ UNCHANGED <<reportTables, sweep, choice>>

Refuse(x) ==
  /\ report[x].phase = "sent" /\ ~TokenIsValid(report[x].token)
  /\ ReportOver(x)
  /\ UNCHANGED <<reportTables, sweep, choice>>

\* The UPDATE of last_seen waits for the lock of the server row.
ServerIsLocked == \E x \in Reports : report[x].phase = "merging"

BeginMerge(x) ==
  /\ report[x].phase = "loaded" /\ ~ServerIsLocked
  /\ Moves(x, "merging", report[x].status, {d \in Dirs : dir[d].default})
  /\ UNCHANGED <<reportTables, sweep, choice>>

\* status is not written if it was online when the report was authenticated.
\* The faulty variant brings online only a server that never reported.
StatusOnce(x) == IF report[x].status = "pending" THEN "online" ELSE server.status
StatusAfter(x) == Stored(server.status, report[x].status, "online")

ReportCommit(x) ==
  LET s == report[x].snapshot IN
  /\ report[x].phase = "merging" /\ Renumberable
  /\ server' = [status |-> StatusAfter(x), lastSeen |-> "fresh"]
  /\ \E new \in NewRows(s) : gpu' = MergedGpus(s, new)
  /\ \E p \in DefaultPaths(s, report[x].defaults) :
       dir' = [d \in Dirs |-> MergedDir(s, report[x].defaults, p, d)]
  /\ file' = [d \in Dirs |-> MergedFile(s, d)]
  /\ ReportOver(x)
  /\ UNCHANGED <<token, sweep, choice>>

\* The rows cannot be moved out of the way, and everything is rolled back.
ReportFails(x) ==
  /\ report[x].phase = "merging" /\ ~Renumberable
  /\ ReportOver(x)
  /\ UNCHANGED <<reportTables, sweep, choice>>

\* The request ends before its commit for any other reason.
ReportBreaksOff(x) ==
  /\ report[x].phase # "none"
  /\ ReportOver(x)
  /\ UNCHANGED <<reportTables, sweep, choice>>

(***************************************************************************)
(* The sweep                                                               *)
(***************************************************************************)
IsStale == server.lastSeen = "stale" /\ server.status # "offline"

SweepSelect ==
  /\ ~sweep /\ IsStale
  /\ sweep' = TRUE
  /\ UNCHANGED <<reportTables, report, choice>>

\* The faulty variant commits nothing.
SweepForgotten == server.status
SweptStatus == "offline"

SweepCommit ==
  /\ sweep /\ ~ServerIsLocked
  /\ server' = [status |-> SweptStatus, lastSeen |-> server.lastSeen]
  /\ sweep' = FALSE
  /\ UNCHANGED <<token, gpu, dir, file, report, choice>>

(***************************************************************************)
(* Administrators                                                          *)
(***************************************************************************)
IsSelectable(d) == dir[d].allowed /\ dir[d].available

DefaultLoad(d) ==
  /\ choice = NoDir /\ IsSelectable(d)
  /\ choice' = d
  /\ UNCHANGED <<reportTables, report, sweep>>

DefaultCommit ==
  /\ choice # NoDir
  /\ dir' = [d \in Dirs |-> [exists |-> dir[d].exists, allowed |-> dir[d].allowed,
                             available |-> dir[d].available, default |-> d = choice]]
  /\ choice' = NoDir
  /\ UNCHANGED <<server, token, gpu, file, report, sweep>>

rotate_agent_token ==
  /\ token.version < MaxTokens
  /\ token' = [version |-> token.version + 1, revoked |-> FALSE]
  /\ UNCHANGED <<server, gpu, dir, file, report, sweep, choice>>

revoke_agent_token ==
  /\ ~token.revoked
  /\ token' = [version |-> token.version, revoked |-> TRUE]
  /\ UNCHANGED <<server, gpu, dir, file, report, sweep, choice>>
=============================================================================
