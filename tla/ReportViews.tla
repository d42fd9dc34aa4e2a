---------------------------- MODULE ReportViews ----------------------------
(***************************************************************************)
(* What Central shows of the server, and what it accepts for it.  A GPU    *)
(* that is "available" here may be shown as busy: its load, its processes  *)
(* and its deployments are left out, as is the filter of names that may be *)
(* changed at all.                                                         *)
(***************************************************************************)
EXTENDS ReportCentral

(***************************************************************************)
(* Lists                                                                   *)
(***************************************************************************)
GpuShown(r) ==
  IF server.status # "online" \/ gpu[r].status = "offline" THEN "unavailable" ELSE "available"
ShownGpus == {[index |-> gpu[r].index, device |-> gpu[r].device, status |-> GpuShown(r)] :
                r \in RowsThere}
ShownModels == {[dir |-> d, status |-> file[d]] : d \in {e \in Dirs : file[e] # "none"}}
ModelCount == Cardinality({m \in ShownModels : m.status = "discovered"})
ShownDirectories ==
  {[dir |-> d, allowed |-> dir[d].allowed, available |-> dir[d].available,
    default |-> dir[d].default, holds |-> file[d] = "discovered"] :
     d \in {e \in Dirs : dir[e].exists}}

ServerSummary ==
  [status |-> server.status, gpu_count |-> Cardinality(ShownGpus),
   available_gpu_count |-> Cardinality({g \in ShownGpus : g.status = "available"}),
   model_count |-> ModelCount]
\* The console's overview adds up the summaries of all servers: here of one.
ServerSummaries == {ServerSummary}
InfrastructureSummary ==
  [online_server_count |-> Cardinality({s \in ServerSummaries : s.status = "online"}),
   available_gpu_count |-> Cardinality({g \in ShownGpus : g.status = "available"})]
ModelInventorySummary ==
  [installation_count |-> Cardinality(ShownModels), current_installation_count |-> ModelCount]
ServerDetail == [summary |-> ServerSummary, gpus |-> ShownGpus, models |-> ShownModels,
                 directories |-> ShownDirectories]

\* A notification says that the server is offline.
IsNotified == server.status = "offline"

(***************************************************************************)
(* Deployments: a model file that is present, and GPUs of the last report  *)
(* while it is fresh (both limits of freshness are equal by default).      *)
(***************************************************************************)
IsOfferedFile(d) == file[d] = "discovered" /\ dir[d].allowed /\ dir[d].available
_eligible_server == server.status = "online" /\ ~token.revoked
IsSelectableGpu(r) == gpu[r].status = "available" /\ server.lastSeen = "fresh"
Plans(n) == {P \in SUBSET {r \in RowsThere : IsSelectableGpu(r)} : Cardinality(P) = n}

IsDeploymentTarget ==
  _eligible_server /\ RowsThere # {} /\ \E d \in Dirs : IsOfferedFile(d)
AcceptsDeployment(n) ==
  _eligible_server /\ Plans(n) # {} /\ \E d \in Dirs : IsOfferedFile(d)

(***************************************************************************)
(* Downloads, into a directory that can be written.                        *)
(***************************************************************************)
_eligible_target(d) == _eligible_server /\ IsSelectable(d)
DownloadTargets ==
  IF _eligible_server
  THEN {row.dir : row \in {r \in ShownDirectories : r.allowed /\ r.available}} ELSE {}
=============================================================================
