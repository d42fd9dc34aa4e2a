----------------------------- MODULE ReportBase -----------------------------
(***************************************************************************)
(* What Central stores of one server from the reports of its Agent: the    *)
(* server's presence, the Agent's token, GPUs, model directories and model *)
(* files, and how a report is merged into each of them.                    *)
(***************************************************************************)
EXTENDS Naturals, FiniteSets

CONSTANTS
  Devices,     \* GPUs, by their UUID
  NoDevice,
  Slots,       \* positions a GPU may have in the server
  Offset,      \* what a report adds to the index of every row it finds
  IndexLimit,  \* bound: the largest index the column holds
  Dirs,        \* model directories; each may hold one model
  NoDir,
  Worlds,      \* bound: what the server may consist of
  MaxTokens    \* bound: tokens ever issued

Indexes == 0 .. Slots - 1

(***************************************************************************)
(* A server and its Agent's settings: the GPU at each index, the           *)
(* directories of the settings, those that can be read, those that hold a  *)
(* model, and the default of the settings.  A report has the same parts.   *)
(***************************************************************************)
Snapshot == [gpus: [Indexes -> Devices \cup {NoDevice}], advertised: SUBSET Dirs,
             reachable: SUBSET Dirs, found: SUBSET Dirs, default: Dirs \cup {NoDir}]

\* A directory that cannot be read is reported without its models.
ScanDirectory(w, d) == [available |-> d \in w.reachable,
                        holds |-> d \in w.reachable /\ d \in w.found]
Scan(w) == [advertised |-> w.advertised,
            reachable |-> {d \in w.advertised : ScanDirectory(w, d).available},
            found |-> {d \in w.advertised : ScanDirectory(w, d).holds},
            default |-> w.default]
Scans == {Scan(w) : w \in Worlds}

\* GPUs are read for every report, directories at intervals.
SnapshotOf(w, scan) ==
  [gpus |-> w.gpus, advertised |-> scan.advertised, reachable |-> scan.reachable,
   found |-> scan.found, default |-> scan.default]
NoSnapshot == [gpus |-> [i \in Indexes |-> NoDevice], advertised |-> {}, reachable |-> {},
               found |-> {}, default |-> NoDir]

ASSUME NoneAssumption == NoDevice \notin Devices /\ NoDir \notin Dirs
ASSUME SizesAssumption ==
  /\ Slots \in Nat /\ Offset \in Nat /\ IndexLimit \in Nat /\ MaxTokens \in Nat
  /\ IsFiniteSet(Devices) /\ Slots <= Offset /\ Slots <= IndexLimit
ASSUME WorldsAssumption == Worlds \subseteq Snapshot

\* UUIDs are unique: a server does not have one GPU twice.
GpusAreDistinct(s) ==
  \A i, j \in Indexes : s.gpus[i] = s.gpus[j] /\ s.gpus[i] # NoDevice => i = j
ASSUME UuidAssumption == \A w \in Worlds : GpusAreDistinct(w)

VARIABLES
  server,  \* the servers row
  token,   \* the server_agents row
  gpu,     \* the gpus rows, in the order of their primary keys
  dir,     \* the server_model_directories rows
  file     \* status of the model_files row of each directory's model

reportTables == <<server, token, gpu, dir, file>>

ServerStatuses == {"pending", "online", "offline"}
ServerRow == [status: ServerStatuses, lastSeen: {"never", "fresh", "stale"}]
TokenRow == [version: 0 .. MaxTokens, revoked: BOOLEAN]

\* The primary keys are random, so rows come in any order.  There are not more
\* rows than devices, whose UUIDs are unique.
Rows == 1 .. Cardinality(Devices)
GpuRow == [device: Devices \cup {NoDevice}, index: 0 .. IndexLimit,
           status: {"absent", "available", "offline"}]
NoGpuRow == [device |-> NoDevice, index |-> 0, status |-> "absent"]
RowsThere == {r \in Rows : gpu[r].status # "absent"}

DirRow == [exists: BOOLEAN, allowed: BOOLEAN, available: BOOLEAN, default: BOOLEAN]
FileStatuses == {"none", "discovered", "missing", "stale"}

ReportTablesTypeOK ==
  /\ server \in ServerRow
  /\ token \in TokenRow
  /\ gpu \in [Rows -> GpuRow]
  /\ dir \in [Dirs -> DirRow]
  /\ file \in [Dirs -> FileStatuses]

\* The server was registered and a token issued.
ReportTablesInit ==
  /\ server = [status |-> "pending", lastSeen |-> "never"]
  /\ token = [version |-> 0, revoked |-> FALSE]
  /\ gpu = [r \in Rows |-> NoGpuRow]
  /\ dir = [d \in Dirs |-> [exists |-> FALSE, allowed |-> FALSE,
                            available |-> FALSE, default |-> FALSE]]
  /\ file = [d \in Dirs |-> "none"]

(***************************************************************************)
(* GPUs.  A reported GPU takes the row of its UUID or, if there is none,   *)
(* the row that had its index, although another GPU of the report may have *)
(* taken that row already.  In the faulty variant the index comes first.   *)
(***************************************************************************)
Reported(s) == {i \in Indexes : s.gpus[i] # NoDevice}
RowOfDevice(s, i) == {r \in RowsThere : gpu[r].device = s.gpus[i]}
RowAtIndex(i) == {r \in RowsThere : gpu[r].index = i}
RowTakenByIndex(s, i) == IF RowAtIndex(i) # {} THEN RowAtIndex(i) ELSE RowOfDevice(s, i)
RowTaken(s, i) == IF RowOfDevice(s, i) # {} THEN RowOfDevice(s, i) ELSE RowAtIndex(i)

\* The reported GPUs that take row r; the last of them gets it.
TakersOf(s, r) == {i \in Reported(s) : r \in RowTaken(s, i)}
LastOf(I) == CHOOSE i \in I : \A j \in I : j <= i

AvailableRow(s, i) == [device |-> s.gpus[i], index |-> i, status |-> "available"]

\* A row that no reported GPU takes.  The faulty variant forgets the status.
MissingRowKept(r) ==
  [device |-> gpu[r].device, index |-> gpu[r].index + Offset, status |-> gpu[r].status]
MissingRow(r) ==
  [device |-> gpu[r].device, index |-> gpu[r].index + Offset, status |-> "offline"]

\* The rows that reported GPUs without a row get; which is free to choose.
NewIndexes(s) == {i \in Reported(s) : RowTaken(s, i) = {}}
NewRows(s) == {f \in [NewIndexes(s) -> Rows \ RowsThere] :
                 \A i, j \in NewIndexes(s) : f[i] = f[j] => i = j}

MergedGpus(s, new) ==
  [r \in Rows |->
     IF r \in RowsThere
     THEN IF TakersOf(s, r) # {} THEN AvailableRow(s, LastOf(TakersOf(s, r)))
                                 ELSE MissingRow(r)
     ELSE IF \E i \in NewIndexes(s) : new[i] = r
          THEN AvailableRow(s, CHOOSE i \in NewIndexes(s) : new[i] = r) ELSE gpu[r]]

\* Every row is moved out of the way first, one UPDATE after the other in the
\* order of the keys, under UniqueConstraint("server_id", "gpu_index") and
\* within the column's range.  The faulty variant forgets the range.
RenumberableAnyhow ==
  \A r, q \in RowsThere : r < q => gpu[r].index + Offset # gpu[q].index
Renumberable ==
  \A r \in RowsThere :
    /\ gpu[r].index + Offset <= IndexLimit
    /\ \A q \in RowsThere : r < q => gpu[r].index + Offset # gpu[q].index

(***************************************************************************)
(* Model directories and files.  A report keeps the default of the table   *)
(* as long as it is advertised; seen are the defaults it has read, and p   *)
(* is the default it settles on.  In the faulty variant the Agent's        *)
(* settings win.                                                           *)
(***************************************************************************)
DefaultOfSettings(s, seen) == {s.default}
DefaultPaths(s, seen) ==
  IF seen \cap s.advertised # {} THEN seen \cap s.advertised ELSE {s.default}

\* A column is written if it differs from what was read.
Stored(now, seen, new) == IF new = seen THEN now ELSE new

MergedDir(s, seen, p, d) ==
  [exists |-> dir[d].exists \/ d \in s.advertised,
   allowed |-> d \in s.advertised,
   available |-> d \in s.advertised /\ d \in s.reachable,
   default |-> Stored(dir[d].default, d \in seen, d \in s.advertised /\ d = p)]

IsServed(s, d) == d \in s.advertised /\ d \in s.reachable

\* The faulty variant leaves the files of a lost directory as they are.
UnseenWhereServed(s, d) == IF IsServed(s, d) THEN "missing" ELSE file[d]
Unseen(s, d) == IF IsServed(s, d) THEN "missing" ELSE "stale"

MergedFile(s, d) ==
  IF IsServed(s, d) /\ d \in s.found THEN "discovered"
  ELSE IF file[d] = "none" THEN "none" ELSE Unseen(s, d)
=============================================================================
