---------------------------- MODULE ReportProofs ----------------------------
(***************************************************************************)
(* Proofs about the reports, for any number of devices, directories,       *)
(* tokens, reports under way and events, and whatever the server becomes:  *)
(* types, that two GPU rows never stand for one GPU or one index, that a   *)
(* GPU never moves to another row, that a stored report is mirrored, that  *)
(* a model shown as present can be served, and that a report leaves an     *)
(* administrator's default alone.                                          *)
(***************************************************************************)
EXTENDS ReportSystem, FiniteSetTheorems, FunctionTheorems, TLAPS

(***************************************************************************)
(* Sets of indexes                                                         *)
(***************************************************************************)
LEMMA IndexesAreNumbers == Indexes \subseteq 0 .. IndexLimit /\ Indexes \subseteq Nat
BY SizesAssumption DEF Indexes

\* Of several GPUs that take a row there is a last one.
LEMMA LastIsThere ==
  ASSUME NEW I \in SUBSET Indexes, I # {}
  PROVE  LastOf(I) \in I /\ \A j \in I : j <= LastOf(I)
<1> DEFINE From(i) == {j \in I : i <= j}
           Tails == {From(i) : i \in I}
<1>1. I \subseteq Nat
  BY IndexesAreNumbers
<1>2. IsFiniteSet(I)
  <2>1. IsFiniteSet(0 .. Slots - 1)
    BY SizesAssumption, FS_Interval
  <2> QED
    BY <2>1, FS_Subset DEF Indexes
<1>3. IsWellFoundedOn(StrictSubsetOrdering(I), SUBSET I)
  BY <1>2, FS_StrictSubsetOrderingWellFounded, FS_FiniteSubsetsOfFinite
<1>4. Tails \subseteq SUBSET I /\ Tails # {}
  OBVIOUS
<1>5. PICK T \in Tails : \A U \in Tails : ~(<<U, T>> \in StrictSubsetOrdering(I))
  <2>1. \E T \in Tails : \A U \in Tails : ~(<<U, T>> \in StrictSubsetOrdering(I))
    <3> HIDE DEF Tails
    <3> QED
      BY <1>3, <1>4, WFMin, Zenon
  <2> QED
    BY <2>1
<1>6. PICK m \in I : T = From(m)
  BY <1>5
<1>7. \A j \in I : j <= m
  <2> SUFFICES ASSUME NEW j \in I, ~(j <= m)
               PROVE  FALSE
    OBVIOUS
  <2>0. j \in Nat /\ m \in Nat /\ m < j
    BY <1>1
  <2>1. From(j) \subseteq From(m)
    <3> SUFFICES ASSUME NEW k \in I, j <= k
                 PROVE  m <= k
      OBVIOUS
    <3>1. k \in Nat
      BY <1>1
    <3> QED
      BY <2>0, <3>1
  <2>2. m \in From(m) /\ m \notin From(j)
    BY <2>0
  <2>3. <<From(j), From(m)>> \in StrictSubsetOrdering(I)
    <3>1. From(j) \in SUBSET I /\ From(m) \in SUBSET I /\ From(j) # From(m)
      BY <2>2
    <3> HIDE DEF From
    <3> QED
      BY <2>1, <3>1 DEF StrictSubsetOrdering
  <2> QED
    BY <1>5, <1>6, <2>3
<1> QED
  BY <1>6, <1>7 DEF LastOf
(***************************************************************************)
(* What a merge makes of each GPU row                                      *)
(***************************************************************************)
IsTaken(s, row, r, i) == r \in RowsThere /\ r \in RowTaken(s, i) /\ row = AvailableRow(s, i)
IsMissed(s, row, r) ==
  r \in RowsThere /\ row = MissingRow(r) /\ \A i \in Reported(s) : r \notin RowTaken(s, i)
IsNew(s, new, row, r, i) ==
  /\ r \notin RowsThere /\ RowTaken(s, i) = {} /\ new[i] = r /\ row = AvailableRow(s, i)
IsAbsent(row, r) == r \notin RowsThere /\ row = gpu[r]

RowBecomes(s, new, row, r) ==
  \/ \E i \in Reported(s) : IsTaken(s, row, r, i)
  \/ IsMissed(s, row, r)
  \/ \E i \in Reported(s) : IsNew(s, new, row, r, i)
  \/ IsAbsent(row, r)

LEMMA LastTakerIsReported ==
  ASSUME NEW s, NEW r, TakersOf(s, r) # {}
  PROVE  /\ LastOf(TakersOf(s, r)) \in Reported(s)
         /\ r \in RowTaken(s, LastOf(TakersOf(s, r)))
         /\ \A j \in TakersOf(s, r) : j <= LastOf(TakersOf(s, r))
<1>1. TakersOf(s, r) \in SUBSET Indexes
  BY DEF TakersOf, Reported
<1>2. /\ LastOf(TakersOf(s, r)) \in TakersOf(s, r)
      /\ \A j \in TakersOf(s, r) : j <= LastOf(TakersOf(s, r))
  BY <1>1, LastIsThere
<1> QED
  BY <1>2 DEF TakersOf

LEMMA MergedRow ==
  ASSUME NEW s, NEW new, NEW r \in Rows
  PROVE  RowBecomes(s, new, MergedGpus(s, new)[r], r)
<1> SUFFICES ASSUME NEW row, row = MergedGpus(s, new)[r]
             PROVE  RowBecomes(s, new, row, r)
  OBVIOUS
<1>1. CASE r \in RowsThere /\ TakersOf(s, r) # {}
  <2>1. row = AvailableRow(s, LastOf(TakersOf(s, r)))
    BY <1>1 DEF MergedGpus
  <2>2. IsTaken(s, row, r, LastOf(TakersOf(s, r)))
    BY <1>1, <2>1, LastTakerIsReported DEF IsTaken
  <2> QED
    BY <1>1, <2>2, LastTakerIsReported DEF RowBecomes
<1>2. CASE r \in RowsThere /\ TakersOf(s, r) = {}
  <2>1. row = MissingRow(r)
    BY <1>2 DEF MergedGpus
  <2>2. IsMissed(s, row, r)
    BY <1>2, <2>1 DEF IsMissed, TakersOf
  <2> QED
    BY <2>2 DEF RowBecomes
<1>3. CASE r \notin RowsThere /\ \E i \in NewIndexes(s) : new[i] = r
  <2> DEFINE j == CHOOSE i \in NewIndexes(s) : new[i] = r
  <2>1. row = AvailableRow(s, j)
    BY <1>3 DEF MergedGpus
  <2>2. j \in NewIndexes(s) /\ new[j] = r
    BY <1>3
  <2> HIDE DEF j
  <2>3. j \in Reported(s) /\ IsNew(s, new, row, r, j)
    BY <1>3, <2>1, <2>2 DEF IsNew, NewIndexes
  <2> QED
    BY <2>3 DEF RowBecomes
<1>4. CASE r \notin RowsThere /\ ~\E i \in NewIndexes(s) : new[i] = r
  <2>1. row = gpu[r]
    BY <1>4 DEF MergedGpus
  <2> QED
    BY <1>4, <2>1 DEF IsAbsent, RowBecomes
<1> QED
  BY <1>1, <1>2, <1>3, <1>4
LEMMA ReportedDevice ==
  ASSUME NEW s \in Snapshot, NEW i \in Reported(s)
  PROVE  s.gpus[i] \in Devices /\ i \in Indexes /\ i \in 0 .. IndexLimit /\ i \in Nat
BY IndexesAreNumbers DEF Reported, Snapshot

LEMMA AvailableRowType ==
  ASSUME NEW s \in Snapshot, NEW i \in Reported(s)
  PROVE  AvailableRow(s, i) \in GpuRow
BY ReportedDevice DEF AvailableRow, GpuRow

LEMMA MissingRowType ==
  ASSUME gpu \in [Rows -> GpuRow], NEW r \in RowsThere, Renumberable
  PROVE  MissingRow(r) \in GpuRow
<1>1. gpu[r] \in GpuRow
  BY DEF RowsThere
<1>2. gpu[r].index \in Nat /\ gpu[r].index + Offset <= IndexLimit
  BY <1>1, SizesAssumption DEF GpuRow, Renumberable
<1>3. gpu[r].index + Offset \in 0 .. IndexLimit
  BY <1>2, SizesAssumption
<1> QED
  BY <1>1, <1>3 DEF GpuRow, MissingRow

LEMMA RowBecomesType ==
  ASSUME gpu \in [Rows -> GpuRow], Renumberable, NEW s \in Snapshot, NEW new,
         NEW r \in Rows, NEW row, RowBecomes(s, new, row, r)
  PROVE  row \in GpuRow
<1>1. ASSUME NEW i \in Reported(s), IsTaken(s, row, r, i) \/ IsNew(s, new, row, r, i)
      PROVE  row \in GpuRow
  BY <1>1, AvailableRowType DEF IsTaken, IsNew
<1>2. CASE IsMissed(s, row, r)
  BY <1>2, MissingRowType DEF IsMissed
<1>3. CASE IsAbsent(row, r)
  BY <1>3 DEF IsAbsent
<1> QED
  BY <1>1, <1>2, <1>3 DEF RowBecomes

LEMMA MergedGpusType ==
  ASSUME gpu \in [Rows -> GpuRow], Renumberable, NEW s \in Snapshot, NEW new
  PROVE  MergedGpus(s, new) \in [Rows -> GpuRow]
<1> DEFINE merged == MergedGpus(s, new)
<1>1. merged = [r \in Rows |-> merged[r]]
  BY DEF MergedGpus
<1>2. \A r \in Rows : merged[r] \in GpuRow
  <2> SUFFICES ASSUME NEW r \in Rows
               PROVE  merged[r] \in GpuRow
    OBVIOUS
  <2>1. RowBecomes(s, new, merged[r], r)
    BY MergedRow
  <2> HIDE DEF merged
  <2> QED
    BY <2>1, RowBecomesType
<1> HIDE DEF merged
<1>3. merged \in [Rows -> GpuRow]
  BY <1>1, <1>2
<1> QED
  BY <1>3 DEF merged
(***************************************************************************)
(* Merged rows are distinct                                                *)
(***************************************************************************)
Differ(row, other) == row.device # other.device /\ row.index # other.index
IsGiven(s, new, row, r, i) == IsTaken(s, row, r, i) \/ IsNew(s, new, row, r, i)

\* What two rows of one GPU, or at one index, would be.
LEMMA OneRowIsTaken ==
  ASSUME GpuRowsAreDistinct, NEW s, NEW i,
         NEW r \in RowTaken(s, i), NEW q \in RowTaken(s, i)
  PROVE  r = q
BY DEF GpuRowsAreDistinct, RowTaken, RowOfDevice, RowAtIndex

LEMMA GivenToOne ==
  ASSUME GpuRowsAreDistinct, NEW s, NEW new,
         NEW r, NEW q, r # q, NEW row, NEW other, NEW i, NEW j,
         IsGiven(s, new, row, r, i), IsGiven(s, new, other, q, j)
  PROVE  i # j
<1> SUFFICES ASSUME i = j
             PROVE  FALSE
  OBVIOUS
<1>1. CASE IsTaken(s, row, r, i) /\ IsTaken(s, other, q, j)
  BY <1>1, OneRowIsTaken DEF IsTaken
<1>2. CASE IsNew(s, new, row, r, i) /\ IsNew(s, new, other, q, j)
  BY <1>2 DEF IsNew
<1> QED
  BY <1>1, <1>2 DEF IsTaken, IsNew, IsGiven

LEMMA GivenDiffer ==
  ASSUME GpuRowsAreDistinct, NEW s \in Snapshot, GpusAreDistinct(s), NEW new,
         NEW r, NEW q, r # q, NEW row, NEW other,
         NEW i \in Reported(s), NEW j \in Reported(s),
         IsGiven(s, new, row, r, i), IsGiven(s, new, other, q, j)
  PROVE  Differ(row, other)
<1>1. i # j
  BY GivenToOne
<1>2. s.gpus[i] # s.gpus[j]
  BY <1>1 DEF GpusAreDistinct, Reported
<1>3. row = AvailableRow(s, i) /\ other = AvailableRow(s, j)
  BY DEF IsGiven, IsTaken, IsNew
<1> QED
  BY <1>1, <1>2, <1>3 DEF Differ, AvailableRow

LEMMA GivenAndMissedDiffer ==
  ASSUME gpu \in [Rows -> GpuRow], NEW s \in Snapshot, NEW new,
         NEW r, NEW q, NEW row, NEW other, NEW i \in Reported(s),
         IsGiven(s, new, row, r, i), IsMissed(s, other, q)
  PROVE  Differ(row, other) /\ Differ(other, row)
<1>1. row = AvailableRow(s, i) /\ other = MissingRow(q) /\ q \in RowsThere
  BY DEF IsGiven, IsTaken, IsNew, IsMissed
<1>2. gpu[q].device # s.gpus[i]
  <2> SUFFICES ASSUME gpu[q].device = s.gpus[i]
               PROVE  FALSE
    OBVIOUS
  <2>1. q \in RowOfDevice(s, i)
    BY <1>1 DEF RowOfDevice
  <2>2. q \in RowTaken(s, i)
    BY <2>1 DEF RowTaken
  <2> QED
    BY <2>2 DEF IsMissed
<1>3. i # gpu[q].index + Offset
  <2>1. gpu[q].index \in Nat
    BY <1>1, SizesAssumption DEF RowsThere, GpuRow
  <2>2. i \in 0 .. Slots - 1
    BY DEF Reported, Indexes
  <2> QED
    BY <2>1, <2>2, SizesAssumption
<1> QED
  BY <1>1, <1>2, <1>3 DEF Differ, AvailableRow, MissingRow

LEMMA MissedDiffer ==
  ASSUME gpu \in [Rows -> GpuRow], GpuRowsAreDistinct, NEW s,
         NEW r, NEW q, r # q, NEW row, NEW other,
         IsMissed(s, row, r), IsMissed(s, other, q)
  PROVE  Differ(row, other)
<1>1. r \in RowsThere /\ q \in RowsThere /\ row = MissingRow(r) /\ other = MissingRow(q)
  BY DEF IsMissed
<1>2. gpu[r].device # gpu[q].device /\ gpu[r].index # gpu[q].index
  BY <1>1 DEF GpuRowsAreDistinct
<1>3. gpu[r].index \in Nat /\ gpu[q].index \in Nat
  BY <1>1, SizesAssumption DEF RowsThere, GpuRow
<1>4. gpu[r].index + Offset # gpu[q].index + Offset
  BY <1>2, <1>3, SizesAssumption
<1> QED
  BY <1>1, <1>2, <1>4 DEF Differ, MissingRow

LEMMA PresentRow ==
  ASSUME NEW s, NEW new, NEW row, NEW r \in Rows, RowBecomes(s, new, row, r),
         row.status # "absent"
  PROVE  (\E i \in Reported(s) : IsGiven(s, new, row, r, i)) \/ IsMissed(s, row, r)
BY DEF RowBecomes, IsGiven, IsAbsent, RowsThere

\* The rows a report leaves behind stand for different GPUs at different indexes.
LEMMA MergedRowsDiffer ==
  ASSUME gpu \in [Rows -> GpuRow], GpuRowsAreDistinct,
         NEW s \in Snapshot, GpusAreDistinct(s), NEW new,
         NEW r \in Rows, NEW q \in Rows, r # q, NEW row, NEW other,
         RowBecomes(s, new, row, r), RowBecomes(s, new, other, q),
         row.status # "absent", other.status # "absent"
  PROVE  Differ(row, other)
<1> DEFINE RowIsGiven == \E i \in Reported(s) : IsGiven(s, new, row, r, i)
           OtherIsGiven == \E i \in Reported(s) : IsGiven(s, new, other, q, i)
<1>1. RowIsGiven \/ IsMissed(s, row, r)
  BY PresentRow
<1>2. OtherIsGiven \/ IsMissed(s, other, q)
  BY PresentRow
<1>3. CASE RowIsGiven /\ OtherIsGiven
  BY <1>3, GivenDiffer
<1>4. CASE RowIsGiven /\ IsMissed(s, other, q)
  BY <1>4, GivenAndMissedDiffer
<1>5. CASE IsMissed(s, row, r) /\ OtherIsGiven
  BY <1>5, GivenAndMissedDiffer
<1>6. CASE IsMissed(s, row, r) /\ IsMissed(s, other, q)
  BY <1>6, MissedDiffer
<1> HIDE DEF RowIsGiven, OtherIsGiven
<1> QED
  BY <1>1, <1>2, <1>3, <1>4, <1>5, <1>6
(***************************************************************************)
(* Merged rows against the report                                          *)
(***************************************************************************)
LEMMA NoRowOfDevice ==
  ASSUME NEW s, NEW i, RowOfDevice(s, i) = {}
  PROVE  ~DeviceHasRow(s.gpus[i])
BY DEF RowOfDevice, DeviceHasRow

\* A row changes its GPU only for one that had no row.
LEMMA RowChangesForNewDevice ==
  ASSUME NEW s, NEW new, NEW r, NEW row, RowBecomes(s, new, row, r),
         row.device # gpu[r].device
  PROVE  ~DeviceHasRow(row.device)
<1>1. ASSUME NEW i \in Reported(s), IsTaken(s, row, r, i)
      PROVE  ~DeviceHasRow(row.device)
  <2>1. row.device = s.gpus[i]
    BY <1>1 DEF IsTaken, AvailableRow
  <2>2. RowOfDevice(s, i) = {}
    BY <1>1, <2>1 DEF IsTaken, RowTaken, RowOfDevice
  <2> QED
    BY <2>1, <2>2, NoRowOfDevice
<1>2. ASSUME NEW i \in Reported(s), IsNew(s, new, row, r, i)
      PROVE  ~DeviceHasRow(row.device)
  <2>1. row.device = s.gpus[i]
    BY <1>2 DEF IsNew, AvailableRow
  <2>2. RowOfDevice(s, i) = {}
    BY <1>2 DEF IsNew, RowTaken
  <2> QED
    BY <2>1, <2>2, NoRowOfDevice
<1>3. ~IsMissed(s, row, r) /\ ~IsAbsent(row, r)
  BY DEF IsMissed, IsAbsent, MissingRow
<1> QED
  BY <1>1, <1>2, <1>3 DEF RowBecomes

LEMMA AvailableIsReported ==
  ASSUME NEW s, NEW new, NEW r \in Rows, NEW row, RowBecomes(s, new, row, r),
         row.status = "available"
  PROVE  row.index \in Reported(s) /\ s.gpus[row.index] = row.device
<1>1. PICK i \in Reported(s) : IsTaken(s, row, r, i) \/ IsNew(s, new, row, r, i)
  BY DEF RowBecomes, IsMissed, MissingRow, IsAbsent, RowsThere
<1> QED
  BY <1>1 DEF IsTaken, IsNew, AvailableRow

\* Of the GPUs that want a row the last gets it; the others are accounted for.
LEMMA TakenRowIsMirrored ==
  ASSUME NEW s, GpusAreDistinct(s), NEW i \in Reported(s), NEW new,
         NEW r \in Rows, r \in RowTaken(s, i)
  PROVE  \/ TakenOver(s, i) \/ NewGpuIsDropped(s, i)
         \/ MergedGpus(s, new)[r] = AvailableRow(s, i)
<1> DEFINE j == LastOf(TakersOf(s, r))
<1>1. r \in RowsThere
  BY DEF RowTaken, RowOfDevice, RowAtIndex
<1>2. i \in TakersOf(s, r)
  BY DEF TakersOf
<1>3. MergedGpus(s, new)[r] = AvailableRow(s, j)
  BY <1>1, <1>2 DEF MergedGpus
<1>4. j \in Reported(s) /\ r \in RowTaken(s, j)
  BY <1>2, LastTakerIsReported
<1> HIDE DEF j
<1>5. CASE j = i
  BY <1>3, <1>5
<1>6. CASE j # i /\ RowOfDevice(s, i) # {}
  <2>1. gpu[r].device = s.gpus[i]
    BY <1>6 DEF RowTaken, RowOfDevice
  <2>2. s.gpus[j] # s.gpus[i]
    BY <1>4, <1>6 DEF GpusAreDistinct, Reported
  <2>3. RowOfDevice(s, j) = {} /\ r \in RowAtIndex(j)
    BY <1>4, <2>1, <2>2 DEF RowTaken, RowOfDevice
  <2>4. gpu[r].index = j /\ ~DeviceHasRow(s.gpus[j])
    BY <2>3, NoRowOfDevice DEF RowAtIndex
  <2> QED
    BY <1>1, <1>4, <1>6, <2>1, <2>4 DEF TakenOver
<1>7. CASE j # i /\ RowOfDevice(s, i) = {}
  <2>1. r \in RowAtIndex(i) /\ ~DeviceHasRow(s.gpus[i])
    BY <1>7, NoRowOfDevice DEF RowTaken
  <2>2. gpu[r].device = s.gpus[j]
    BY <1>4, <1>7, <2>1 DEF RowTaken, RowOfDevice, RowAtIndex
  <2> QED
    BY <1>4, <2>1, <2>2 DEF NewGpuIsDropped
<1> QED
  BY <1>5, <1>6, <1>7

LEMMA NewRowIsMirrored ==
  ASSUME NEW s, NEW new \in NewRows(s), NEW i \in NewIndexes(s)
  PROVE  new[i] \in Rows /\ MergedGpus(s, new)[new[i]] = AvailableRow(s, i)
<1>1. new[i] \in Rows /\ new[i] \notin RowsThere
  BY DEF NewRows
<1> DEFINE j == CHOOSE k \in NewIndexes(s) : new[k] = new[i]
<1>2. j \in NewIndexes(s) /\ new[j] = new[i]
  OBVIOUS
<1>3. MergedGpus(s, new)[new[i]] = AvailableRow(s, j)
  BY <1>1 DEF MergedGpus
<1> HIDE DEF j
<1>4. j = i
  BY <1>2 DEF NewRows
<1> QED
  BY <1>1, <1>3, <1>4

LEMMA ReportedIsMirrored ==
  ASSUME NEW s, GpusAreDistinct(s), NEW new \in NewRows(s), NEW i \in Reported(s)
  PROVE  \/ TakenOver(s, i) \/ NewGpuIsDropped(s, i)
         \/ \E r \in Rows : MergedGpus(s, new)[r] = AvailableRow(s, i)
<1>1. CASE RowTaken(s, i) = {}
  BY <1>1, NewRowIsMirrored DEF NewIndexes
<1>2. CASE RowTaken(s, i) # {}
  <2>1. PICK r \in RowTaken(s, i) : TRUE
    BY <1>2
  <2>2. r \in Rows
    BY <2>1 DEF RowTaken, RowOfDevice, RowAtIndex, RowsThere
  <2> QED
    BY <2>1, <2>2, TakenRowIsMirrored
<1> QED
  BY <1>1, <1>2
(***************************************************************************)
(* Types of reports and of directories                                     *)
(***************************************************************************)
LEMMA ScanTypes ==
  ASSUME NEW w \in Worlds, NEW scan \in Scans
  PROVE  SnapshotOf(w, scan) \in Snapshot /\ GpusAreDistinct(SnapshotOf(w, scan))
<1>1. w \in Snapshot /\ GpusAreDistinct(w)
  BY WorldsAssumption, UuidAssumption
<1>2. PICK v \in Worlds : scan = Scan(v)
  BY DEF Scans
<1>3. v \in Snapshot
  BY WorldsAssumption
<1>4. /\ scan.advertised \in SUBSET Dirs /\ scan.reachable \in SUBSET Dirs
      /\ scan.found \in SUBSET Dirs /\ scan.default \in Dirs \cup {NoDir}
  BY <1>2, <1>3 DEF Scan, Snapshot
<1>5. w.gpus \in [Indexes -> Devices \cup {NoDevice}]
  BY <1>1 DEF Snapshot
<1>6. SnapshotOf(w, scan) \in Snapshot
  BY <1>4, <1>5 DEF SnapshotOf, Snapshot
<1>7. GpusAreDistinct(SnapshotOf(w, scan))
  BY <1>1 DEF GpusAreDistinct, SnapshotOf
<1> QED
  BY <1>6, <1>7

LEMMA CurrentScanType ==
  ASSUME TypeOK
  PROVE  CurrentScan \in Scans
<1>1. world \in Worlds /\ cache \in SUBSET Scans
  BY DEF TypeOK
<1>2. CASE cache = {}
  BY <1>1, <1>2 DEF CurrentScan, Scans
<1>3. CASE cache # {}
  BY <1>1, <1>3 DEF CurrentScan
<1> QED
  BY <1>2, <1>3

LEMMA NoReportType ==
  NoReport \in Report /\ GpusAreDistinct(NoReport.snapshot)
<1>1. NoSnapshot \in Snapshot
  BY DEF NoSnapshot, Snapshot
<1>2. 0 \in 0 .. MaxTokens
  BY SizesAssumption
<1>3. NoReport \in Report
  BY <1>1, <1>2 DEF NoReport, Report, Phases, ServerStatuses
<1>4. GpusAreDistinct(NoReport.snapshot)
  BY DEF GpusAreDistinct, NoReport, NoSnapshot
<1> QED
  BY <1>3, <1>4

LEMMA DirRowType ==
  ASSUME NEW a \in BOOLEAN, NEW b \in BOOLEAN, NEW c \in BOOLEAN, NEW e \in BOOLEAN
  PROVE  [exists |-> a, allowed |-> b, available |-> c, default |-> e] \in DirRow
BY DEF DirRow

LEMMA StoredType ==
  ASSUME NEW now \in BOOLEAN, NEW seen, NEW new \in BOOLEAN
  PROVE  Stored(now, seen, new) \in BOOLEAN
BY DEF Stored

LEMMA MergedDirType ==
  ASSUME dir \in [Dirs -> DirRow], NEW s, NEW seen, NEW p, NEW d \in Dirs
  PROVE  MergedDir(s, seen, p, d) \in DirRow
<1>1. dir[d].exists \in BOOLEAN /\ dir[d].default \in BOOLEAN
  BY DEF DirRow
<1>2. (dir[d].exists \/ d \in s.advertised) \in BOOLEAN
  OBVIOUS
<1>3. (d \in s.advertised) \in BOOLEAN
  OBVIOUS
<1>4. (d \in s.advertised /\ d \in s.reachable) \in BOOLEAN
  OBVIOUS
<1>5. (d \in s.advertised /\ d = p) \in BOOLEAN
  OBVIOUS
<1>6. Stored(dir[d].default, d \in seen, d \in s.advertised /\ d = p) \in BOOLEAN
  BY <1>1, <1>5, StoredType
<1> QED
  BY <1>2, <1>3, <1>4, <1>6, DirRowType DEF MergedDir

LEMMA MergedFileType ==
  ASSUME file \in [Dirs -> FileStatuses], NEW s, NEW d \in Dirs
  PROVE  MergedFile(s, d) \in FileStatuses
BY DEF MergedFile, Unseen, FileStatuses

LEMMA ChosenDirType ==
  ASSUME dir \in [Dirs -> DirRow], NEW d \in Dirs, NEW b \in BOOLEAN
  PROVE  [exists |-> dir[d].exists, allowed |-> dir[d].allowed,
          available |-> dir[d].available, default |-> b] \in DirRow
<1>1. dir[d].exists \in BOOLEAN /\ dir[d].allowed \in BOOLEAN /\ dir[d].available \in BOOLEAN
  BY DEF DirRow
<1> QED
  BY <1>1, DirRowType
(***************************************************************************)
(* The inductive invariant: types, no report that carries one GPU twice,   *)
(* and rows that stand for different GPUs at different indexes.            *)
(***************************************************************************)
SnapshotsAreDistinct == \A x \in Reports : GpusAreDistinct(report[x].snapshot)

TablesOK == ReportTablesTypeOK /\ GpuRowsAreDistinct
ReportsOK == report \in [Reports -> Report] /\ SnapshotsAreDistinct
ChoicesOK == sweep \in BOOLEAN /\ choice \in Dirs \cup {NoDir}
AgentOK == agent \in Agent /\ (agent.phase = "waiting" <=> agent.report \in Reports)
CacheOK == cache \in SUBSET Scans /\ Cardinality(cache) <= 1
WorldOK == world \in Worlds /\ events \in 0 .. MaxEvents

Inv == TypeOK /\ SnapshotsAreDistinct /\ GpuRowsAreDistinct

LEMMA InvParts ==
  Inv <=> TablesOK /\ ReportsOK /\ ChoicesOK /\ AgentOK /\ CacheOK /\ WorldOK
BY DEF Inv, TypeOK, ReportCentralTypeOK, TablesOK, ReportsOK, ChoicesOK, AgentOK, CacheOK,
       WorldOK

LEMMA InvPartsAfter ==
  ASSUME TablesOK', ReportsOK', ChoicesOK', AgentOK', CacheOK', WorldOK'
  PROVE  Inv'
BY DEF Inv, TypeOK, ReportCentralTypeOK, TablesOK, ReportsOK, ChoicesOK, AgentOK, CacheOK,
       WorldOK

\* What a step leaves alone keeps its part of the invariant.
LEMMA TablesKept ==
  ASSUME TablesOK, UNCHANGED reportTables
  PROVE  TablesOK'
BY DEF TablesOK, reportTables, ReportTablesTypeOK, GpuRowsAreDistinct, RowsThere

LEMMA ReportsKept ==
  ASSUME ReportsOK, UNCHANGED report
  PROVE  ReportsOK'
BY DEF ReportsOK, SnapshotsAreDistinct

LEMMA ChoicesKept ==
  ASSUME ChoicesOK, UNCHANGED <<sweep, choice>>
  PROVE  ChoicesOK'
BY DEF ChoicesOK

LEMMA AgentKept ==
  ASSUME AgentOK, UNCHANGED agent
  PROVE  AgentOK'
BY DEF AgentOK

LEMMA CacheKept ==
  ASSUME CacheOK, UNCHANGED cache
  PROVE  CacheOK'
BY DEF CacheOK

LEMMA WorldKept ==
  ASSUME WorldOK, UNCHANGED world, UNCHANGED events \/ Event
  PROVE  WorldOK'
<1>1. events' \in 0 .. MaxEvents
  BY BoundsAssumption DEF WorldOK, Event
<1> QED
  BY <1>1 DEF WorldOK

LEMMA CacheEmptied ==
  ASSUME cache' = {}
  PROVE  CacheOK'
<1>1. Cardinality({}) <= 1
  BY FS_EmptySet
<1> QED
  BY <1>1 DEF CacheOK

\* One row of the reports under way is written.
LEMMA ReportWritten ==
  ASSUME ReportsOK, NEW x \in Reports, NEW row \in Report, GpusAreDistinct(row.snapshot),
         report' = [report EXCEPT ![x] = row]
  PROVE  ReportsOK'
<1>1. report' \in [Reports -> Report]
  BY DEF ReportsOK
<1>2. \A y \in Reports : GpusAreDistinct(report'[y].snapshot)
  BY DEF ReportsOK, SnapshotsAreDistinct
<1> QED
  BY <1>1, <1>2 DEF ReportsOK, SnapshotsAreDistinct

LEMMA ReportMoved ==
  ASSUME ReportsOK, NEW x \in Reports, NEW phase \in Phases, NEW status \in ServerStatuses,
         NEW defaults \in SUBSET Dirs, Moves(x, phase, status, defaults)
  PROVE  ReportsOK'
<1>1. report[x] \in Report /\ GpusAreDistinct(report[x].snapshot)
  BY DEF ReportsOK, SnapshotsAreDistinct
<1>2. InPhase(x, phase, status, defaults) \in Report
  BY <1>1 DEF InPhase, Report
<1>3. GpusAreDistinct(InPhase(x, phase, status, defaults).snapshot)
  BY <1>1 DEF InPhase
<1> QED
  BY <1>2, <1>3, ReportWritten DEF Moves

LEMMA ReportEnded ==
  ASSUME ReportsOK, NEW x \in Reports, ReportOver(x)
  PROVE  ReportsOK'
BY NoReportType, ReportWritten DEF ReportOver

\* The Agent's loop goes to a phase, with the report it waits for in that phase alone.
LEMMA AgentMoved ==
  ASSUME AgentOK, NEW phase \in {"stopped", "idle", "waiting"},
         NEW x \in Reports \cup {NoReportSlot}, phase = "waiting" <=> x \in Reports,
         AgentIs(phase, x)
  PROVE  AgentOK'
BY DEF AgentOK, Agent, AgentIs

LEMMA AgentLetGo ==
  ASSUME AgentOK, NEW phase \in {"stopped", "idle"}, AgentIs(phase, NoReportSlot)
  PROVE  AgentOK'
BY AgentMoved, BoundsAssumption

LEMMA AgentAnswered ==
  ASSUME AgentOK, NEW x, Answered(x)
  PROVE  AgentOK'
<1>1. CASE IsAwaited(x)
  BY <1>1, AgentLetGo DEF Answered
<1>2. CASE ~IsAwaited(x)
  BY <1>2, AgentKept DEF Answered
<1> QED
  BY <1>1, <1>2
(***************************************************************************)
(* Every step keeps it                                                     *)
(***************************************************************************)
\* What a stored report makes of the tables.
LEMMA CommitRows ==
  ASSUME Inv, NEW x \in Reports, ReportCommit(x)
  PROVE  \E new \in NewRows(report[x].snapshot) :
           /\ gpu' = MergedGpus(report[x].snapshot, new)
           /\ \A r \in Rows : RowBecomes(report[x].snapshot, new, gpu'[r], r)
<1>1. PICK new \in NewRows(report[x].snapshot) : gpu' = MergedGpus(report[x].snapshot, new)
  BY DEF ReportCommit
<1>2. \A r \in Rows : RowBecomes(report[x].snapshot, new, gpu'[r], r)
  BY <1>1, MergedRow
<1> QED
  BY <1>1, <1>2

LEMMA ReportRead ==
  ASSUME ReportsOK, NEW x \in Reports
  PROVE  /\ report[x] \in Report /\ report[x].snapshot \in Snapshot
         /\ GpusAreDistinct(report[x].snapshot)
BY DEF ReportsOK, SnapshotsAreDistinct, Report

LEMMA CommitKeepsGpus ==
  ASSUME Inv, NEW x \in Reports, ReportCommit(x)
  PROVE  gpu' \in [Rows -> GpuRow] /\ GpuRowsAreDistinct'
<1> DEFINE s == report[x].snapshot
<1>1. s \in Snapshot /\ GpusAreDistinct(s) /\ gpu \in [Rows -> GpuRow] /\ GpuRowsAreDistinct
  BY InvParts, ReportRead DEF TablesOK, ReportTablesTypeOK
<1>2. PICK new \in NewRows(s) :
        gpu' = MergedGpus(s, new) /\ \A r \in Rows : RowBecomes(s, new, gpu'[r], r)
  BY CommitRows
<1>3. Renumberable
  BY DEF ReportCommit
<1> HIDE DEF s
<1>4. gpu' \in [Rows -> GpuRow]
  BY <1>1, <1>2, <1>3, MergedGpusType
<1>5. ASSUME NEW r \in Rows, NEW q \in Rows, r # q,
             gpu'[r].status # "absent", gpu'[q].status # "absent"
      PROVE  Differ(gpu'[r], gpu'[q])
  <2> SUFFICES ASSUME NEW row, NEW other, row = gpu'[r], other = gpu'[q]
               PROVE  Differ(row, other)
    OBVIOUS
  <2>1. RowBecomes(s, new, row, r) /\ RowBecomes(s, new, other, q)
    BY <1>2
  <2>2. row.status # "absent" /\ other.status # "absent"
    BY <1>5
  <2> QED
    BY <1>1, <1>5, <2>1, <2>2, MergedRowsDiffer
<1>6. GpuRowsAreDistinct'
  BY <1>5 DEF GpuRowsAreDistinct, RowsThere, Differ
<1> QED
  BY <1>4, <1>6

LEMMA CommitKeepsTables ==
  ASSUME Inv, NEW x \in Reports, ReportCommit(x)
  PROVE  TablesOK'
<1>1. /\ server \in ServerRow /\ token \in TokenRow /\ dir \in [Dirs -> DirRow]
      /\ file \in [Dirs -> FileStatuses] /\ report[x].status \in ServerStatuses
  BY InvParts, ReportRead DEF TablesOK, ReportTablesTypeOK, Report
<1>2. server' \in ServerRow
  <2>1. StatusAfter(x) \in ServerStatuses
    BY <1>1 DEF StatusAfter, Stored, ServerRow, ServerStatuses
  <2> QED
    BY <2>1 DEF ReportCommit, ServerRow
<1>3. token' \in TokenRow
  BY <1>1 DEF ReportCommit
<1>4. dir' \in [Dirs -> DirRow]
  BY <1>1, MergedDirType DEF ReportCommit
<1>5. file' \in [Dirs -> FileStatuses]
  BY <1>1, MergedFileType DEF ReportCommit
<1> QED
  BY <1>2, <1>3, <1>4, <1>5, CommitKeepsGpus DEF TablesOK, ReportTablesTypeOK

LEMMA AgentReportsKeeps ==
  ASSUME Inv, NEW x \in Reports, AgentReports(x)
  PROVE  Inv'
<1> USE InvParts
<1>1. CurrentScan \in Scans
  BY CurrentScanType DEF Inv
<1>2. ReportsOK'
  <2> DEFINE row == [phase |-> "sent", token |-> agent.token,
                     snapshot |-> SnapshotOf(world, CurrentScan), status |-> "pending",
                     defaults |-> {}]
  <2>1. /\ SnapshotOf(world, CurrentScan) \in Snapshot
        /\ GpusAreDistinct(SnapshotOf(world, CurrentScan))
    BY <1>1, ScanTypes DEF WorldOK
  <2>2. row \in Report /\ GpusAreDistinct(row.snapshot)
    BY <2>1 DEF Report, Phases, ServerStatuses, AgentOK, Agent
  <2>3. report' = [report EXCEPT ![x] = row]
    BY DEF AgentReports, Send
  <2> HIDE DEF row
  <2> QED
    BY <2>2, <2>3, ReportWritten
<1>3. CacheOK'
  <2>1. Cardinality({CurrentScan}) = 1
    BY FS_Singleton
  <2> QED
    BY <1>1, <2>1 DEF CacheOK, AgentReports
<1>4. AgentOK'
  BY AgentMoved DEF AgentReports
<1>5. TablesOK' /\ ChoicesOK' /\ WorldOK'
  BY TablesKept, ChoicesKept, WorldKept DEF AgentReports
<1> QED
  BY <1>2, <1>3, <1>4, <1>5, InvPartsAfter
LEMMA ScanExpiresKeeps ==
  ASSUME Inv, ScanExpires
  PROVE  Inv'
<1>1. TablesOK' /\ ReportsOK' /\ ChoicesOK' /\ AgentOK' /\ WorldOK'
  BY InvParts, TablesKept, ReportsKept, ChoicesKept, AgentKept, WorldKept
     DEF ScanExpires, reportCentralVars
<1> QED
  BY <1>1, CacheEmptied, InvPartsAfter DEF ScanExpires

LEMMA AgentTimesOutKeeps ==
  ASSUME Inv, AgentTimesOut
  PROVE  Inv'
<1>1. TablesOK' /\ ReportsOK' /\ ChoicesOK' /\ CacheOK' /\ WorldOK'
  BY InvParts, TablesKept, ReportsKept, ChoicesKept, CacheKept, WorldKept
     DEF AgentTimesOut, reportCentralVars
<1>2. AgentOK'
  BY InvParts, AgentLetGo DEF AgentTimesOut
<1> QED
  BY <1>1, <1>2, InvPartsAfter

LEMMA AgentCrashesKeeps ==
  ASSUME Inv, AgentCrashes
  PROVE  Inv'
<1>1. TablesOK' /\ ReportsOK' /\ ChoicesOK' /\ WorldOK'
  BY InvParts, TablesKept, ReportsKept, ChoicesKept, WorldKept
     DEF AgentCrashes, reportCentralVars
<1>2. AgentOK' /\ CacheOK'
  BY InvParts, AgentLetGo, CacheEmptied DEF AgentCrashes
<1> QED
  BY <1>1, <1>2, InvPartsAfter

LEMMA AgentStartsKeeps ==
  ASSUME Inv, AgentStarts
  PROVE  Inv'
<1>1. TablesOK' /\ ReportsOK' /\ ChoicesOK' /\ CacheOK' /\ WorldOK'
  BY InvParts, TablesKept, ReportsKept, ChoicesKept, CacheKept, WorldKept
     DEF AgentStarts, reportCentralVars
<1>2. AgentOK'
  BY InvParts, BoundsAssumption
     DEF AgentStarts, AgentOK, Agent, TablesOK, ReportTablesTypeOK, TokenRow
<1> QED
  BY <1>1, <1>2, InvPartsAfter

LEMMA WorldChangesKeeps ==
  ASSUME Inv, NEW w \in Worlds, WorldChanges(w)
  PROVE  Inv'
<1>1. TablesOK' /\ ReportsOK' /\ ChoicesOK' /\ AgentOK' /\ CacheOK'
  BY InvParts, TablesKept, ReportsKept, ChoicesKept, AgentKept, CacheKept
     DEF WorldChanges, reportCentralVars
<1>2. WorldOK'
  BY InvParts, BoundsAssumption DEF WorldChanges, WorldOK, Event
<1> QED
  BY <1>1, <1>2, InvPartsAfter

LEMMA ReportStepKeeps ==
  ASSUME Inv, NEW x \in Reports, ReportStep(x)
  PROVE  Inv'
<1>1. CASE ReportAuthenticated(x)
  <2>1. TablesOK' /\ ChoicesOK' /\ AgentOK' /\ CacheOK' /\ WorldOK'
    BY <1>1, InvParts, TablesKept, ChoicesKept, AgentKept, CacheKept, WorldKept
       DEF ReportAuthenticated, Authenticate, agentVars
  <2>2. server.status \in ServerStatuses
    BY InvParts DEF TablesOK, ReportTablesTypeOK, ServerRow
  <2>3. ReportsOK'
    BY <1>1, <2>2, InvParts, ReportMoved DEF ReportAuthenticated, Authenticate, Phases
  <2> QED
    BY <2>1, <2>3, InvPartsAfter
<1>2. CASE ReportBegins(x)
  <2>1. TablesOK' /\ ChoicesOK' /\ AgentOK' /\ CacheOK' /\ WorldOK'
    BY <1>2, InvParts, TablesKept, ChoicesKept, AgentKept, CacheKept, WorldKept
       DEF ReportBegins, BeginMerge, agentVars
  <2>2. report[x].status \in ServerStatuses
    BY InvParts, ReportRead DEF Report
  <2>3. ReportsOK'
    BY <1>2, <2>2, InvParts, ReportMoved DEF ReportBegins, BeginMerge, Phases
  <2> QED
    BY <2>1, <2>3, InvPartsAfter
<1>3. CASE ReportRefused(x)
  <2>1. TablesOK' /\ ReportsOK' /\ ChoicesOK' /\ WorldOK'
    BY <1>3, InvParts, TablesKept, ReportEnded, ChoicesKept, WorldKept
       DEF ReportRefused, Refuse
  <2>2. AgentOK' /\ CacheOK'
    <3>1. CASE IsAwaited(x)
      BY <1>3, <3>1, InvParts, AgentLetGo, CacheEmptied DEF ReportRefused
    <3>2. CASE ~IsAwaited(x)
      BY <1>3, <3>2, InvParts, AgentKept, CacheKept DEF ReportRefused
    <3> QED
      BY <3>1, <3>2
  <2> QED
    BY <2>1, <2>2, InvPartsAfter
<1>4. CASE ReportCommitted(x)
  <2>1. TablesOK'
    BY <1>4, CommitKeepsTables DEF ReportCommitted
  <2>2. ReportsOK' /\ ChoicesOK' /\ AgentOK' /\ CacheOK' /\ WorldOK'
    BY <1>4, InvParts, ReportEnded, ChoicesKept, AgentAnswered, CacheKept, WorldKept
       DEF ReportCommitted, ReportCommit
  <2> QED
    BY <2>1, <2>2, InvPartsAfter
<1>5. CASE ReportFailed(x)
  <2>1. /\ TablesOK' /\ ReportsOK' /\ ChoicesOK' /\ AgentOK' /\ CacheOK' /\ WorldOK'
    BY <1>5, InvParts, TablesKept, ReportEnded, ChoicesKept, AgentAnswered, CacheKept,
       WorldKept DEF ReportFailed, ReportFails
  <2> QED
    BY <2>1, InvPartsAfter
<1> QED
  BY <1>1, <1>2, <1>3, <1>4, <1>5 DEF ReportStep

LEMMA ReportBrokenKeeps ==
  ASSUME Inv, NEW x \in Reports, ReportBroken(x)
  PROVE  Inv'
<1>1. TablesOK' /\ ReportsOK' /\ ChoicesOK' /\ AgentOK' /\ CacheOK' /\ WorldOK'
  BY InvParts, TablesKept, ReportEnded, ChoicesKept, AgentAnswered, CacheKept, WorldKept
     DEF ReportBroken, ReportBreaksOff
<1> QED
  BY <1>1, InvPartsAfter

\* The steps that touch the server row alone.
LEMMA ServerStepKeeps ==
  ASSUME Inv, TimePasses \/ SweepStep
  PROVE  Inv'
<1>1. ReportsOK' /\ AgentOK' /\ CacheOK' /\ WorldOK'
  BY InvParts, ReportsKept, AgentKept, CacheKept, WorldKept
     DEF TimePasses, SweepStep, SweepSelect, SweepCommit, agentVars
<1>2. ChoicesOK'
  BY InvParts DEF TimePasses, SweepStep, SweepSelect, SweepCommit, ChoicesOK
<1>3. server' \in ServerRow
  BY InvParts DEF TablesOK, ReportTablesTypeOK, ServerRow, ServerStatuses, TimePasses,
     SweepStep, SweepSelect, SweepCommit, SweptStatus, reportTables
<1>4. UNCHANGED <<token, gpu, dir, file>>
  BY DEF TimePasses, SweepStep, SweepSelect, SweepCommit, reportTables
<1>5. TablesOK'
  BY <1>3, <1>4, InvParts DEF TablesOK, ReportTablesTypeOK, GpuRowsAreDistinct, RowsThere
<1> QED
  BY <1>1, <1>2, <1>5, InvPartsAfter

LEMMA ChooseKeeps ==
  ASSUME Inv, NEW d \in Dirs, Chooses(d)
  PROVE  Inv'
<1>1. TablesOK' /\ ReportsOK' /\ AgentOK' /\ CacheOK' /\ WorldOK'
  BY InvParts, TablesKept, ReportsKept, AgentKept, CacheKept, WorldKept
     DEF Chooses, DefaultLoad, agentVars
<1>2. ChoicesOK'
  BY InvParts DEF Chooses, DefaultLoad, ChoicesOK
<1> QED
  BY <1>1, <1>2, InvPartsAfter

LEMMA ChoiceCommittedKeeps ==
  ASSUME Inv, ChoiceCommitted
  PROVE  Inv'
<1>1. ReportsOK' /\ AgentOK' /\ CacheOK' /\ WorldOK'
  BY InvParts, ReportsKept, AgentKept, CacheKept, WorldKept
     DEF ChoiceCommitted, DefaultCommit, agentVars
<1>2. ChoicesOK'
  BY InvParts DEF ChoiceCommitted, DefaultCommit, ChoicesOK
<1>3. dir' \in [Dirs -> DirRow]
  <2>1. dir \in [Dirs -> DirRow]
    BY InvParts DEF TablesOK, ReportTablesTypeOK
  <2>2. \A d \in Dirs : (d = choice) \in BOOLEAN
    OBVIOUS
  <2> QED
    BY <2>1, <2>2, ChosenDirType DEF ChoiceCommitted, DefaultCommit
<1>4. TablesOK'
  BY <1>3, InvParts
     DEF ChoiceCommitted, DefaultCommit, TablesOK, ReportTablesTypeOK, GpuRowsAreDistinct,
         RowsThere
<1> QED
  BY <1>1, <1>2, <1>4, InvPartsAfter

LEMMA TokenStepKeeps ==
  ASSUME Inv, TokenStep
  PROVE  Inv'
<1>1. ReportsOK' /\ ChoicesOK' /\ AgentOK' /\ CacheOK' /\ WorldOK'
  BY InvParts, ReportsKept, ChoicesKept, AgentKept, CacheKept, WorldKept
     DEF TokenStep, rotate_agent_token, revoke_agent_token, agentVars
<1>2. token' \in TokenRow
  <2>1. token.version \in 0 .. MaxTokens
    BY InvParts DEF TablesOK, ReportTablesTypeOK, TokenRow
  <2>2. CASE rotate_agent_token
    <3>1. token.version + 1 \in 0 .. MaxTokens
      BY <2>1, <2>2, SizesAssumption DEF rotate_agent_token
    <3> QED
      BY <2>2, <3>1 DEF rotate_agent_token, TokenRow
  <2>3. CASE revoke_agent_token
    BY <2>1, <2>3 DEF revoke_agent_token, TokenRow
  <2> QED
    BY <2>2, <2>3 DEF TokenStep
<1>3. TablesOK'
  BY <1>2, InvParts
     DEF TokenStep, rotate_agent_token, revoke_agent_token, TablesOK, ReportTablesTypeOK,
         GpuRowsAreDistinct, RowsThere
<1> QED
  BY <1>1, <1>3, InvPartsAfter

LEMMA InvInit == Init => Inv
<1> SUFFICES ASSUME Init
             PROVE  Inv
  OBVIOUS
<1>1. TablesOK
  <2>1. server \in ServerRow /\ token \in TokenRow /\ file \in [Dirs -> FileStatuses]
    BY SizesAssumption
       DEF Init, ReportCentralInit, ReportTablesInit, ServerRow, ServerStatuses, TokenRow,
           FileStatuses
  <2>2. gpu \in [Rows -> GpuRow] /\ RowsThere = {}
    BY SizesAssumption
       DEF Init, ReportCentralInit, ReportTablesInit, GpuRow, NoGpuRow, RowsThere
  <2>3. dir \in [Dirs -> DirRow]
    BY DirRowType DEF Init, ReportCentralInit, ReportTablesInit
  <2> QED
    BY <2>1, <2>2, <2>3 DEF TablesOK, ReportTablesTypeOK, GpuRowsAreDistinct
<1>2. ReportsOK
  BY NoReportType DEF Init, ReportCentralInit, ReportsOK, SnapshotsAreDistinct
<1>3. ChoicesOK
  BY DEF Init, ReportCentralInit, ChoicesOK
<1>4. AgentOK
  BY SizesAssumption, BoundsAssumption DEF Init, AgentInit, AgentOK, Agent
<1>5. CacheOK
  <2>1. cache = {} /\ Cardinality({}) <= 1
    BY FS_EmptySet DEF Init, AgentInit
  <2> QED
    BY <2>1 DEF CacheOK
<1>6. WorldOK
  BY BoundsAssumption DEF Init, WorldOK
<1> QED
  BY <1>1, <1>2, <1>3, <1>4, <1>5, <1>6, InvParts

LEMMA InvStep == Inv /\ [Next]_vars => Inv'
<1> SUFFICES ASSUME Inv, [Next]_vars
             PROVE  Inv'
  OBVIOUS
<1>1. CASE Next
  BY <1>1, AgentReportsKeeps, ScanExpiresKeeps, AgentTimesOutKeeps, AgentCrashesKeeps,
     AgentStartsKeeps, WorldChangesKeeps, ReportStepKeeps, ReportBrokenKeeps,
     ServerStepKeeps, ChooseKeeps, ChoiceCommittedKeeps, TokenStepKeeps
     DEF Next, AgentStep
<1>2. CASE UNCHANGED vars
  <2>1. TablesOK' /\ ReportsOK' /\ ChoicesOK' /\ AgentOK' /\ CacheOK' /\ WorldOK'
    BY <1>2, InvParts, TablesKept, ReportsKept, ChoicesKept, AgentKept, CacheKept, WorldKept
       DEF vars, reportCentralVars, agentVars
  <2> QED
    BY <2>1, InvPartsAfter
<1> QED
  BY <1>1, <1>2

LEMMA Invariance == Spec => []Inv
BY InvInit, InvStep, PTL DEF Spec
(***************************************************************************)
(* Theorems                                                                *)
(***************************************************************************)
\* Every variable keeps its type, for any number of GPUs, directories, reports
\* under way and events: no merge leaves the range of the index column, and the
\* Agent waits exactly while it has a report to wait for.
THEOREM TypesStay == Spec => []TypeOK
BY Invariance, PTL DEF Inv

\* However renumbered, lost and replaced GPUs follow each other in the reports, no
\* two rows stand for one GPU or hold one index.
THEOREM RowsStayDistinct == Spec => []GpuRowsAreDistinct
BY Invariance, PTL DEF Inv

\* Only a stored report writes GPU rows and files, and but for it only the choice
\* of a default writes directories.
LEMMA WrittenByCommits ==
  ASSUME [Next]_vars
  PROVE  \/ \E x \in Reports : ReportCommit(x)
         \/ ChoiceCommitted /\ UNCHANGED <<gpu, file>>
         \/ UNCHANGED <<gpu, dir, file>>
BY DEF Next, vars, reportCentralVars, reportTables, agentVars, AgentStep, AgentReports,
       ScanExpires, AgentTimesOut, AgentCrashes, AgentStarts, WorldChanges, ReportStep,
       ReportAuthenticated, Authenticate, ReportRefused, Refuse, ReportBegins, BeginMerge,
       ReportCommitted, ReportFailed, ReportFails, ReportBroken, ReportBreaksOff,
       TimePasses, SweepStep, SweepSelect, SweepCommit, Chooses, DefaultLoad,
       ChoiceCommitted, DefaultCommit, TokenStep, rotate_agent_token, revoke_agent_token

\* A GPU that Central knows never moves to another row.
THEOREM RowsKeepTheirDevice == Spec => RowKeepsDevice
<1>1. Inv /\ [Next]_vars =>
        [\A r \in Rows : gpu'[r].device # gpu[r].device => ~DeviceHasRow(gpu'[r].device)]_vars
  <2> SUFFICES ASSUME Inv, [Next]_vars, NEW r \in Rows, gpu'[r].device # gpu[r].device
               PROVE  ~DeviceHasRow(gpu'[r].device)
    OBVIOUS
  <2>1. PICK x \in Reports : ReportCommit(x)
    BY WrittenByCommits
  <2>2. PICK new \in NewRows(report[x].snapshot) :
          \A q \in Rows : RowBecomes(report[x].snapshot, new, gpu'[q], q)
    BY <2>1, CommitRows
  <2> QED
    BY <2>2, RowChangesForNewDevice
<1> QED
  BY <1>1, Invariance, PTL DEF RowKeepsDevice, Spec

\* A stored report shows as available only what it carries, and leaves out a GPU
\* only for one that took its row over by the index.
THEOREM ReportsAreMirrored == Spec => ReportIsMirrored
<1> DEFINE Shown(s) ==
             /\ \A r \in Rows : gpu'[r].status = "available" =>
                  gpu'[r].index \in Reported(s) /\ s.gpus[gpu'[r].index] = gpu'[r].device
             /\ \A i \in Reported(s) :
                  \/ TakenOver(s, i) \/ NewGpuIsDropped(s, i)
                  \/ \E r \in Rows : gpu'[r] = AvailableRow(s, i)
<1>1. Inv /\ [Next]_vars =>
        [\A x \in Reports : ReportCommit(x) => Shown(report[x].snapshot)]_vars
  <2> SUFFICES ASSUME Inv, NEW x \in Reports, ReportCommit(x)
               PROVE  Shown(report[x].snapshot)
    OBVIOUS
  <2> DEFINE s == report[x].snapshot
  <2>1. GpusAreDistinct(s)
    BY InvParts, ReportRead
  <2>2. PICK new \in NewRows(s) :
          gpu' = MergedGpus(s, new) /\ \A r \in Rows : RowBecomes(s, new, gpu'[r], r)
    BY CommitRows
  <2> HIDE DEF s
  <2>3. ASSUME NEW r \in Rows, gpu'[r].status = "available"
        PROVE  gpu'[r].index \in Reported(s) /\ s.gpus[gpu'[r].index] = gpu'[r].device
    BY <2>2, <2>3, AvailableIsReported
  <2>4. ASSUME NEW i \in Reported(s)
        PROVE  \/ TakenOver(s, i) \/ NewGpuIsDropped(s, i)
               \/ \E r \in Rows : gpu'[r] = AvailableRow(s, i)
    BY <2>1, <2>2, <2>4, ReportedIsMirrored
  <2>5. Shown(s)
    BY <2>3, <2>4
  <2> QED
    BY <2>5 DEF s
<1> QED
  BY <1>1, Invariance, PTL DEF ReportIsMirrored, Spec

\* A model that is shown as present lies in a directory that the last report
\* advertised and could read.
THEOREM DiscoveredStaysServed == Spec => []DiscoveredIsServed
<1>1. Init => DiscoveredIsServed
  BY DEF Init, ReportCentralInit, ReportTablesInit, DiscoveredIsServed
<1>2. Inv /\ DiscoveredIsServed /\ [Next]_vars => DiscoveredIsServed'
  <2> SUFFICES ASSUME Inv, DiscoveredIsServed, [Next]_vars, NEW d \in Dirs,
                      file'[d] = "discovered"
               PROVE  dir'[d].allowed /\ dir'[d].available
    BY DEF DiscoveredIsServed
  <2>1. CASE \E x \in Reports : ReportCommit(x)
    <3>1. PICK x \in Reports : ReportCommit(x)
      BY <2>1
    <3> DEFINE s == report[x].snapshot
    <3>2. PICK p : dir'[d] = MergedDir(s, report[x].defaults, p, d)
      BY <3>1 DEF ReportCommit
    <3>3. MergedFile(s, d) = "discovered"
      BY <3>1 DEF ReportCommit
    <3> HIDE DEF s
    <3>4. d \in s.advertised /\ d \in s.reachable
      BY <3>3 DEF MergedFile, Unseen, IsServed
    <3>5. /\ dir'[d].allowed = (d \in s.advertised)
          /\ dir'[d].available = (d \in s.advertised /\ d \in s.reachable)
      BY <3>2 DEF MergedDir
    <3> QED
      BY <3>4, <3>5
  <2>2. CASE ChoiceCommitted
    BY <2>2 DEF ChoiceCommitted, DefaultCommit, DiscoveredIsServed
  <2>3. CASE UNCHANGED <<dir, file>>
    BY <2>3 DEF DiscoveredIsServed
  <2> QED
    BY <2>1, <2>2, <2>3, WrittenByCommits
<1> QED
  BY <1>1, <1>2, Invariance, PTL DEF Spec

\* A report that read the defaults as they are takes none of those it advertises
\* away, unless another of them stays.
THEOREM DefaultsStay == Spec => DefaultStays
<1> DEFINE Stays(x) ==
             \A d \in DefaultsNow \cap report[x].snapshot.advertised :
               \/ dir'[d].default
               \/ \E e \in DefaultsNow : e # d /\ dir'[e].default
<1>1. [Next]_vars =>
        [\A x \in Reports : ReportCommit(x) /\ report[x].defaults = DefaultsNow => Stays(x)]_vars
  <2> SUFFICES ASSUME NEW x \in Reports, ReportCommit(x), report[x].defaults = DefaultsNow,
                      NEW d \in DefaultsNow \cap report[x].snapshot.advertised
               PROVE  \/ dir'[d].default
                      \/ \E e \in DefaultsNow : e # d /\ dir'[e].default
    OBVIOUS
  <2> DEFINE s == report[x].snapshot
  <2>1. PICK p \in DefaultPaths(s, DefaultsNow) :
          dir' = [e \in Dirs |-> MergedDir(s, DefaultsNow, p, e)]
    BY DEF ReportCommit
  <2>2. p \in DefaultsNow \cap s.advertised
    BY <2>1 DEF DefaultPaths
  <2>3. p \in Dirs /\ dir[p].default
    BY <2>2 DEF DefaultsNow
  <2> HIDE DEF s
  <2>4. dir'[p].default
    BY <2>1, <2>2, <2>3 DEF MergedDir, Stored
  <2> QED
    BY <2>2, <2>4
<1> QED
  BY <1>1, PTL DEF DefaultStays, Spec
(***************************************************************************)
(* Rows never run out                                                      *)
(***************************************************************************)
RowsNameDevices == \A r \in RowsThere : gpu[r].device \in Devices

LEMMA RowsNameDevicesInit == Init => RowsNameDevices
BY DEF Init, ReportCentralInit, ReportTablesInit, RowsNameDevices, RowsThere, NoGpuRow

LEMMA RowNamesDevice ==
  ASSUME RowsNameDevices, NEW s \in Snapshot, NEW new, NEW r \in Rows, NEW row,
         RowBecomes(s, new, row, r), row.status # "absent"
  PROVE  row.device \in Devices
<1>1. CASE IsMissed(s, row, r)
  BY <1>1 DEF IsMissed, MissingRow, RowsNameDevices
<1>2. ASSUME NEW i \in Reported(s), IsGiven(s, new, row, r, i)
      PROVE  row.device \in Devices
  BY <1>2, ReportedDevice DEF IsGiven, IsTaken, IsNew, AvailableRow
<1> QED
  BY <1>1, <1>2, PresentRow

LEMMA RowsNameDevicesStep ==
  ASSUME Inv, RowsNameDevices, [Next]_vars
  PROVE  RowsNameDevices'
<1>1. CASE \E x \in Reports : ReportCommit(x)
  <2>1. PICK x \in Reports : ReportCommit(x)
    BY <1>1
  <2>2. report[x].snapshot \in Snapshot
    BY InvParts, ReportRead
  <2>3. PICK new \in NewRows(report[x].snapshot) :
          \A r \in Rows : RowBecomes(report[x].snapshot, new, gpu'[r], r)
    BY <2>1, CommitRows
  <2>4. ASSUME NEW r \in Rows, gpu'[r].status # "absent"
        PROVE  gpu'[r].device \in Devices
    BY <2>2, <2>3, <2>4, RowNamesDevice
  <2> QED
    BY <2>4 DEF RowsNameDevices, RowsThere
<1>2. CASE UNCHANGED gpu
  BY <1>2 DEF RowsNameDevices, RowsThere
<1> QED
  BY <1>1, <1>2, WrittenByCommits

\* There is an injection into any finite set that is not smaller.
LEMMA InjectionIntoLarger ==
  ASSUME NEW S, NEW T, IsFiniteSet(S), IsFiniteSet(T), Cardinality(S) <= Cardinality(T)
  PROVE  \E f \in [S -> T] : \A a, b \in S : f[a] = f[b] => a = b
<1>1. Cardinality(S) \in Nat /\ Cardinality(T) \in Nat
  BY FS_CardinalityType
<1>2. ExistsBijection(1 .. Cardinality(T), T) /\ ExistsBijection(1 .. Cardinality(S), S)
  BY FS_CardinalityType
<1>3. ExistsBijection(S, 1 .. Cardinality(S))
  BY <1>2, Fun_ExistsBijSymmetric
<1>4. PICK f \in Bijection(S, 1 .. Cardinality(S)) : TRUE
  BY <1>3 DEF ExistsBijection
<1>5. PICK g \in Bijection(1 .. Cardinality(T), T) : TRUE
  BY <1>2 DEF ExistsBijection
<1>6. f \in [S -> 1 .. Cardinality(S)] /\ \A a, b \in S : f[a] = f[b] => a = b
  BY <1>4 DEF Bijection, Injection, IsInjective
<1>7. /\ g \in [1 .. Cardinality(T) -> T]
      /\ \A i, j \in 1 .. Cardinality(T) : g[i] = g[j] => i = j
  BY <1>5 DEF Bijection, Injection, IsInjective
<1>8. \A a \in S : f[a] \in 1 .. Cardinality(T)
  BY <1>1, <1>6
<1> DEFINE h == [a \in S |-> g[f[a]]]
<1>9. h \in [S -> T] /\ \A a, b \in S : h[a] = h[b] => a = b
  BY <1>6, <1>7, <1>8
<1> QED
  BY <1>9

LEMMA SizeOfRest ==
  ASSUME NEW S, NEW T, IsFiniteSet(S), T \subseteq S
  PROVE  IsFiniteSet(S \ T) /\ Cardinality(S \ T) = Cardinality(S) - Cardinality(T)
<1>1. S \cap T = T
  OBVIOUS
<1>2. /\ IsFiniteSet(S \ T)
      /\ Cardinality(S \ T) = Cardinality(S) - Cardinality(S \cap T)
  BY FS_Difference
<1> QED
  BY <1>1, <1>2

\* Rows and GPUs without a row are together not more than there are GPUs.
LEMMA NewRowsExist ==
  ASSUME Inv, RowsNameDevices, NEW s \in Snapshot, GpusAreDistinct(s)
  PROVE  NewRows(s) # {}
<1> DEFINE held == {gpu[r].device : r \in RowsThere}
<1>1. IsFiniteSet(Devices) /\ Cardinality(Devices) \in Nat
  BY SizesAssumption, FS_CardinalityType
<1>2. IsFiniteSet(Rows) /\ Cardinality(Rows) = Cardinality(Devices)
  BY <1>1, FS_Interval DEF Rows
<1>3. RowsThere \subseteq Rows /\ held \subseteq Devices
  BY DEF RowsThere, RowsNameDevices
<1>4. IsFiniteSet(RowsThere) /\ IsFiniteSet(held)
  BY <1>1, <1>2, <1>3, FS_Subset
<1>5. Cardinality(held) = Cardinality(RowsThere)
  <2> DEFINE f == [r \in RowsThere |-> gpu[r].device]
  <2>1. f \in [RowsThere -> held] /\ \A d \in held : \E r \in RowsThere : f[r] = d
    OBVIOUS
  <2>2. \A r, q \in RowsThere : f[r] = f[q] => r = q
    BY DEF Inv, GpuRowsAreDistinct
  <2> HIDE DEF f, held
  <2>3. f \in Bijection(RowsThere, held)
    BY <2>1, <2>2, Fun_IsBij
  <2>4. ExistsBijection(RowsThere, held)
    BY <2>3 DEF ExistsBijection
  <2> QED
    BY <1>4, <2>4, FS_Bijection
<1>6. Cardinality(NewIndexes(s)) <= Cardinality(Devices \ held) /\ IsFiniteSet(NewIndexes(s))
  <2> DEFINE f == [i \in NewIndexes(s) |-> s.gpus[i]]
  <2>1. ASSUME NEW i \in NewIndexes(s)
        PROVE  s.gpus[i] \in Devices \ held
    <3>1. i \in Reported(s) /\ RowOfDevice(s, i) = {}
      BY DEF NewIndexes, RowTaken
    <3>2. s.gpus[i] \in Devices
      BY <3>1, ReportedDevice
    <3> QED
      BY <3>1, <3>2 DEF RowOfDevice
  <2>2. f \in [NewIndexes(s) -> Devices \ held]
    BY <2>1
  <2>3. \A i, j \in NewIndexes(s) : f[i] = f[j] => i = j
    BY DEF NewIndexes, Reported, GpusAreDistinct
  <2>4. IsFiniteSet(Devices \ held)
    BY <1>1, FS_Difference
  <2> HIDE DEF f, held
  <2>5. f \in Injection(NewIndexes(s), Devices \ held)
    BY <2>2, <2>3, Fun_IsInj
  <2> QED
    BY <2>4, <2>5, FS_Injection
<1> HIDE DEF held
<1>7. Cardinality(Devices \ held) = Cardinality(Rows \ RowsThere) /\ IsFiniteSet(Rows \ RowsThere)
  <2>1. Cardinality(Devices \ held) = Cardinality(Devices) - Cardinality(held)
    BY <1>1, <1>3, SizeOfRest
  <2>2. /\ IsFiniteSet(Rows \ RowsThere)
        /\ Cardinality(Rows \ RowsThere) = Cardinality(Rows) - Cardinality(RowsThere)
    BY <1>2, <1>3, SizeOfRest
  <2> QED
    BY <1>2, <1>5, <2>1, <2>2
<1>8. PICK f \in [NewIndexes(s) -> Rows \ RowsThere] :
        \A i, j \in NewIndexes(s) : f[i] = f[j] => i = j
  BY <1>6, <1>7, InjectionIntoLarger
<1> QED
  BY <1>8 DEF NewRows

\* The bound on rows restricts nothing: a report that is about to be stored finds
\* a free row for each GPU it brings that has none.
THEOREM RowsSuffice ==
  Spec => [](\A x \in Reports : NewRows(report[x].snapshot) # {})
<1>1. Inv /\ RowsNameDevices => \A x \in Reports : NewRows(report[x].snapshot) # {}
  BY InvParts, ReportRead, NewRowsExist
<1> QED
  BY <1>1, Invariance, RowsNameDevicesInit, RowsNameDevicesStep, PTL DEF Spec
=============================================================================
