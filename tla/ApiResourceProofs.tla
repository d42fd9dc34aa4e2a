------------------------- MODULE ApiResourceProofs -------------------------
(***************************************************************************)
(* Theorems about ApiResources, for every set of keys and models, any      *)
(* number of credentials and of overlapping requests, and any bounds.      *)
(***************************************************************************)
EXTENDS ApiResources, TLAPS

(***************************************************************************)
(* The inductive invariants.  What a request found when it read the tables *)
(* still constrains them at its commit: a credential is found only when    *)
(* its row is there, no two rows carry one fingerprint, and a model row    *)
(* keeps its source once it exists.                                        *)
(***************************************************************************)

\* Before the account exists nothing is there that could hold a key.
NothingWithoutAccount ==
  account = "absent" =>
    /\ \A c \in Creds : ~Present(c)
    /\ \A x \in Requests : req[x].kind \notin {"create", "rotate"}

\* A request that sets the account's status names one.
StatusRequestsName ==
  \A x \in Requests : req[x].kind = "status" => req[x].to \in AccountStatuses

\* The unique constraint: no two credentials carry one fingerprint.
FingerprintsDistinct ==
  \A c, d \in Creds :
    Present(c) /\ Present(d) /\ cred[c].fingerprint = cred[d].fingerprint => c = d

\* The row of a rotation has been inserted.
RotationsFindRows ==
  \A x \in Requests :
    req[x].kind = "rotate" => req[x].cred \in Creds /\ cred[req[x].cred].status # "absent"

FingerprintMatches == \A c \in Creds : Present(c) => ~MixedUp(c)

\* A rotation that re-enters a key finds it there still at its commit.
ReentriesAreCurrent ==
  \A x \in Requests :
    Reenters(x) /\ Present(req[x].cred) => cred[req[x].cred].fingerprint = req[x].key

\* No rotation of a credential is open beside one that re-enters its key.
ReentriesApart ==
  \A x, y \in Requests :
    Reenters(x) /\ req[y].kind = "rotate" /\ req[x].cred = req[y].cred => x = y

\* A row that does not exist is not available, one of an administrator is.
WellFormed(row) ==
  /\ row.source = "none" => row.available = FALSE
  /\ row.source = "manual" => row.available = TRUE

RowsWellFormed ==
  /\ \A m \in Models : WellFormed(models[m])
  /\ \A x \in Requests, m \in Models : WellFormed(req[x].rows[m])

\* A row that a request found is still of the same source.
FoundRowsRemain ==
  \A x \in Requests, m \in Models :
    req[x].rows[m].source # "none" => models[m].source = req[x].rows[m].source

\* No run is ever committed as under way.
RunsAreSettled == \A ty \in SyncTypes : run[ty] \in {"none", "completed", "failed"}

KeyInv == NothingWithoutAccount /\ FingerprintsDistinct
ReentryInv == RotationsFindRows /\ FingerprintMatches /\ ReentriesAreCurrent

ModelInv == RowsWellFormed /\ FoundRowsRemain

-----------------------------------------------------------------------------
(* The requests. *)

LEMMA StoredValue ==
  ASSUME NEW S, NEW now \in S, NEW seen, NEW new \in S
  PROVE  Stored(now, seen, new) \in S
  BY DEF Stored

LEMMA PlainType ==
  ASSUME TypeOK, NEW kind \in Kinds, NEW c \in Creds \cup {NoCred},
         NEW k \in Keys \cup {NoKey}, NEW to \in AccountStatuses \cup {"none"},
         NEW seen \in AccountStatuses \cup {"absent"}, NEW listed \in SUBSET Models,
         NEW rows \in [Models -> ModelRow]
  PROVE  Plain(kind, c, k, to, seen, listed, rows) \in Request
  <1>1. RowOf(c) \in CredRow
    BY DEF RowOf, TypeOK, ApiTablesTypeOK, NoCredRow, CredRow, CredStatuses
  <1>2. {} \in CapabilitySets
    BY CapabilitySetsAssumption
  <1>3. 0 \in 0 .. MaxDay
    BY MaxDayAssumption
  <1> QED
    BY <1>1, <1>2, <1>3 DEF Plain, Request, Answers

LEMMA CallingType ==
  ASSUME TypeOK, NEW kind \in Kinds, NEW c \in Creds \cup {NoCred},
         NEW seen \in AccountStatuses \cup {"absent"}, NEW caps \in CapabilitySets,
         NEW both \in BOOLEAN, NEW answer \in Answers
  PROVE  Calling(kind, c, seen, caps, both, answer) \in Request
  <1>1. RowOf(c) \in CredRow
    BY DEF RowOf, TypeOK, ApiTablesTypeOK, NoCredRow, CredRow, CredStatuses
  <1>2. NoRows \in [Models -> ModelRow]
    BY DEF NoRows, ModelRow, ModelSources
  <1>3. today \in 0 .. MaxDay
    BY DEF TypeOK
  <1> QED
    BY <1>1, <1>2, <1>3 DEF Calling, Request

LEMMA AnsweredType ==
  ASSUME NEW q \in Request, NEW answer \in Answers, NEW listed \in SUBSET Models,
         NEW rows \in [Models -> ModelRow], NEW records \in SUBSET RecordIds,
         NEW ids \in SUBSET RecordIds
  PROVE  Answered(q, answer, listed, rows, records, ids) \in Request
  BY DEF Answered, Request

LEMMA NoRequestType ==
  ASSUME TypeOK
  PROVE  NoRequest \in Request
  <1>1. NoRows \in [Models -> ModelRow]
    BY DEF NoRows, ModelRow, ModelSources
  <1> QED
    BY <1>1, PlainType DEF NoRequest, Kinds, AccountStatuses

\* The next part of a synchronisation is a request, or the session ends.
LEMMA GoesOnType ==
  ASSUME TypeOK, NEW x \in Requests, req[x].kind \in SyncTypes,
         NEW seen \in AccountStatuses \cup {"absent"}, GoesOn(x, seen)
  PROVE  req' \in [Requests -> Request]
  <1>1. req[x] \in Request /\ req \in [Requests -> Request]
    BY DEF TypeOK
  <1>2. CASE End(x)
    BY <1>1, <1>2, NoRequestType DEF End
  <1>3. CASE ~End(x)
    <2> DEFINE ty == Other(req[x].kind)
    <2>1. ty \in Kinds
      BY DEF Other, Kinds
    <2>2. req[x].caps \in CapabilitySets
      BY <1>1 DEF Request
    <2>3. Chosen \in Creds \cup {NoCred}
      BY DEF Chosen
    <2>4. Starting(ty, seen, req[x].caps, FALSE) \in Request
      BY <2>1, <2>2, <2>3, CallingType DEF Starting, Answers
    <2>5. req' = [req EXCEPT ![x] = Starting(ty, seen, req[x].caps, FALSE)]
      BY <1>3 DEF GoesOn
    <2> QED
      BY <1>1, <2>4, <2>5
  <1> QED
    BY <1>2, <1>3

-----------------------------------------------------------------------------
(* Types. *)

LEMMA InitType == Init => TypeOK
  <1> SUFFICES ASSUME Init PROVE TypeOK
    OBVIOUS
  <1> USE DEF Init, ApiTablesInit
  <1>1. provider \in ProviderRow
    <2>1. {} \in CapabilitySets /\ Capabilities \in CapabilitySets
      BY CapabilitySetsAssumption, Zenon
    <2>2. provider \in {[exists |-> FALSE, enabled |-> FALSE, capabilities |-> {}],
                       [exists |-> TRUE, enabled |-> TRUE, capabilities |-> Capabilities]}
      OBVIOUS
    <2>3. CASE provider = [exists |-> FALSE, enabled |-> FALSE, capabilities |-> {}]
      BY ONLY <2>1, <2>3 DEF ProviderRow
    <2>4. CASE provider = [exists |-> TRUE, enabled |-> TRUE, capabilities |-> Capabilities]
      BY ONLY <2>1, <2>4 DEF ProviderRow
    <2> QED
      BY <2>2, <2>3, <2>4
  <1>2. cred \in [Creds -> CredRow]
    BY DEF CredRow, CredStatuses, NoCredRow
  <1>3. ApiTablesTypeOK
    BY <1>1, <1>2 DEF ApiTablesTypeOK, AccountStatuses, ModelRow, ModelSources, SyncTypes,
       RunStatuses
  <1>4. NoRequest \in Request
    <2>1. NoRows \in [Models -> ModelRow]
      BY DEF NoRows, ModelRow, ModelSources
    <2> QED
      BY <2>1, MaxDayAssumption, CapabilitySetsAssumption
         DEF NoRequest, Plain, RowOf, Request, Kinds, AccountStatuses, Answers, NoCredRow,
             CredRow, CredStatuses
  <1> QED
    BY <1>3, <1>4, MaxDayAssumption, MaxRequestsAssumption DEF TypeOK

LEMMA BeginType ==
  ASSUME TypeOK, NEW x \in Requests, NEW q \in Request, Begin(x, q)
  PROVE  req' \in [Requests -> Request]
  BY DEF TypeOK, Begin

LEMMA EndType ==
  ASSUME TypeOK, NEW x \in Requests, End(x)
  PROVE  req' \in [Requests -> Request]
  BY NoRequestType DEF TypeOK, End

LEMMA AskedType ==
  ASSUME TypeOK, Asked
  PROVE  asked' \in 0 .. MaxRequests
  BY MaxRequestsAssumption DEF TypeOK, Asked

\* The requests that are done at once.
LEMMA AskAtOnceType ==
  ASSUME TypeOK, AskAtOnce
  PROVE  TypeOK'
  <1> USE DEF TypeOK, ApiTablesTypeOK
  <1>1. asked' \in 0 .. MaxRequests
    BY AskedType DEF AskAtOnce
  <1>2. ASSUME NEW enabled \in BOOLEAN, NEW caps \in CapabilitySets,
               CreateProvider(caps) \/ UpdateProvider(enabled, caps)
        PROVE  TypeOK'
    <2>1. \E e \in BOOLEAN : provider' = [exists |-> TRUE, enabled |-> e, capabilities |-> caps]
      BY <1>2 DEF CreateProvider, UpdateProvider
    <2>2. provider' \in ProviderRow
      BY ONLY <2>1, caps \in CapabilitySets DEF ProviderRow
    <2>3. UNCHANGED <<account, cred, models, usage, history, run, req, today>>
      BY <1>2 DEF CreateProvider, UpdateProvider
    <2> QED
      BY <1>1, <2>2, <2>3
  <1>3. ASSUME NEW k \in Keys \cup {NoKey}, CreateAccount(k)
        PROVE  TypeOK'
    <2>1. NewCredRow(k) \in CredRow
      BY DEF NewCredRow, CredRow, CredStatuses
    <2>2. cred' \in [Creds -> CredRow]
      BY <1>3, <2>1 DEF CreateAccount
    <2>3. account' \in AccountStatuses
      BY <1>3 DEF CreateAccount, AccountStatuses
    <2> QED
      BY <1>1, <1>3, <2>2, <2>3 DEF CreateAccount
  <1>4. CASE usage_manual
    <2>1. history' \subseteq Creds \cup {NoCred}
      BY <1>4 DEF usage_manual, ManualUsage
    <2> QED
      BY <1>1, <1>4, <2>1 DEF usage_manual, ManualUsage
  <1>5. \/ \E enabled \in BOOLEAN, caps \in CapabilitySets :
            CreateProvider(caps) \/ UpdateProvider(enabled, caps)
        \/ \E k \in Keys \cup {NoKey} : CreateAccount(k)
        \/ usage_manual
    BY DEF AskAtOnce, provider_create, provider_patch, account_create
  <1> QED
    BY <1>2, <1>3, <1>4, <1>5

\* What a request begins with.
LEMMA AskCases ==
  ASSUME NEW x \in Requests, Ask(x)
  PROVE  \/ \E to \in AccountStatuses : StatusLoad(x, to)
         \/ \E k \in Keys : CreateCredentialLoad(x, k)
         \/ \E c \in Creds : \/ \E k \in Keys : RotateLoad(x, c, k)
                             \/ \E kind \in {"disable", "delete"} : CredentialLoad(x, c, kind)
                             \/ ValidateLoad(x, c)
         \/ \E m \in Models : ManualModelLoad(x, m)
         \/ \E ty \in SyncTypes, both \in BOOLEAN : SyncLoad(x, ty, both)
  BY DEF Ask, account_patch, _set_archive, credential_create, credential_rotate,
     credential_validate, credential_disable, credential_delete, model_manual, model_sync,
     usage_sync, account_sync, AccountStatuses, SyncTypes

\* The requests that begin.
LEMMA AskType ==
  ASSUME TypeOK, NEW x \in Requests, Ask(x)
  PROVE  TypeOK'
  <1>1. asked' \in 0 .. MaxRequests
    BY AskedType DEF Ask
  <1>2. NoRows \in [Models -> ModelRow]
    BY DEF NoRows, ModelRow, ModelSources
  <1>3. /\ account \in AccountStatuses \cup {"absent"}
        /\ models \in [Models -> ModelRow]
        /\ provider.capabilities \in CapabilitySets
    BY DEF TypeOK, ApiTablesTypeOK, ProviderRow
  <1>4. ASSUME NEW to \in AccountStatuses, StatusLoad(x, to)
        PROVE  req' \in [Requests -> Request] /\ UNCHANGED <<apiTables, today>>
    <2>1. Plain("status", NoCred, NoKey, to, account, {}, NoRows) \in Request
      BY <1>2, <1>3, PlainType DEF Kinds
    <2> QED
      BY <1>4, <2>1, BeginType DEF StatusLoad
  <1>5. ASSUME NEW k \in Keys, CreateCredentialLoad(x, k)
        PROVE  req' \in [Requests -> Request] /\ UNCHANGED <<apiTables, today>>
    <2>1. Plain("create", NoCred, k, "none", "absent", {}, NoRows) \in Request
      BY <1>2, PlainType DEF Kinds
    <2> QED
      BY <1>5, <2>1, BeginType DEF CreateCredentialLoad
  <1>6. ASSUME NEW c \in Creds, NEW k \in Keys, RotateLoad(x, c, k)
        PROVE  req' \in [Requests -> Request] /\ UNCHANGED <<apiTables, today>>
    <2>1. Plain("rotate", c, k, "none", "absent", {}, NoRows) \in Request
      BY <1>2, PlainType DEF Kinds
    <2> QED
      BY <1>6, <2>1, BeginType DEF RotateLoad
  <1>7. ASSUME NEW c \in Creds, NEW kind \in {"disable", "delete"}, CredentialLoad(x, c, kind)
        PROVE  req' \in [Requests -> Request] /\ UNCHANGED <<apiTables, today>>
    <2>1. Plain(kind, c, NoKey, "none", "absent", {}, NoRows) \in Request
      BY <1>2, PlainType DEF Kinds
    <2> QED
      BY <1>7, <2>1, BeginType DEF CredentialLoad
  <1>8. ASSUME NEW c \in Creds, ValidateLoad(x, c)
        PROVE  req' \in [Requests -> Request] /\ UNCHANGED <<apiTables, today>>
    <2>1. Calling("validate", c, account, provider.capabilities, FALSE, "awaited") \in Request
      BY <1>3, CallingType DEF Kinds, Answers
    <2> QED
      BY <1>8, <2>1, BeginType DEF ValidateLoad
  <1>9. ASSUME NEW m \in Models, ManualModelLoad(x, m)
        PROVE  req' \in [Requests -> Request] /\ UNCHANGED <<apiTables, today>>
    <2>1. Plain("manual", NoCred, NoKey, "none", "absent", {m}, models) \in Request
      BY <1>3, PlainType DEF Kinds
    <2> QED
      BY <1>9, <2>1, BeginType DEF ManualModelLoad
  <1>10. ASSUME NEW ty \in SyncTypes, NEW both \in BOOLEAN, SyncLoad(x, ty, both)
         PROVE  req' \in [Requests -> Request] /\ UNCHANGED <<apiTables, today>>
    <2>1. Chosen \in Creds \cup {NoCred}
      BY DEF Chosen
    <2>2. Starting(ty, account, provider.capabilities, both) \in Request
      BY <1>3, <2>1, CallingType DEF Starting, Answers, SyncTypes, Kinds
    <2> QED
      BY <1>10, <2>2, BeginType DEF SyncLoad
  <1>11. req' \in [Requests -> Request] /\ UNCHANGED <<apiTables, today>>
    BY <1>4, <1>5, <1>6, <1>7, <1>8, <1>9, <1>10, AskCases
  <1> QED
    BY <1>1, <1>11 DEF TypeOK, ApiTablesTypeOK, apiTables

\* The provider's answer, or its failure.
LEMMA ProviderAnswersType ==
  ASSUME TypeOK, NEW x \in Requests, ProviderAnswers(x), UNCHANGED asked
  PROVE  TypeOK'
  <1>1. /\ NoRows \in [Models -> ModelRow] /\ models \in [Models -> ModelRow]
        /\ {} \in SUBSET Models /\ {} \in SUBSET RecordIds
        /\ req[x] \in Request /\ req \in [Requests -> Request]
    BY DEF NoRows, ModelRow, ModelSources, TypeOK, ApiTablesTypeOK
  <1>2. ASSUME ProviderFails(x)
        PROVE  req' \in [Requests -> Request] /\ UNCHANGED <<apiTables, today>>
    <2>1. Answered(req[x], "failed", {}, NoRows, {}, {}) \in Request
      BY <1>1, AnsweredType DEF Answers
    <2> QED
      BY <1>1, <1>2, <2>1 DEF ProviderFails
  <1>3. ASSUME NEW answer \in {"valid", "invalid"}, ValidateAnswered(x, answer)
        PROVE  req' \in [Requests -> Request] /\ UNCHANGED <<apiTables, today>>
    <2>1. Answered(req[x], answer, {}, NoRows, {}, {}) \in Request
      BY <1>1, AnsweredType DEF Answers
    <2> QED
      BY <1>1, <1>3, <2>1 DEF ValidateAnswered
  <1>4. ASSUME NEW listed \in SUBSET Models, ModelsAnswered(x, listed)
        PROVE  req' \in [Requests -> Request] /\ UNCHANGED <<apiTables, today>>
    <2>1. Answered(req[x], "listed", listed, models, {}, {}) \in Request
      BY <1>1, AnsweredType DEF Answers
    <2> QED
      BY <1>1, <1>4, <2>1 DEF ModelsAnswered
  <1>5. ASSUME NEW records \in SUBSET Week(req[x].day), UsageAnswered(x, records)
        PROVE  req' \in [Requests -> Request] /\ UNCHANGED <<apiTables, today>>
    <2>1. records \in SUBSET RecordIds
      BY <1>5 DEF Week
    <2>2. {r \in RecordIds : usage[r] > 0} \in SUBSET RecordIds
      OBVIOUS
    <2>3. Answered(req[x], "listed", {}, NoRows, records, {r \in RecordIds : usage[r] > 0})
            \in Request
      BY <1>1, <2>1, <2>2, AnsweredType DEF Answers
    <2> QED
      BY <1>1, <1>5, <2>3 DEF UsageAnswered
  <1>6. req' \in [Requests -> Request] /\ UNCHANGED <<apiTables, today>>
    BY <1>2, <1>3, <1>4, <1>5 DEF ProviderAnswers
  <1> QED
    BY <1>6 DEF TypeOK, ApiTablesTypeOK, apiTables

\* Commits of requests about the account and its credentials.
LEMMA CredentialCommitType ==
  ASSUME TypeOK, StatusRequestsName, NEW x \in Requests,
         UNCHANGED <<asked, today, provider, models, usage, run>>,
         \/ StatusCommit(x)
         \/ \E c \in Creds : CreateCredentialCommit(x, c)
         \/ RotateCommit(x) \/ DisableCommit(x) \/ DeleteCommit(x) \/ ValidateCommit(x)
  PROVE  TypeOK'
  <1>1. /\ req[x] \in Request /\ account \in AccountStatuses \cup {"absent"}
        /\ cred \in [Creds -> CredRow] /\ history \subseteq Creds \cup {NoCred}
    BY DEF TypeOK, ApiTablesTypeOK
  <1>2. /\ req[x].key \in Keys \cup {NoKey} /\ req[x].cred \in Creds \cup {NoCred}
        /\ req[x].kind = "status" => req[x].to \in AccountStatuses
    BY <1>1 DEF Request, StatusRequestsName
  <1>3. req' \in [Requests -> Request]
    BY EndType DEF StatusCommit, CreateCredentialCommit, RotateCommit, DisableCommit,
       DeleteCommit, ValidateCommit
  <1>4. CASE StatusCommit(x)
    <2>1. account' \in AccountStatuses \cup {"absent"}
      BY <1>1, <1>2, <1>4 DEF StatusCommit, Stored
    <2> QED
      BY <1>3, <1>4, <2>1 DEF StatusCommit, TypeOK, ApiTablesTypeOK
  <1>5. ASSUME NEW c \in Creds, CreateCredentialCommit(x, c)
        PROVE  TypeOK'
    <2>1. NewCredRow(req[x].key) \in CredRow
      BY <1>2 DEF NewCredRow, CredRow, CredStatuses
    <2>2. cred' \in [Creds -> CredRow]
      BY <1>1, <1>5, <2>1 DEF CreateCredentialCommit
    <2> QED
      BY <1>3, <1>5, <2>2 DEF CreateCredentialCommit, TypeOK, ApiTablesTypeOK
  <1>6. CASE RotateCommit(x)
    <2>1. ASSUME req[x].cred \in Creds PROVE Rotated(req[x], cred[req[x].cred]) \in CredRow
      BY <1>1, <1>2, <2>1 DEF Rotated, CredRow, CredStatuses, Stored
    <2>2. cred' \in [Creds -> CredRow]
      BY <1>1, <1>2, <1>6, <2>1 DEF RotateCommit
    <2> QED
      BY <1>3, <1>6, <2>2 DEF RotateCommit, TypeOK, ApiTablesTypeOK
  <1>7. ASSUME NEW c \in Creds, NEW seen, NEW status \in CredStatuses
        PROVE  CredStatus(c, Stored(cred[c].status, seen, status)) \in CredRow
    BY <1>1 DEF CredStatus, Stored, CredRow, CredStatuses
  <1>8. CASE DisableCommit(x)
    <2>1. cred' \in [Creds -> CredRow]
      <3>1. CASE req[x].cred \in Creds
        <4>1. CredStatus(req[x].cred,
                         Stored(cred[req[x].cred].status, req[x].row.status, "disabled")) \in CredRow
          BY <1>7, <3>1 DEF CredStatuses
        <4> QED
          BY <1>1, <1>8, <4>1 DEF DisableCommit
      <3>2. CASE req[x].cred \notin Creds
        BY <1>1, <1>8, <3>2 DEF DisableCommit
      <3> QED
        BY <3>1, <3>2
    <2> QED
      BY <1>3, <1>8, <2>1 DEF DisableCommit, TypeOK, ApiTablesTypeOK
  <1>9. CASE DeleteCommit(x)
    <2>1. cred' \in [Creds -> CredRow]
      BY <1>1, <1>9 DEF DeleteCommit, GoneCredRow, CredRow
    <2>2. history' \subseteq Creds \cup {NoCred}
      BY <1>1, <1>9 DEF DeleteCommit, Unlinked
    <2> QED
      BY <1>3, <1>9, <2>1, <2>2 DEF DeleteCommit, TypeOK, ApiTablesTypeOK
  <1>10. CASE ValidateCommit(x)
    <2>1. CASE Present(req[x].cred)
      <3>1. account' \in AccountStatuses \cup {"absent"}
        BY <1>1, <1>10, <2>1 DEF ValidateCommit, Stored, AccountStatuses
      <3>2. history' \subseteq Creds \cup {NoCred}
        BY <1>1, <1>2, <1>10, <2>1 DEF ValidateCommit
      <3>3. cred' \in [Creds -> CredRow]
        <4>1. CASE req[x].cred \in Creds
          <5>1. \A status \in CredStatuses :
                  CredStatus(req[x].cred,
                    Stored(cred[req[x].cred].status, req[x].row.status, status)) \in CredRow
            BY <1>7, <4>1
          <5>2. (IF req[x].answer = "valid" THEN "active" ELSE "invalid") \in CredStatuses
            BY DEF CredStatuses
          <5>3. CredStatus(req[x].cred,
                    Stored(cred[req[x].cred].status, req[x].row.status,
                           IF req[x].answer = "valid" THEN "active" ELSE "invalid")) \in CredRow
            BY <5>1, <5>2
          <5> QED
            BY <1>1, <1>10, <2>1, <5>3 DEF ValidateCommit
        <4>2. CASE req[x].cred \notin Creds
          BY <1>1, <1>10, <2>1, <4>2 DEF ValidateCommit
        <4> QED
          BY <4>1, <4>2
      <3> QED
        BY <1>3, <1>10, <3>1, <3>2, <3>3 DEF ValidateCommit, TypeOK, ApiTablesTypeOK
    <2>2. CASE ~Present(req[x].cred)
      BY <1>3, <1>10, <2>2 DEF ValidateCommit, TypeOK, ApiTablesTypeOK
    <2> QED
      BY <2>1, <2>2
  <1> QED
    BY <1>4, <1>5, <1>6, <1>8, <1>9, <1>10

\* Commits of synchronisations and of models entered by hand.
LEMMA SyncCommitType ==
  ASSUME TypeOK, NEW x \in Requests, UNCHANGED <<asked, today, provider, cred>>,
         \/ \E m \in Models : ManualModelCommit(x, m)
         \/ ModelsCommit(x) \/ ModelsRefused(x) \/ UsageCommit(x) \/ UsageRefused(x)
         \/ SyncFails(x)
  PROVE  TypeOK'
  <1>1. /\ req[x] \in Request /\ account \in AccountStatuses \cup {"absent"}
        /\ models \in [Models -> ModelRow] /\ history \subseteq Creds \cup {NoCred}
        /\ run \in [SyncTypes -> RunStatuses] /\ usage \in [RecordIds -> Nat]
    BY DEF TypeOK, ApiTablesTypeOK
  <1>2. /\ req[x].seen \in AccountStatuses \cup {"absent"}
        /\ req[x].cred \in Creds \cup {NoCred}
        /\ req[x].rows \in [Models -> ModelRow]
    BY <1>1 DEF Request
  <1>3. ASSUME NEW m \in Models, ManualModelCommit(x, m)
        PROVE  TypeOK'
    <2>1. Entered(req[x], m) \in ModelRow
      BY <1>1, <1>2 DEF Entered, Stored, ModelRow, ModelSources
    <2>2. models' \in [Models -> ModelRow]
      BY <1>1, <1>3, <2>1 DEF ManualModelCommit
    <2> QED
      BY <1>3, <2>2, EndType DEF ManualModelCommit, TypeOK, ApiTablesTypeOK
  <1>4. CASE ModelsCommit(x)
    <2>1. ASSUME NEW m \in Models PROVE Merged(req[x], m) \in ModelRow
      <3>1. models[m].source \in ModelSources /\ models[m].available \in BOOLEAN
        BY <1>1 DEF ModelRow
      <3>2. Available(req[x], m) \in BOOLEAN
        <4>1. req[x].rows[m].available \in BOOLEAN
          BY <1>2 DEF ModelRow
        <4>2. CASE req[x].rows[m].source = "provider"
          <5>1. Available(req[x], m) = (m \in req[x].listed)
            BY <4>2, Zenon DEF Available
          <5>2. (m \in req[x].listed) \in BOOLEAN
            OBVIOUS
          <5> QED
            BY <5>1, <5>2, Zenon
        <4>3. CASE req[x].rows[m].source # "provider"
          <5>1. Available(req[x], m) = (m \in req[x].listed \/ req[x].rows[m].available)
            BY <4>3, Zenon DEF Available
          <5>2. (m \in req[x].listed \/ req[x].rows[m].available) \in BOOLEAN
            OBVIOUS
          <5> QED
            BY <5>1, <5>2, Zenon
        <4> QED
          BY <4>2, <4>3
      <3>3. Stored(models[m].available, req[x].rows[m].available, Available(req[x], m))
              \in BOOLEAN
        BY <3>1, <3>2, StoredValue, Zenon
      <3> QED
        BY <3>1, <3>3 DEF Merged, ModelRow, ModelSources
    <2>2. models' \in [Models -> ModelRow]
      BY <1>4, <2>1 DEF ModelsCommit
    <2>3. run' \in [SyncTypes -> RunStatuses]
      BY <1>1, <1>4 DEF ModelsCommit, RunStatuses
    <2>4. history' \subseteq Creds \cup {NoCred}
      BY <1>1, <1>2, <1>4 DEF ModelsCommit
    <2>5. req' \in [Requests -> Request]
      BY <1>2, <1>4, GoesOnType DEF ModelsCommit, SyncTypes
    <2> QED
      BY <1>4, <2>2, <2>3, <2>4, <2>5 DEF ModelsCommit, TypeOK, ApiTablesTypeOK
  <1>5. CASE UsageCommit(x)
    <2>1. usage' \in [RecordIds -> Nat]
      BY <1>1, <1>5 DEF UsageCommit
    <2>2. run' \in [SyncTypes -> RunStatuses]
      BY <1>1, <1>5 DEF UsageCommit, RunStatuses
    <2>3. req' \in [Requests -> Request]
      BY <1>2, <1>5, GoesOnType DEF UsageCommit, SyncTypes
    <2> QED
      BY <1>5, <2>1, <2>2, <2>3 DEF UsageCommit, TypeOK, ApiTablesTypeOK
  <1>6. CASE SyncFails(x)
    <2>1. account' \in AccountStatuses \cup {"absent"}
      BY <1>1, <1>6 DEF SyncFails, Stored, AccountStatuses
    <2>2. run' \in [SyncTypes -> RunStatuses]
      BY <1>1, <1>6 DEF SyncFails, RunStatuses
    <2>3. GoesOn(x, "degraded") /\ req[x].kind \in SyncTypes
      BY <1>6 DEF SyncFails
    <2>4. "degraded" \in AccountStatuses \cup {"absent"}
      BY DEF AccountStatuses
    <2>5. req' \in [Requests -> Request]
      BY <2>3, <2>4, GoesOnType
    <2> QED
      BY <1>6, <2>1, <2>2, <2>5 DEF SyncFails, TypeOK, ApiTablesTypeOK
  <1>7. CASE ModelsRefused(x) \/ UsageRefused(x)
    <2>1. req' \in [Requests -> Request]
      BY <1>7, EndType DEF ModelsRefused, UsageRefused
    <2> QED
      BY <1>7, <2>1 DEF ModelsRefused, UsageRefused, TypeOK, ApiTablesTypeOK, apiTables
  <1> QED
    BY <1>3, <1>4, <1>5, <1>6, <1>7

\* What is known of a request that a step has just written.
Fresh(q) ==
  /\ q.kind = "status" => q.to \in AccountStatuses
  /\ q.kind = "create" => account # "absent"
  /\ q.kind = "rotate" => Present(q.cred) /\ q.cred \in Creds /\ q.row = cred[q.cred] /\ cred' = cred
  /\ q.rows = NoRows \/ (q.rows = models /\ models' = models)

\* Requests change at their own steps only, and every request written is fresh.
LEMMA RequestStep ==
  ASSUME TypeOK, [Next]_vars, NEW y \in Requests, req'[y] # req[y]
  PROVE  Fresh(req'[y])
  <1>1. req \in [Requests -> Request]
    BY DEF TypeOK
  <1>2. ASSUME NEW q, NEW x \in Requests, req' = [req EXCEPT ![x] = q]
        PROVE  req'[y] = q
    BY <1>1, <1>2
  <1>3. ASSUME NEW x \in Requests, Ask(x)
        PROVE  Fresh(req'[y])
    <2>1. ASSUME NEW to \in AccountStatuses, StatusLoad(x, to)
          PROVE  Fresh(req'[y])
      BY <1>2, <2>1 DEF StatusLoad, Begin, Plain, Fresh
    <2>2. ASSUME NEW k \in Keys, CreateCredentialLoad(x, k)
          PROVE  Fresh(req'[y])
      BY <1>2, <2>2 DEF CreateCredentialLoad, Begin, Plain, Fresh
    <2>3. ASSUME NEW c \in Creds, NEW k \in Keys, RotateLoad(x, c, k)
          PROVE  Fresh(req'[y])
      <3>1. RowOf(c) = cred[c]
        BY DEF RowOf, Creds, NoCred
      <3> QED
        BY <1>2, <2>3, <3>1 DEF RotateLoad, Begin, Plain, Fresh, apiTables
    <2>4. ASSUME NEW c \in Creds, NEW kind \in {"disable", "delete"}, CredentialLoad(x, c, kind)
          PROVE  Fresh(req'[y])
      BY <1>2, <2>4 DEF CredentialLoad, Begin, Plain, Fresh
    <2>5. ASSUME NEW c \in Creds, ValidateLoad(x, c)
          PROVE  Fresh(req'[y])
      BY <1>2, <2>5 DEF ValidateLoad, Begin, Calling, Fresh
    <2>6. ASSUME NEW m \in Models, ManualModelLoad(x, m)
          PROVE  Fresh(req'[y])
      BY <1>2, <2>6 DEF ManualModelLoad, Begin, Plain, Fresh, apiTables
    <2>7. ASSUME NEW ty \in SyncTypes, NEW both \in BOOLEAN, SyncLoad(x, ty, both)
          PROVE  Fresh(req'[y])
      BY <1>2, <2>7 DEF SyncLoad, Begin, Starting, Calling, Fresh, SyncTypes
    <2> QED
      BY <1>3, <2>1, <2>2, <2>3, <2>4, <2>5, <2>6, <2>7, AskCases
  <1>4. ASSUME NEW x \in Requests, ProviderAnswers(x)
        PROVE  Fresh(req'[y])
    <2>1. CASE ProviderFails(x)
      BY <1>2, <2>1 DEF ProviderFails, Answered, Fresh, SyncTypes
    <2>2. ASSUME NEW answer, ValidateAnswered(x, answer)
          PROVE  Fresh(req'[y])
      BY <1>2, <2>2 DEF ValidateAnswered, Answered, Fresh
    <2>3. ASSUME NEW listed, ModelsAnswered(x, listed)
          PROVE  Fresh(req'[y])
      BY <1>2, <2>3 DEF ModelsAnswered, Answered, Fresh, apiTables
    <2>4. ASSUME NEW records, UsageAnswered(x, records)
          PROVE  Fresh(req'[y])
      BY <1>2, <2>4 DEF UsageAnswered, Answered, Fresh
    <2> QED
      BY <1>4, <2>1, <2>2, <2>3, <2>4 DEF ProviderAnswers
  <1>5. ASSUME NEW x \in Requests, Commit(x) \/ RequestEnds(x)
        PROVE  Fresh(req'[y])
    <2>1. End(x) \/ \E seen : GoesOn(x, seen)
      BY <1>5 DEF Commit, RequestEnds, StatusCommit, CreateCredentialCommit, RotateCommit,
         DisableCommit, DeleteCommit, ValidateCommit, ManualModelCommit, ModelsCommit,
         ModelsRefused, UsageCommit, UsageRefused, SyncFails
    <2>2. CASE End(x)
      BY <1>2, <2>2 DEF End, NoRequest, Plain, Fresh
    <2>3. ASSUME NEW seen, GoesOn(x, seen), ~End(x)
          PROVE  Fresh(req'[y])
      BY <1>2, <2>3 DEF GoesOn, Starting, Calling, Other, Fresh
    <2> QED
      BY <2>1, <2>2, <2>3
  <1>6. \/ UNCHANGED req
        \/ \E x \in Requests : Ask(x) \/ ProviderAnswers(x) \/ Commit(x) \/ RequestEnds(x)
    BY DEF Next, AskAtOnce, provider_create, provider_patch, account_create, usage_manual,
       CreateProvider, UpdateProvider, CreateAccount, ManualUsage, Proceed, DayPasses, vars,
       catalogVars
  <1> QED
    BY <1>3, <1>4, <1>5, <1>6

LEMMA StatusNameStep ==
  ASSUME TypeOK, StatusRequestsName, [Next]_vars
  PROVE  StatusRequestsName'
  BY RequestStep DEF StatusRequestsName, Fresh

LEMMA TypeStep ==
  ASSUME TypeOK, StatusRequestsName, [Next]_vars
  PROVE  TypeOK'
  <1>1. CASE AskAtOnce
    BY <1>1, AskAtOnceType
  <1>2. ASSUME NEW x \in Requests, Ask(x)
        PROVE  TypeOK'
    BY <1>2, AskType
  <1>3. ASSUME NEW x \in Requests, ProviderAnswers(x), UNCHANGED asked
        PROVE  TypeOK'
    BY <1>3, ProviderAnswersType
  <1>4. ASSUME NEW x \in Requests, Commit(x), UNCHANGED asked
        PROVE  TypeOK'
    <2>1. CASE \/ StatusCommit(x)
               \/ \E c \in Creds : CreateCredentialCommit(x, c)
               \/ RotateCommit(x) \/ DisableCommit(x) \/ DeleteCommit(x) \/ ValidateCommit(x)
      <3>1. UNCHANGED <<asked, today, provider, models, usage, run>>
        BY <1>4, <2>1 DEF StatusCommit, CreateCredentialCommit, RotateCommit, DisableCommit,
           DeleteCommit, ValidateCommit
      <3> QED
        BY <2>1, <3>1, CredentialCommitType
    <2>2. CASE \/ \E m \in Models : ManualModelCommit(x, m)
               \/ ModelsCommit(x) \/ ModelsRefused(x) \/ UsageCommit(x) \/ UsageRefused(x)
               \/ SyncFails(x)
      <3>1. UNCHANGED <<asked, today, provider, cred>>
        BY <1>4, <2>2 DEF ManualModelCommit, ModelsCommit, ModelsRefused, UsageCommit,
           UsageRefused, SyncFails, apiTables
      <3> QED
        BY <2>2, <3>1, SyncCommitType
    <2> QED
      BY <1>4, <2>1, <2>2 DEF Commit
  <1>5. ASSUME NEW x \in Requests, RequestEnds(x), UNCHANGED asked
        PROVE  TypeOK'
    BY <1>5, EndType DEF RequestEnds, TypeOK, ApiTablesTypeOK, apiTables
  <1>6. CASE DayPasses
    BY <1>6, MaxDayAssumption DEF DayPasses, TypeOK, ApiTablesTypeOK, apiTables
  <1>7. CASE UNCHANGED vars
    BY <1>7 DEF vars, catalogVars, apiTables, TypeOK, ApiTablesTypeOK
  <1> QED
    BY <1>1, <1>2, <1>3, <1>4, <1>5, <1>6, <1>7 DEF Next, Proceed

\* Every row, request and run that can be reached has the type it is declared
\* with, whatever overlaps.
THEOREM TypesHold == Spec => []TypeOK
  <1>1. Init => StatusRequestsName
    BY DEF Init, StatusRequestsName, NoRequest, Plain
  <1> QED
    BY <1>1, InitType, TypeStep, StatusNameStep, PTL DEF Spec

-----------------------------------------------------------------------------
(* Keys. *)

\* Which steps write credentials, and what they leave in the row they write.
CredWritten(c, row) == cred' = [cred EXCEPT ![c] = row]

LEMMA CredStep ==
  ASSUME TypeOK, [Next]_vars
  PROVE  \/ UNCHANGED cred
         \/ \E k \in Keys : /\ account = "absent" /\ account' # "absent" /\ 1 \in Creds
                            /\ CredWritten(1, NewCredRow(k))
         \/ \E x \in Requests, c \in Creds :
              /\ req[x].kind = "create" /\ cred[c].status = "absent"
              /\ FingerprintIsFree(c, req[x].key)
              /\ CredWritten(c, NewCredRow(req[x].key))
         \/ \E x \in Requests, c \in Creds :
              /\ RotateCommit(x) /\ Present(c) /\ c = req[x].cred
              /\ FingerprintIsFree(c, Rotated(req[x], cred[c]).fingerprint)
              /\ CredWritten(c, Rotated(req[x], cred[c]))
         \/ \E c \in Creds, status \in CredStatuses :
              Present(c) /\ CredWritten(c, CredStatus(c, status))
         \/ \E c \in Creds : CredWritten(c, GoneCredRow)
  <1>1. cred \in [Creds -> CredRow] /\ \A x \in Requests : req[x].cred \in Creds \cup {NoCred}
    BY DEF TypeOK, ApiTablesTypeOK, Request
  <1>2. ASSUME NEW k \in Keys \cup {NoKey}, CreateAccount(k)
        PROVE  \/ UNCHANGED cred
               \/ /\ k \in Keys /\ account = "absent" /\ account' # "absent" /\ 1 \in Creds
                  /\ CredWritten(1, NewCredRow(k))
    BY <1>2, MaxCredentialsAssumption DEF CreateAccount, CredWritten, Creds
  <1>3. ASSUME NEW x \in Requests, NEW c \in Creds, CreateCredentialCommit(x, c)
        PROVE  \/ UNCHANGED cred
               \/ /\ req[x].kind = "create" /\ cred[c].status = "absent"
                  /\ FingerprintIsFree(c, req[x].key)
                  /\ CredWritten(c, NewCredRow(req[x].key))
    BY <1>3 DEF CreateCredentialCommit, IsNextCred, CredWritten
  <1>4. ASSUME NEW x \in Requests, NEW c, c = req[x].cred, RotateCommit(x)
        PROVE  \/ UNCHANGED cred
               \/ /\ Present(c) /\ c \in Creds
                  /\ FingerprintIsFree(c, Rotated(req[x], cred[c]).fingerprint)
                  /\ CredWritten(c, Rotated(req[x], cred[c]))
    BY <1>1, <1>4 DEF RotateCommit, CredWritten
  <1>5. ASSUME NEW x \in Requests, DisableCommit(x) \/ ValidateCommit(x)
        PROVE  \/ UNCHANGED cred
               \/ \E c \in Creds, status \in CredStatuses :
                    Present(c) /\ CredWritten(c, CredStatus(c, status))
    <2>1. CASE DisableCommit(x)
      BY <1>1, <2>1 DEF DisableCommit, CredWritten, Stored, Present, CredStatuses
    <2>2. CASE ValidateCommit(x)
      BY <1>1, <2>2 DEF ValidateCommit, CredWritten, Stored, Present, CredStatuses
    <2> QED
      BY <1>5, <2>1, <2>2
  <1>6. ASSUME NEW x \in Requests, DeleteCommit(x)
        PROVE  UNCHANGED cred \/ \E c \in Creds : CredWritten(c, GoneCredRow)
    BY <1>1, <1>6 DEF DeleteCommit, CredWritten
  <1>7. \/ UNCHANGED cred
        \/ \E k \in Keys \cup {NoKey} : CreateAccount(k)
        \/ \E x \in Requests :
             \/ \E c \in Creds : CreateCredentialCommit(x, c)
             \/ RotateCommit(x) \/ DisableCommit(x) \/ ValidateCommit(x) \/ DeleteCommit(x)
    <2>1. ASSUME NEW x \in Requests, Ask(x) PROVE UNCHANGED cred
      BY <2>1, AskCases DEF StatusLoad, CreateCredentialLoad, RotateLoad, CredentialLoad,
         ValidateLoad, ManualModelLoad, SyncLoad, apiTables
    <2>2. ASSUME NEW x \in Requests, ProviderAnswers(x) PROVE UNCHANGED cred
      BY <2>2 DEF ProviderAnswers, ValidateAnswered, ModelsAnswered, UsageAnswered,
         ProviderFails, apiTables
    <2>3. ASSUME NEW x \in Requests,
                 \/ \E m \in Models : ManualModelCommit(x, m)
                 \/ StatusCommit(x) \/ ModelsCommit(x) \/ ModelsRefused(x) \/ UsageCommit(x)
                 \/ UsageRefused(x) \/ SyncFails(x) \/ RequestEnds(x)
          PROVE  UNCHANGED cred
      BY <2>3 DEF ManualModelCommit, StatusCommit, ModelsCommit, ModelsRefused, UsageCommit,
         UsageRefused, SyncFails, RequestEnds, apiTables
    <2>4. CASE AskAtOnce
      BY <2>4 DEF AskAtOnce, provider_create, provider_patch, account_create, usage_manual,
         CreateProvider, UpdateProvider, ManualUsage
    <2>5. CASE DayPasses \/ UNCHANGED vars
      BY <2>5 DEF DayPasses, vars, catalogVars, apiTables
    <2> QED
      BY <2>1, <2>2, <2>3, <2>4, <2>5 DEF Next, Proceed, Commit
  <1>8. CASE UNCHANGED cred
    BY <1>8
  <1>9. CASE \E k \in Keys \cup {NoKey} : CreateAccount(k)
    BY <1>2, <1>9
  <1>10. CASE \E x \in Requests, c \in Creds : CreateCredentialCommit(x, c)
    BY <1>3, <1>10
  <1>11. CASE \E x \in Requests : RotateCommit(x)
    BY <1>4, <1>11
  <1>12. CASE \E x \in Requests : DisableCommit(x) \/ ValidateCommit(x)
    BY <1>5, <1>12
  <1>13. CASE \E x \in Requests : DeleteCommit(x)
    BY <1>6, <1>13
  <1> QED
    BY <1>7, <1>8, <1>9, <1>10, <1>11, <1>12, <1>13

\* The account stays once it is there, and only requests that find it create.
LEMMA NothingStep ==
  ASSUME TypeOK, StatusRequestsName, NothingWithoutAccount, [Next]_vars
  PROVE  NothingWithoutAccount'
  <1> SUFFICES ASSUME account' = "absent"
               PROVE  /\ \A c \in Creds : ~Present(c)'
                      /\ \A x \in Requests : req'[x].kind \notin {"create", "rotate"}
    BY DEF NothingWithoutAccount
  <1>1. account = "absent"
    <2>1. ASSUME NEW x \in Requests, Ask(x) PROVE account' = account
      BY <2>1, AskCases DEF StatusLoad, CreateCredentialLoad, RotateLoad, CredentialLoad,
         ValidateLoad, ManualModelLoad, SyncLoad, apiTables
    <2>2. ASSUME NEW x \in Requests, ProviderAnswers(x) PROVE account' = account
      BY <2>2 DEF ProviderAnswers, ValidateAnswered, ModelsAnswered, UsageAnswered,
         ProviderFails, apiTables
    <2>3. ASSUME NEW x \in Requests, Commit(x) \/ RequestEnds(x)
          PROVE  account = "absent"
      <3>1. CASE StatusCommit(x)
        BY <3>1 DEF StatusCommit, Stored, StatusRequestsName, AccountStatuses
      <3>2. CASE ValidateCommit(x)
        BY <3>2 DEF ValidateCommit, Stored
      <3>3. CASE SyncFails(x)
        BY <3>3 DEF SyncFails, Stored
      <3> QED
        BY <2>3, <3>1, <3>2, <3>3 DEF Commit, RequestEnds, CreateCredentialCommit, RotateCommit,
           DisableCommit, DeleteCommit, ManualModelCommit, ModelsCommit, ModelsRefused,
           UsageCommit, UsageRefused, apiTables
    <2>4. CASE AskAtOnce
      BY <2>4 DEF AskAtOnce, provider_create, provider_patch, account_create, usage_manual,
         CreateProvider, UpdateProvider, CreateAccount, ManualUsage
    <2>5. CASE DayPasses \/ UNCHANGED vars
      BY <2>5 DEF DayPasses, vars, catalogVars, apiTables
    <2> QED
      BY <2>1, <2>2, <2>3, <2>4, <2>5 DEF Next, Proceed
  <1>2. \A x \in Requests : req'[x].kind \notin {"create", "rotate"}
    BY <1>1, RequestStep DEF Fresh, NothingWithoutAccount
  <1>3. (\A c \in Creds : ~Present(c)) /\ \A x \in Requests : req[x].kind \notin {"create", "rotate"}
    BY <1>1 DEF NothingWithoutAccount
  <1>4. UNCHANGED cred \/ \E c \in Creds : CredWritten(c, GoneCredRow)
    BY <1>3, CredStep
  <1>5. cred \in [Creds -> CredRow]
    BY DEF TypeOK, ApiTablesTypeOK
  <1>6. \A c \in Creds : ~Present(c)'
    BY <1>3, <1>4, <1>5 DEF CredWritten, GoneCredRow, Present, CredStatuses
  <1> QED
    BY <1>2, <1>6

\* A fingerprint that a row gets is one that no other row has.
LEMMA FingerprintStep ==
  ASSUME TypeOK, KeyInv, [Next]_vars
  PROVE  FingerprintsDistinct'
  <1> USE DEF KeyInv
  <1>1. cred \in [Creds -> CredRow]
    BY DEF TypeOK, ApiTablesTypeOK
  <1>2. ASSUME NEW c \in Creds, NEW row, CredWritten(c, row),
               \/ row.status = "gone"
               \/ \A d \in Creds \ {c} : Present(d) => cred[d].fingerprint # row.fingerprint
        PROVE  FingerprintsDistinct'
    <2>1. ASSUME NEW d \in Creds, Present(d)'
          PROVE  \/ d # c /\ Present(d) /\ cred'[d] = cred[d]
                 \/ d = c /\ cred'[d] = row /\ row.status # "gone"
      BY <1>1, <1>2, <2>1 DEF CredWritten, Present, CredStatuses
    <2> QED
      BY <1>2, <2>1 DEF FingerprintsDistinct
  <1>3. CASE UNCHANGED cred
    BY <1>3 DEF FingerprintsDistinct, Present
  <1>4. ASSUME NEW k \in Keys, account = "absent", CredWritten(1, NewCredRow(k)), 1 \in Creds
        PROVE  FingerprintsDistinct'
    BY <1>2, <1>4 DEF NothingWithoutAccount
  <1>5. ASSUME NEW x \in Requests, NEW c \in Creds, FingerprintIsFree(c, req[x].key),
               CredWritten(c, NewCredRow(req[x].key))
        PROVE  FingerprintsDistinct'
    BY <1>2, <1>5 DEF NewCredRow, FingerprintIsFree
  <1>6. ASSUME NEW x \in Requests, NEW c \in Creds,
               FingerprintIsFree(c, Rotated(req[x], cred[c]).fingerprint),
               CredWritten(c, Rotated(req[x], cred[c]))
        PROVE  FingerprintsDistinct'
    BY <1>2, <1>6 DEF FingerprintIsFree
  <1>7. ASSUME NEW c \in Creds, NEW status, Present(c), CredWritten(c, CredStatus(c, status))
        PROVE  FingerprintsDistinct'
    <2>1. CredStatus(c, status).fingerprint = cred[c].fingerprint
      BY DEF CredStatus
    <2> QED
      BY <1>2, <1>7, <2>1 DEF FingerprintsDistinct
  <1>8. ASSUME NEW c \in Creds, CredWritten(c, GoneCredRow)
        PROVE  FingerprintsDistinct'
    BY <1>2, <1>8 DEF GoneCredRow
  <1> QED
    BY <1>3, <1>4, <1>5, <1>6, <1>7, <1>8, CredStep

LEMMA InitKeys == Init => KeyInv /\ ReentryInv
  <1> SUFFICES ASSUME Init PROVE KeyInv /\ ReentryInv
    OBVIOUS
  <1> USE DEF KeyInv, ReentryInv, NothingWithoutAccount, FingerprintsDistinct, RotationsFindRows,
              FingerprintMatches, MixedUp, ReentriesAreCurrent, Reenters
  <1>1. \A x \in Requests : req[x].kind = "none"
    BY DEF Init, NoRequest, Plain
  <1>2. CASE cred = [c \in Creds |-> NoCredRow]
    BY <1>1, <1>2 DEF Present, NoCredRow, CredStatuses
  <1>3. ASSUME NEW k \in Keys, account # "absent",
               cred = [c \in Creds |-> IF c = 1 THEN NewCredRow(k) ELSE NoCredRow]
        PROVE  KeyInv /\ ReentryInv
    BY <1>1, <1>3 DEF Present, NoCredRow, NewCredRow, CredStatuses
  <1> QED
    BY <1>2, <1>3 DEF Init, ApiTablesInit, NewCredRow

LEMMA KeysHold == Spec => [](TypeOK /\ StatusRequestsName /\ KeyInv)
  <1>1. Init => StatusRequestsName
    BY DEF Init, StatusRequestsName, NoRequest, Plain
  <1>2. TypeOK /\ StatusRequestsName /\ KeyInv /\ [Next]_vars
          => (TypeOK /\ StatusRequestsName /\ KeyInv)'
    BY TypeStep, StatusNameStep, NothingStep, FingerprintStep DEF KeyInv
  <1> QED
    BY <1>1, <1>2, InitType, InitKeys, PTL DEF Spec

\* However many creations and rotations overlap, two credentials hold the same
\* key only when the fingerprint of one of them belongs to another key.
THEOREM KeysClashWhenMixed == Spec => []KeysClashOnlyWhenMixed
  <1>1. KeyInv => KeysClashOnlyWhenMixed
    BY DEF KeyInv, FingerprintsDistinct, KeysClashOnlyWhenMixed, MixedUp
  <1> QED
    BY <1>1, KeysHold, PTL

\* A stored key and its fingerprint come apart only by a rotation that enters
\* the key it has loaded while another one changes it.
LEMMA MixingStep ==
  ASSUME TypeOK, [Next]_vars, NEW c \in Creds, Present(c) => ~MixedUp(c), Present(c)', MixedUp(c)'
  PROVE  \E x \in Requests : /\ RotateCommit(x) /\ req[x].cred = c
                             /\ Reenters(x) /\ cred[c].fingerprint # req[x].key
  <1>1. cred \in [Creds -> CredRow]
    BY DEF TypeOK, ApiTablesTypeOK
  <1>2. ASSUME NEW d \in Creds, NEW row, CredWritten(d, row)
        PROVE  /\ d = c \/ (Present(c) /\ MixedUp(c))
               /\ d = c => cred'[c] = row
    BY <1>1, <1>2 DEF CredWritten, Present, MixedUp
  <1>3. ~UNCHANGED cred
    BY DEF Present, MixedUp
  <1>4. ASSUME NEW k, NEW d \in Creds, CredWritten(d, NewCredRow(k))
        PROVE  FALSE
    BY <1>2, <1>4 DEF NewCredRow, MixedUp
  <1>5. ASSUME NEW d \in Creds, NEW status, Present(d), CredWritten(d, CredStatus(d, status))
        PROVE  FALSE
    BY <1>2, <1>5 DEF CredStatus, MixedUp
  <1>6. ASSUME NEW d \in Creds, CredWritten(d, GoneCredRow)
        PROVE  FALSE
    BY <1>2, <1>6 DEF GoneCredRow, Present, CredStatuses
  <1>7. ASSUME NEW x \in Requests, NEW d \in Creds, RotateCommit(x), d = req[x].cred, Present(d),
               CredWritten(d, Rotated(req[x], cred[d]))
        PROVE  req[x].cred = c /\ Reenters(x) /\ cred[c].fingerprint # req[x].key
    <2>1. d = c /\ cred'[c] = Rotated(req[x], cred[c])
      BY <1>2, <1>7
    <2>2. Rotated(req[x], cred[c]).fingerprint # req[x].key
      BY <2>1 DEF MixedUp, Rotated
    <2> QED
      BY <1>7, <2>1, <2>2 DEF Rotated, Stored, Reenters, RotateCommit
  <1> QED
    BY <1>3, <1>4, <1>5, <1>6, <1>7, CredStep

THEOREM KeysMixByReentry == Spec => KeysMixOnlyByReentry
  <1>1. TypeOK /\ [Next]_vars =>
          [\A c \in Creds :
             (Present(c) => ~MixedUp(c)) /\ Present(c)' /\ MixedUp(c)' =>
               \E x \in Requests : /\ RotateCommit(x) /\ req[x].cred = c
                                  /\ Reenters(x) /\ cred[c].fingerprint # req[x].key]_vars
    BY MixingStep
  <1> QED
    BY <1>1, TypesHold, PTL DEF KeysMixOnlyByReentry, Spec

\* The step of the invariant that needs re-entries apart.
LEMMA ReentryStep ==
  ASSUME TypeOK, KeyInv, ReentryInv, ReentriesApart, [Next]_vars
  PROVE  ReentryInv'
  <1> USE DEF ReentryInv
  <1>1. cred \in [Creds -> CredRow]
    BY DEF TypeOK, ApiTablesTypeOK
  <1>2. \A x \in Requests : RotateCommit(x) => req'[x].kind = "none"
    BY DEF RotateCommit, End, TypeOK, NoRequest, Plain
  <1>3. FingerprintMatches'
    <2> SUFFICES ASSUME NEW c \in Creds, Present(c)', MixedUp(c)' PROVE FALSE
      BY DEF FingerprintMatches
    <2>1. PICK x \in Requests : /\ RotateCommit(x) /\ req[x].cred = c
                                /\ Reenters(x) /\ cred[c].fingerprint # req[x].key
      BY MixingStep DEF FingerprintMatches
    <2>2. Present(c)
      BY <2>1 DEF RotateCommit, Present
    <2> QED
      BY <2>1, <2>2 DEF ReentriesAreCurrent
  <1>4. ASSUME NEW y \in Requests, req'[y].kind = "rotate"
        PROVE  /\ req'[y].cred \in Creds /\ cred'[req'[y].cred].status # "absent"
               /\ Reenters(y)' /\ cred'[req'[y].cred].status \in CredStatuses
                    => cred'[req'[y].cred].fingerprint = req'[y].key
    <2>1. CASE req'[y] # req[y]
      <3>1. Fresh(req'[y])
        BY <2>1, RequestStep
      <3> QED
        BY <1>4, <3>1 DEF Fresh, Reenters, Present, CredStatuses
    <2>2. ASSUME req'[y] = req[y], NEW c \in Creds, c = req[y].cred
          PROVE  /\ cred'[c].status # "absent"
                 /\ Reenters(y) /\ cred'[c].status \in CredStatuses
                      => cred'[c].fingerprint = req[y].key
      <3> DEFINE RowIsLoaded == /\ cred'[c].status # "absent"
                                /\ Reenters(y) /\ cred'[c].status \in CredStatuses
                                     => cred'[c].fingerprint = req[y].key
      <3>0. req[y].kind = "rotate"
        BY <1>4, <2>2
      <3>1. /\ cred[c].status # "absent"
            /\ Reenters(y) /\ cred[c].status \in CredStatuses => cred[c].fingerprint = req[y].key
        BY <2>2, <3>0 DEF KeyInv, RotationsFindRows, ReentriesAreCurrent, Present
      <3>3. CASE UNCHANGED cred
        BY <3>1, <3>3
      <3>4. ASSUME NEW d \in Creds, NEW row, CredWritten(d, row)
            PROVE  cred'[c] = IF d = c THEN row ELSE cred[c]
        BY <1>1, <3>4 DEF CredWritten
      <3>5. account # "absent"
        BY <3>0 DEF KeyInv, NothingWithoutAccount
      <3>6. ASSUME NEW x \in Requests, NEW d \in Creds, cred[d].status = "absent",
                   CredWritten(d, NewCredRow(req[x].key))
            PROVE  RowIsLoaded
        <4>1. cred'[c] = cred[c]
          BY <3>1, <3>4, <3>6
        <4> QED
          BY <3>1, <4>1
      <3>7. ASSUME NEW x \in Requests, NEW d \in Creds, RotateCommit(x), d = req[x].cred,
                   Present(d), CredWritten(d, Rotated(req[x], cred[d]))
            PROVE  RowIsLoaded
        <4>1. CASE d # c
          <5>1. cred'[c] = cred[c]
            BY <3>4, <3>7, <4>1
          <5> QED
            BY <3>1, <5>1
        <4>2. CASE d = c
          <5>1. ~Reenters(y)
            BY <1>2, <1>4, <2>2, <3>0, <3>7, <4>2 DEF ReentriesApart, RotateCommit
          <5>2. cred'[c] = Rotated(req[x], cred[c])
            BY <3>4, <3>7, <4>2
          <5>3. cred'[c].status # "absent"
            BY <3>1, <5>2 DEF Rotated, Stored
          <5> QED
            BY <5>1, <5>3
        <4> QED
          BY <4>1, <4>2
      <3>8. ASSUME NEW d \in Creds, NEW status \in CredStatuses, Present(d),
                   CredWritten(d, CredStatus(d, status))
            PROVE  RowIsLoaded
        <4>1. CASE d # c
          <5>1. cred'[c] = cred[c]
            BY <3>4, <3>8, <4>1
          <5> QED
            BY <3>1, <5>1
        <4>2. CASE d = c
          <5>1. cred'[c] = CredStatus(c, status)
            BY <3>4, <3>8, <4>2
          <5>2. cred[c].status \in CredStatuses
            BY <3>8, <4>2 DEF Present
          <5> QED
            BY <3>1, <5>1, <5>2 DEF CredStatus, CredStatuses
        <4> QED
          BY <4>1, <4>2
      <3>9. ASSUME NEW d \in Creds, CredWritten(d, GoneCredRow)
            PROVE  RowIsLoaded
        <4>1. cred'[c] = GoneCredRow \/ cred'[c] = cred[c]
          BY <3>4, <3>9
        <4> QED
          BY <3>1, <4>1 DEF GoneCredRow, CredStatuses
      <3> QED
        BY <3>3, <3>5, <3>6, <3>7, <3>8, <3>9, CredStep
    <2>3. CASE req'[y] = req[y]
      <3>1. /\ req'[y].cred = req[y].cred /\ req[y].cred \in Creds
            /\ Reenters(y)' => Reenters(y)
            /\ req'[y].key = req[y].key
        BY <1>4, <2>3 DEF KeyInv, RotationsFindRows, Reenters
      <3>2. /\ cred'[req[y].cred].status # "absent"
            /\ Reenters(y) /\ cred'[req[y].cred].status \in CredStatuses
                 => cred'[req[y].cred].fingerprint = req[y].key
        BY <2>2, <2>3, <3>1
      <3> QED
        BY <3>1, <3>2
    <2> QED
      BY <2>1, <2>3
  <1> QED
    BY <1>3, <1>4 DEF RotationsFindRows, ReentriesAreCurrent, Reenters, Present

\* Two credentials come to hold the same key only when a rotation that
\* re-enters a key overlaps another rotation of its credential: whatever else
\* overlaps, breaks off or is deleted, keys stay distinct.
THEOREM KeysStayDistinct == Spec => ([]ReentriesApart => []KeysDistinct)
  <1>1. KeyInv /\ ReentryInv => KeysDistinct
    BY DEF KeyInv, ReentryInv, FingerprintsDistinct, FingerprintMatches, KeysDistinct, MixedUp
  <1> QED
    BY <1>1, KeysHold, InitKeys, ReentryStep, PTL DEF Spec

-----------------------------------------------------------------------------
(* Models. *)

\* What became of the rows of models in a step: nothing, an entry of an
\* administrator, or a completed synchronisation.
LEMMA ModelStep ==
  ASSUME [Next]_vars
  PROVE  \/ UNCHANGED models
         \/ \E x \in Requests, m \in Models :
              /\ models' = [models EXCEPT ![m] = Entered(req[x], m)]
              /\ req[x].rows[m].source = "none" => models[m].source = "none"
         \/ \E x \in Requests :
              /\ ModelsAccepted(req[x])
              /\ models' = [m \in Models |-> Merged(req[x], m)]
  <1>1. ASSUME NEW x \in Requests, Ask(x) PROVE UNCHANGED models
    BY <1>1, AskCases DEF StatusLoad, CreateCredentialLoad, RotateLoad, CredentialLoad,
       ValidateLoad, ManualModelLoad, SyncLoad, apiTables
  <1>2. ASSUME NEW x \in Requests, ProviderAnswers(x) PROVE UNCHANGED models
    BY <1>2 DEF ProviderAnswers, ValidateAnswered, ModelsAnswered, UsageAnswered,
       ProviderFails, apiTables
  <1>3. ASSUME NEW x \in Requests,
               \/ \E c \in Creds : CreateCredentialCommit(x, c)
               \/ StatusCommit(x) \/ RotateCommit(x) \/ DisableCommit(x) \/ DeleteCommit(x)
               \/ ValidateCommit(x) \/ ModelsRefused(x) \/ UsageCommit(x)
               \/ UsageRefused(x) \/ SyncFails(x) \/ RequestEnds(x)
        PROVE  UNCHANGED models
    BY <1>3 DEF CreateCredentialCommit, StatusCommit, RotateCommit, DisableCommit, DeleteCommit,
       ValidateCommit, ModelsRefused, UsageCommit, UsageRefused, SyncFails, RequestEnds,
       apiTables
  <1>4. ASSUME NEW x \in Requests, NEW m \in Models, ManualModelCommit(x, m)
        PROVE  \/ UNCHANGED models
               \/ /\ models' = [models EXCEPT ![m] = Entered(req[x], m)]
                  /\ req[x].rows[m].source = "none" => models[m].source = "none"
    BY <1>4 DEF ManualModelCommit
  <1>5. ASSUME NEW x \in Requests, ModelsCommit(x)
        PROVE  ModelsAccepted(req[x]) /\ models' = [m \in Models |-> Merged(req[x], m)]
    BY <1>5 DEF ModelsCommit
  <1>6. CASE AskAtOnce
    BY <1>6 DEF AskAtOnce, provider_create, provider_patch, account_create, usage_manual,
       CreateProvider, UpdateProvider, CreateAccount, ManualUsage
  <1>7. CASE DayPasses \/ UNCHANGED vars
    BY <1>7 DEF DayPasses, vars, catalogVars, apiTables
  <1> QED
    BY <1>1, <1>2, <1>3, <1>4, <1>5, <1>6, <1>7 DEF Next, Proceed, Commit

\* A row keeps its source once it exists, and stays well formed, whatever an
\* entry or a synchronisation found before.
LEMMA ModelRowStep ==
  ASSUME TypeOK, ModelInv, [Next]_vars, NEW m \in Models
  PROVE  /\ models[m].source # "none" => models'[m].source = models[m].source
         /\ WellFormed(models'[m])
  <1>1. models \in [Models -> ModelRow] /\ \A x \in Requests : req[x].rows \in [Models -> ModelRow]
    BY DEF TypeOK, ApiTablesTypeOK, Request
  <1>2. WellFormed(models[m])
    BY DEF ModelInv, RowsWellFormed
  <1>3. ASSUME NEW x \in Requests, NEW e \in Models,
               models' = [models EXCEPT ![e] = Entered(req[x], e)],
               req[x].rows[e].source = "none" => models[e].source = "none"
        PROVE  /\ models[m].source # "none" => models'[m].source = models[m].source
               /\ WellFormed(models'[m])
    <2>1. CASE m # e
      BY <1>1, <1>2, <1>3, <2>1
    <2>2. CASE m = e
      <3>1. models'[m] = Entered(req[x], m)
        BY <1>1, <1>3, <2>2
      <3>2. CASE req[x].rows[m].source = "none"
        BY <1>3, <2>2, <3>1, <3>2 DEF Entered, WellFormed
      <3>3. CASE req[x].rows[m].source # "none"
        <4>1. models[m].source = req[x].rows[m].source
          BY <3>3 DEF ModelInv, FoundRowsRemain
        <4> QED
          BY <1>2, <3>1, <3>3, <4>1 DEF Entered, Stored, WellFormed
      <3> QED
        BY <3>2, <3>3
    <2> QED
      BY <2>1, <2>2
  <1>4. ASSUME NEW x \in Requests, ModelsAccepted(req[x]),
               models' = [n \in Models |-> Merged(req[x], n)]
        PROVE  /\ models[m].source # "none" => models'[m].source = models[m].source
               /\ WellFormed(models'[m])
    <2>1. models'[m] = Merged(req[x], m)
      BY <1>4
    <2>2. CASE m \in Inserted(req[x])
      BY <1>4, <2>1, <2>2 DEF Merged, ModelsAccepted, WellFormed
    <2>3. CASE m \notin Inserted(req[x])
      <3>1. /\ models'[m].source = models[m].source
            /\ models'[m].available = Stored(models[m].available, req[x].rows[m].available,
                                             Available(req[x], m))
        BY <2>1, <2>3 DEF Merged
      <3>2. WellFormed(req[x].rows[m])
        BY DEF ModelInv, RowsWellFormed
      <3>3. CASE req[x].rows[m].source = "none"
        <4>1. m \notin req[x].listed
          BY <2>3, <3>3 DEF Inserted
        <4>2. req[x].rows[m].available = FALSE
          BY <3>2, <3>3 DEF WellFormed
        <4>3. Available(req[x], m) = (m \in req[x].listed \/ req[x].rows[m].available)
          BY <3>3, Zenon DEF Available
        <4>4. Available(req[x], m) = FALSE
          BY <4>1, <4>2, <4>3
        <4> QED
          BY <1>2, <3>1, <4>2, <4>4 DEF Stored, WellFormed
      <3>4. CASE req[x].rows[m].source # "none"
        <4>1. models[m].source = req[x].rows[m].source
          BY <3>4 DEF ModelInv, FoundRowsRemain
        <4>2. req[x].rows[m].source = "manual" => Available(req[x], m) = TRUE
          BY <3>2 DEF WellFormed, Available
        <4> QED
          BY <1>2, <3>1, <3>4, <4>1, <4>2 DEF Stored, WellFormed
      <3> QED
        BY <3>3, <3>4
    <2> QED
      BY <2>2, <2>3
  <1> QED
    BY <1>2, <1>3, <1>4, ModelStep

LEMMA ModelInvStep ==
  ASSUME TypeOK, ModelInv, [Next]_vars
  PROVE  ModelInv'
  <1>1. RowsWellFormed'
    <2>1. ASSUME NEW x \in Requests, NEW m \in Models PROVE WellFormed(req'[x].rows[m])
      <3>1. CASE req'[x] = req[x]
        BY <3>1 DEF ModelInv, RowsWellFormed
      <3>2. CASE req'[x] # req[x]
        BY <3>2, RequestStep DEF Fresh, NoRows, ModelInv, RowsWellFormed, WellFormed
      <3> QED
        BY <3>1, <3>2
    <2> QED
      BY <2>1, ModelRowStep DEF RowsWellFormed
  <1>2. FoundRowsRemain'
    <2> SUFFICES ASSUME NEW x \in Requests, NEW m \in Models, req'[x].rows[m].source # "none"
                 PROVE  models'[m].source = req'[x].rows[m].source
      BY DEF FoundRowsRemain
    <2>1. CASE req'[x] = req[x]
      BY <2>1, ModelRowStep DEF ModelInv, FoundRowsRemain
    <2>2. CASE req'[x] # req[x]
      BY <2>2, RequestStep DEF Fresh, NoRows
    <2> QED
      BY <2>1, <2>2
  <1> QED
    BY <1>1, <1>2 DEF ModelInv

\* A model that an administrator entered stays available: no overlap of
\* synchronisations and entries makes it unavailable.
THEOREM ManualModelsStay == Spec => []ManualModelStays
  <1>1. Init => StatusRequestsName
    BY DEF Init, StatusRequestsName, NoRequest, Plain
  <1>2. Init => ModelInv
    BY DEF Init, ApiTablesInit, ModelInv, RowsWellFormed, FoundRowsRemain, WellFormed,
       NoRequest, Plain, NoRows
  <1>3. ModelInv => ManualModelStays
    BY DEF ModelInv, RowsWellFormed, WellFormed, ManualModelStays
  <1> QED
    BY <1>1, <1>2, <1>3, InitType, TypeStep, StatusNameStep, ModelInvStep, PTL DEF Spec

\* A synchronisation of models that completes, and that no other writer of
\* models overlapped, leaves of the provider's models exactly the listed ones
\* available.
THEOREM CompletedSyncHolds == Spec => CompletedSyncIsTrue
  <1>1. ASSUME NEW x \in Requests, ModelsCommit(x), req[x].rows = models,
               NEW m \in Models, models'[m].source = "provider"
        PROVE  models'[m].available <=> m \in req[x].listed
    <2> DEFINE q == req[x]
    <2>1. models'[m] = Merged(q, m)
      BY <1>1 DEF ModelsCommit
    <2>2. CASE m \in Inserted(q)
      <3>1. models'[m].available = TRUE
        BY <2>1, <2>2 DEF Merged
      <3>2. m \in req[x].listed
        BY <2>2 DEF Inserted
      <3> QED
        BY <3>1, <3>2
    <2>3. CASE m \notin Inserted(q)
      <3>1. models[m].source = "provider"
        BY <1>1, <2>1, <2>3 DEF Merged
      <3>2. Available(q, m) = (m \in req[x].listed)
        BY <1>1, <3>1 DEF Available
      <3>3. models'[m].available = Stored(q.rows[m].available, q.rows[m].available, Available(q, m))
        BY <1>1, <2>1, <2>3 DEF Merged
      <3>4. models'[m].available = Available(q, m)
        BY <3>3 DEF Stored
      <3> QED
        BY <3>2, <3>4
    <2> QED
      BY <2>2, <2>3
  <1>2. [Next]_vars =>
          [\A x \in Requests :
             ModelsCommit(x) /\ req[x].rows = models =>
               \A m \in Models : models'[m].source = "provider" =>
                 (models'[m].available <=> m \in req[x].listed)]_vars
    BY <1>1
  <1> QED
    BY <1>2, PTL DEF CompletedSyncIsTrue, Spec

-----------------------------------------------------------------------------
(* Runs and history. *)

LEMMA RunsStep ==
  ASSUME RunsAreSettled, TypeOK, [Next]_vars
  PROVE  RunsAreSettled'
  <1>1. run \in [SyncTypes -> RunStatuses]
    BY DEF TypeOK, ApiTablesTypeOK
  <1>2. ASSUME NEW x \in Requests, Ask(x) PROVE UNCHANGED run
    BY <1>2, AskCases DEF StatusLoad, CreateCredentialLoad, RotateLoad, CredentialLoad,
       ValidateLoad, ManualModelLoad, SyncLoad, apiTables
  <1>3. ASSUME NEW x \in Requests, ProviderAnswers(x) PROVE UNCHANGED run
    BY <1>3 DEF ProviderAnswers, ValidateAnswered, ModelsAnswered, UsageAnswered,
       ProviderFails, apiTables
  <1>4. ASSUME NEW x \in Requests, Commit(x) \/ RequestEnds(x)
        PROVE  \/ UNCHANGED run
               \/ \E ty \in SyncTypes, to \in {"completed", "failed"} :
                    run' = [run EXCEPT ![ty] = to]
    BY <1>4 DEF SyncTypes, Commit, CreateCredentialCommit, StatusCommit, RotateCommit, DisableCommit,
       DeleteCommit, ValidateCommit, ManualModelCommit, ModelsCommit, ModelsRefused,
       UsageCommit, UsageRefused, SyncFails, RequestEnds, apiTables
  <1>5. ASSUME AskAtOnce \/ DayPasses \/ UNCHANGED vars PROVE UNCHANGED run
    BY <1>5 DEF AskAtOnce, provider_create, provider_patch, account_create, usage_manual,
       CreateProvider, UpdateProvider, CreateAccount, ManualUsage, DayPasses, vars,
       catalogVars, apiTables
  <1>6. \/ UNCHANGED run
        \/ \E ty \in SyncTypes, to \in {"completed", "failed"} : run' = [run EXCEPT ![ty] = to]
    BY <1>2, <1>3, <1>4, <1>5 DEF Next, Proceed
  <1> QED
    BY <1>1, <1>6 DEF RunsAreSettled

\* No synchronisation that broke off keeps the next one from starting.
THEOREM IdleIsNeverBlocked == Spec => []IdleIsNotBlocked
  <1>1. Init => StatusRequestsName
    BY DEF Init, StatusRequestsName, NoRequest, Plain
  <1>2. Init => RunsAreSettled
    BY DEF Init, ApiTablesInit, RunsAreSettled
  <1>3. RunsAreSettled => IdleIsNotBlocked
    BY DEF RunsAreSettled, IdleIsNotBlocked, Blocked
  <1> QED
    BY <1>1, <1>2, <1>3, InitType, TypeStep, StatusNameStep, RunsStep, PTL DEF Spec

\* Only the deletion of a credential takes what refers to it, and it leaves the
\* entries without a credential.
LEMMA HistoryStep ==
  ASSUME TypeOK, [Next]_vars
  PROVE  \A c \in history : c \in history' \/ (~Present(c)' /\ NoCred \in history')
  <1>1. history \subseteq Creds \cup {NoCred} /\ cred \in [Creds -> CredRow]
    BY DEF TypeOK, ApiTablesTypeOK
  <1>2. ASSUME NEW x \in Requests, Ask(x) PROVE history \subseteq history'
    BY <1>2, AskCases DEF StatusLoad, CreateCredentialLoad, RotateLoad, CredentialLoad,
       ValidateLoad, ManualModelLoad, SyncLoad, apiTables
  <1>3. ASSUME NEW x \in Requests, ProviderAnswers(x) PROVE history \subseteq history'
    BY <1>3 DEF ProviderAnswers, ValidateAnswered, ModelsAnswered, UsageAnswered,
       ProviderFails, apiTables
  <1>4. ASSUME NEW x \in Requests, Commit(x) \/ RequestEnds(x), ~DeleteCommit(x)
        PROVE  history \subseteq history'
    BY <1>4 DEF Commit, CreateCredentialCommit, StatusCommit, RotateCommit, DisableCommit,
       ValidateCommit, ManualModelCommit, ModelsCommit, ModelsRefused, UsageCommit,
       UsageRefused, SyncFails, RequestEnds, apiTables
  <1>5. ASSUME NEW x \in Requests, DeleteCommit(x), NEW c \in history
        PROVE  c \in history' \/ (~Present(c)' /\ NoCred \in history')
    <2>1. CASE c # req[x].cred \/ c = NoCred
      BY <1>5, <2>1 DEF DeleteCommit, Unlinked
    <2>2. CASE c = req[x].cred /\ c # NoCred
      <3>1. cred'[c] = GoneCredRow /\ NoCred \in history'
        BY <1>1, <1>5, <2>2 DEF DeleteCommit, Unlinked
      <3> QED
        BY <3>1 DEF Present, GoneCredRow, CredStatuses
    <2> QED
      BY <2>1, <2>2
  <1>6. CASE AskAtOnce \/ DayPasses \/ UNCHANGED vars
    BY <1>6 DEF AskAtOnce, provider_create, provider_patch, account_create, usage_manual,
       CreateProvider, UpdateProvider, CreateAccount, ManualUsage, DayPasses, vars,
       catalogVars, apiTables
  <1> QED
    BY <1>2, <1>3, <1>4, <1>5, <1>6 DEF Next, Proceed

\* Health checks and usage entries survive the credential they refer to.
THEOREM HistoryStays == Spec => HistoryIsKept
  <1>1. Init => StatusRequestsName
    BY DEF Init, StatusRequestsName, NoRequest, Plain
  <1> QED
    BY <1>1, InitType, TypeStep, StatusNameStep, HistoryStep, PTL DEF Spec, HistoryIsKept
=============================================================================
