-------------------------- MODULE ApiResourceBase --------------------------
(***************************************************************************)
(* The tables behind the API resources: one provider, one account of it,   *)
(* and the account's credentials, models, usage records, health checks and *)
(* synchronisation runs.  Every query of the catalog filters by account,   *)
(* so accounts do not meet.                                                *)
(***************************************************************************)
EXTENDS Naturals

CONSTANTS
  Keys,           \* secret values a credential may hold
  NoKey,          \* the value of a credential row that does not exist
  CapabilitySets, \* what a provider row may say the provider can do
  Models,         \* identifiers the provider may list
  MaxCredentials, \* bound: credential rows ever inserted
  MaxDay          \* bound: days that pass

Capabilities == {"credential_validation", "model_discovery", "usage_sync"}

ASSUME NoKeyAssumption == NoKey \notin Keys
ASSUME CapabilitySetsAssumption ==
  CapabilitySets \subseteq SUBSET Capabilities /\ {{}, Capabilities} \subseteq CapabilitySets
ASSUME MaxCredentialsAssumption == MaxCredentials \in Nat
ASSUME MaxDayAssumption == MaxDay \in Nat

VARIABLES
  provider,  \* the api_providers row
  account,   \* status of the api_accounts row
  cred,      \* the api_credentials rows, numbered in creation order
  models,    \* per identifier, the api_account_models row
  usage,     \* per provider_record_id, how many api_usage_snapshots carry it
  history,   \* the credentials that health checks and usage entries refer to
  run        \* per kind, the latest api_sync_runs row that is committed

apiTables == <<provider, account, cred, models, usage, history, run>>

ProviderRow == [exists: BOOLEAN, enabled: BOOLEAN, capabilities: CapabilitySets]

AccountStatuses == {"unverified", "active", "degraded", "disabled", "archived"}

(***************************************************************************)
(* A credential has the value that was encrypted and the fingerprint that  *)
(* was taken of a value; nothing in the table makes the two agree.         *)
(***************************************************************************)
Creds == 1 .. MaxCredentials
NoCred == 0
CredStatuses == {"active", "invalid", "disabled"}
CredRow == [status: CredStatuses \cup {"absent", "gone"},
            value: Keys \cup {NoKey}, fingerprint: Keys \cup {NoKey}]
NoCredRow == [status |-> "absent", value |-> NoKey, fingerprint |-> NoKey]
GoneCredRow == [status |-> "gone", value |-> NoKey, fingerprint |-> NoKey]
Present(c) == cred[c].status \in CredStatuses

\* UniqueConstraint("account_id", "fingerprint"): c may carry k.  Without it,
\* only the handlers look for duplicates.
NoConstraint(c, k) == TRUE
FingerprintIsFree(c, k) == \A d \in Creds \ {c} : cred[d].fingerprint # k

ModelSources == {"none", "provider", "manual"}
ModelRow == [source: ModelSources, available: BOOLEAN]

(***************************************************************************)
(* Usage records.  The identifier of a record is made of the day and of    *)
(* the place of its bucket in the answer.  The week that a synchronisation *)
(* asks for is two days here, so a day comes second and, a day later,      *)
(* first.                                                                  *)
(***************************************************************************)
RecordIds == (0 .. MaxDay) \X {1, 2}
Week(day) == {r \in RecordIds : r[1] + 2 = day + r[2]}

SyncTypes == {"models", "usage"}
RunStatuses == {"none", "running", "completed", "failed"}

ApiTablesTypeOK ==
  /\ provider \in ProviderRow
  /\ account \in AccountStatuses \cup {"absent"}
  /\ cred \in [Creds -> CredRow]
  /\ models \in [Models -> ModelRow]
  /\ usage \in [RecordIds -> Nat]
  /\ history \subseteq Creds \cup {NoCred}
  /\ run \in [SyncTypes -> RunStatuses]

\* Nothing is there, or there are a provider that can do everything and an
\* account with one credential.
ApiTablesInit ==
  /\ \/ /\ provider = [exists |-> FALSE, enabled |-> FALSE, capabilities |-> {}]
        /\ account = "absent"
        /\ cred = [c \in Creds |-> NoCredRow]
     \/ /\ provider = [exists |-> TRUE, enabled |-> TRUE, capabilities |-> Capabilities]
        /\ account = "unverified"
        /\ \E k \in Keys :
             cred = [c \in Creds |->
                       IF c = 1 THEN [status |-> "active", value |-> k, fingerprint |-> k]
                                ELSE NoCredRow]
  /\ models = [m \in Models |-> [source |-> "none", available |-> FALSE]]
  /\ usage = [r \in RecordIds |-> 0]
  /\ history = {}
  /\ run = [ty \in SyncTypes |-> "none"]
=============================================================================
