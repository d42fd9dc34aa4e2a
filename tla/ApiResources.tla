---------------------------- MODULE ApiResources ----------------------------
(***************************************************************************)
(* The API resource routes over the services: administrators and the       *)
(* worker on one side, a provider on the other.  The number of requests is *)
(* bounded by MaxRequests.                                                 *)
(***************************************************************************)
EXTENDS ApiResourceSync

CONSTANT MaxRequests  \* bound: requests ever made

ASSUME MaxRequestsAssumption == MaxRequests \in Nat

VARIABLE asked

vars == <<catalogVars, asked>>

TypeOK ==
  /\ ApiTablesTypeOK
  /\ req \in [Requests -> Request]
  /\ today \in 0 .. MaxDay
  /\ asked \in 0 .. MaxRequests

Init ==
  /\ ApiTablesInit
  /\ req = [x \in Requests |-> NoRequest]
  /\ today = 0
  /\ asked = 0

Asked == asked < MaxRequests /\ asked' = asked + 1

(***************************************************************************)
(* The routes                                                              *)
(***************************************************************************)
provider_create == \E caps \in CapabilitySets : CreateProvider(caps)

provider_patch ==
  \E enabled \in BOOLEAN, caps \in CapabilitySets : UpdateProvider(enabled, caps)

account_create == \E k \in Keys \cup {NoKey} : CreateAccount(k)

account_patch(x) == \E to \in AccountStatuses \ {"archived"} : StatusLoad(x, to)

\* Archive and restore.
_set_archive(x) == \E to \in {"archived", "unverified"} : StatusLoad(x, to)

credential_create(x) == \E k \in Keys : CreateCredentialLoad(x, k)

credential_rotate(x, c) == \E k \in Keys : RotateLoad(x, c, k)

credential_validate(x, c) == ValidateLoad(x, c)

credential_disable(x, c) == CredentialLoad(x, c, "disable")

credential_delete(x, c) == CredentialLoad(x, c, "delete")

model_manual(x) == \E m \in Models : ManualModelLoad(x, m)

model_sync(x) == SyncLoad(x, "models", FALSE)

usage_sync(x) == SyncLoad(x, "usage", FALSE)

account_sync(x) == \E ty \in SyncTypes : SyncLoad(x, ty, TRUE)

usage_manual == \E c \in Creds \cup {NoCred} : ManualUsage(c)

Ask(x) ==
  /\ Asked
  /\ \/ account_patch(x) \/ _set_archive(x) \/ credential_create(x)
     \/ \E c \in Creds :
          \/ credential_rotate(x, c) \/ credential_validate(x, c)
          \/ credential_disable(x, c) \/ credential_delete(x, c)
     \/ model_manual(x) \/ model_sync(x) \/ usage_sync(x) \/ account_sync(x)

AskAtOnce == Asked /\ (provider_create \/ provider_patch \/ account_create \/ usage_manual)

(***************************************************************************)
(* The rest of a request                                                   *)
(***************************************************************************)
ProviderAnswers(x) ==
  \/ \E answer \in {"valid", "invalid"} : ValidateAnswered(x, answer)
  \/ \E listed \in SUBSET Models : ModelsAnswered(x, listed)
  \/ \E records \in SUBSET Week(req[x].day) : UsageAnswered(x, records)
  \/ ProviderFails(x)

Commit(x) ==
  \/ StatusCommit(x)
  \/ \E c \in Creds : CreateCredentialCommit(x, c)
  \/ RotateCommit(x) \/ DisableCommit(x) \/ DeleteCommit(x) \/ ValidateCommit(x)
  \/ \E m \in Models : ManualModelCommit(x, m)
  \/ ModelsCommit(x) \/ ModelsRefused(x) \/ UsageCommit(x) \/ UsageRefused(x)
  \/ SyncFails(x)

Proceed(x) == (ProviderAnswers(x) \/ Commit(x) \/ RequestEnds(x)) /\ UNCHANGED asked

DayPasses ==
  /\ today < MaxDay
  /\ today' = today + 1
  /\ UNCHANGED <<apiTables, req, asked>>

Next ==
  \/ AskAtOnce
  \/ \E x \in Requests : Ask(x) \/ Proceed(x)
  \/ DayPasses

Spec == Init /\ [][Next]_vars

-----------------------------------------------------------------------------
(***************************************************************************)
(* Properties                                                              *)
(***************************************************************************)

\* Two credentials of the account do not hold the same key: duplicates are
\* found by their fingerprints, when one is created or rotated.
KeysDistinct ==
  \A c, d \in Creds : Present(c) /\ Present(d) /\ cred[c].value = cred[d].value => c = d

\* The key that is stored is not the one that the fingerprint was taken of.
MixedUp(c) == cred[c].fingerprint # cred[c].value

\* However creations and rotations overlap, two credentials hold the same key
\* only when the fingerprint of one of them belongs to another key: what the
\* search for duplicates misses, the unique constraint refuses
\* (create_credential, rotate_credential).
KeysClashOnlyWhenMixed ==
  \A c, d \in Creds :
    Present(c) /\ Present(d) /\ c # d /\ cred[c].value = cred[d].value => MixedUp(c) \/ MixedUp(d)

\* Rotation x enters the key that its credential had when it was loaded.
Reenters(x) == req[x].kind = "rotate" /\ req[x].key = req[x].row.fingerprint

\* A stored key and its fingerprint come apart in one way only: a rotation
\* enters the key it has loaded, while another one gives the credential a
\* different key (rotate_credential writes the new ciphertext over it, and
\* leaves out the fingerprint, which has not changed since the load).
KeysMixOnlyByReentry ==
  [][\A c \in Creds :
       (Present(c) => ~MixedUp(c)) /\ Present(c)' /\ MixedUp(c)' =>
         \E x \in Requests : /\ RotateCommit(x) /\ req[x].cred = c
                            /\ Reenters(x) /\ cred[c].fingerprint # req[x].key]_vars

\* A model that an administrator entered stays available, whatever the
\* provider lists later.
ManualModelStays == \A m \in Models : models[m].source = "manual" => models[m].available

\* When no synchronisation of a kind is under way, none that broke off keeps
\* the next one from starting.
IdleIsNotBlocked ==
  \A ty \in SyncTypes : (\A x \in Requests : req[x].kind # ty) => ~Blocked(ty)

\* A synchronisation of models that completes, and that no other writer of
\* models overlapped, leaves of the provider's models exactly the listed ones
\* available.
CompletedSyncIsTrue ==
  [][\A x \in Requests :
       ModelsCommit(x) /\ req[x].rows = models =>
         \A m \in Models : models'[m].source = "provider" =>
           (models'[m].available <=> m \in req[x].listed)]_vars

\* Health checks and usage entries survive the credential they refer to.
HistoryIsKept ==
  [][\A c \in history : c \in history' \/ (~Present(c)' /\ NoCred \in history')]_vars
=============================================================================
