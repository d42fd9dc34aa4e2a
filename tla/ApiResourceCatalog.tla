------------------------- MODULE ApiResourceCatalog -------------------------
(***************************************************************************)
(* The services of the API resource catalog.  A request is one session: it *)
(* reads rows, may call the provider, and writes at its commit what it     *)
(* changed of the rows it has read.  Between these steps other requests    *)
(* commit.  A commit that a constraint refuses leaves nothing behind.      *)
(***************************************************************************)
EXTENDS ApiResourceBase

CONSTANT Requests  \* slots for requests under way

VARIABLES
  req,    \* the requests under way
  today

catalogVars == <<apiTables, req, today>>

(***************************************************************************)
(* Requests.  seen is the account's status and row the credential when     *)
(* they were loaded; rows and ids are the models and the usage records     *)
(* found after the provider answered; listed and records are the answer.   *)
(***************************************************************************)
Kinds == {"none", "status", "create", "rotate", "disable", "delete", "manual",
          "validate", "models", "usage"}
Answers == {"none", "awaited", "valid", "invalid", "listed", "failed"}
Request == [kind: Kinds, cred: Creds \cup {NoCred}, key: Keys \cup {NoKey},
            to: AccountStatuses \cup {"none"}, seen: AccountStatuses \cup {"absent"},
            row: CredRow, caps: CapabilitySets, both: BOOLEAN, day: 0 .. MaxDay,
            answer: Answers, listed: SUBSET Models, rows: [Models -> ModelRow],
            records: SUBSET RecordIds, ids: SUBSET RecordIds]

NoRows == [m \in Models |-> [source |-> "none", available |-> FALSE]]
RowOf(c) == IF c = NoCred THEN NoCredRow ELSE cred[c]

\* A request of an administrator that calls nobody.
Plain(kind, c, k, to, seen, listed, rows) ==
  [kind |-> kind, cred |-> c, key |-> k, to |-> to, seen |-> seen, row |-> RowOf(c),
   caps |-> {}, both |-> FALSE, day |-> 0, answer |-> "none", listed |-> listed,
   rows |-> rows, records |-> {}, ids |-> {}]
NoRequest == Plain("none", NoCred, NoKey, "none", "absent", {}, NoRows)

\* A request that calls the provider with credential c.
Calling(kind, c, seen, caps, both, answer) ==
  [kind |-> kind, cred |-> c, key |-> NoKey, to |-> "none", seen |-> seen, row |-> RowOf(c),
   caps |-> caps, both |-> both, day |-> today, answer |-> answer, listed |-> {},
   rows |-> NoRows, records |-> {}, ids |-> {}]

\* The request q after the provider's answer.
Answered(q, answer, listed, rows, records, ids) ==
  [kind |-> q.kind, cred |-> q.cred, key |-> NoKey, to |-> "none", seen |-> q.seen,
   row |-> q.row, caps |-> q.caps, both |-> q.both, day |-> q.day, answer |-> answer,
   listed |-> listed, rows |-> rows, records |-> records, ids |-> ids]

Free(x) == req[x].kind = "none"
Begin(x, q) == Free(x) /\ req' = [req EXCEPT ![x] = q]
End(x) == req' = [req EXCEPT ![x] = NoRequest]

\* The session writes a column only if its value differs from the loaded one.
Stored(now, seen, new) == IF new = seen THEN now ELSE new

\* Whatever is wrong (a refusal, an uncaught error, the end of the process),
\* the session is rolled back.
RequestEnds(x) ==
  /\ ~Free(x)
  /\ End(x)
  /\ UNCHANGED <<apiTables, today>>

(***************************************************************************)
(* Providers and accounts                                                  *)
(***************************************************************************)
CreateProvider(caps) ==
  /\ ~provider.exists
  /\ provider' = [exists |-> TRUE, enabled |-> TRUE, capabilities |-> caps]
  /\ UNCHANGED <<account, cred, models, usage, history, run, req, today>>

UpdateProvider(enabled, caps) ==
  /\ provider.exists
  /\ provider' = [exists |-> TRUE, enabled |-> enabled, capabilities |-> caps]
  /\ UNCHANGED <<account, cred, models, usage, history, run, req, today>>

NewCredRow(k) == [status |-> "active", value |-> k, fingerprint |-> k]

\* With a first credential, or without.
CreateAccount(k) ==
  /\ account = "absent" /\ provider.exists /\ provider.enabled
  /\ account' = "unverified"
  /\ cred' = IF k = NoKey \/ MaxCredentials = 0 THEN cred
             ELSE [cred EXCEPT ![1] = NewCredRow(k)]
  /\ UNCHANGED <<provider, models, usage, history, run, req, today>>

StatusLoad(x, to) ==
  /\ account # "absent"
  /\ Begin(x, Plain("status", NoCred, NoKey, to, account, {}, NoRows))
  /\ UNCHANGED <<apiTables, today>>

StatusCommit(x) ==
  /\ req[x].kind = "status"
  /\ account' = Stored(account, req[x].seen, req[x].to)
  /\ End(x)
  /\ UNCHANGED <<provider, cred, models, usage, history, run, today>>

(***************************************************************************)
(* Credentials                                                             *)
(***************************************************************************)
IsNextCred(c) ==
  /\ cred[c].status = "absent"
  /\ \A d \in Creds : d < c => cred[d].status # "absent"

CreateCredentialLoad(x, k) ==
  /\ account # "absent"
  /\ \A c \in Creds : cred[c].fingerprint # k
  /\ Begin(x, Plain("create", NoCred, k, "none", "absent", {}, NoRows))
  /\ UNCHANGED <<apiTables, today>>

CreateCredentialCommit(x, c) ==
  /\ req[x].kind = "create" /\ IsNextCred(c)
  /\ cred' = IF FingerprintIsFree(c, req[x].key)
             THEN [cred EXCEPT ![c] = NewCredRow(req[x].key)] ELSE cred
  /\ End(x)
  /\ UNCHANGED <<provider, account, models, usage, history, run, today>>

RotateLoad(x, c, k) ==
  /\ Present(c)
  /\ \A d \in Creds \ {c} : cred[d].fingerprint # k
  /\ Begin(x, Plain("rotate", c, k, "none", "absent", {}, NoRows))
  /\ UNCHANGED <<apiTables, today>>

\* The row as the rotation leaves it.  In the faulty variants the fingerprint
\* is forgotten, and the new key has to be validated first.
RotatedKeepingFingerprint(q, r) ==
  [status |-> Stored(r.status, q.row.status, "active"), value |-> q.key,
   fingerprint |-> r.fingerprint]
RotatedUnverified(q, r) ==
  [status |-> Stored(r.status, q.row.status, "unverified"), value |-> q.key,
   fingerprint |-> Stored(r.fingerprint, q.row.fingerprint, q.key)]
Rotated(q, r) ==
  [status |-> Stored(r.status, q.row.status, "active"), value |-> q.key,
   fingerprint |-> Stored(r.fingerprint, q.row.fingerprint, q.key)]

RotateCommit(x) ==
  LET c == req[x].cred IN
  /\ req[x].kind = "rotate"
  /\ cred' = IF Present(c) /\ FingerprintIsFree(c, Rotated(req[x], cred[c]).fingerprint)
             THEN [cred EXCEPT ![c] = Rotated(req[x], cred[c])] ELSE cred
  /\ End(x)
  /\ UNCHANGED <<provider, account, models, usage, history, run, today>>

CredStatus(c, status) ==
  [status |-> status, value |-> cred[c].value, fingerprint |-> cred[c].fingerprint]

CredentialLoad(x, c, kind) ==
  /\ Present(c)
  /\ Begin(x, Plain(kind, c, NoKey, "none", "absent", {}, NoRows))
  /\ UNCHANGED <<apiTables, today>>

DisableCommit(x) ==
  LET c == req[x].cred IN
  /\ req[x].kind = "disable"
  /\ cred' = IF Present(c)
             THEN [cred EXCEPT ![c] =
                     CredStatus(c, Stored(cred[c].status, req[x].row.status, "disabled"))]
             ELSE cred
  /\ End(x)
  /\ UNCHANGED <<provider, account, models, usage, history, run, today>>

\* ondelete="SET NULL": what referred to c stays.  In the faulty variant
\* it goes with the credential (ondelete="CASCADE").
Purged(c) == history \ {c}
Unlinked(c) == IF c \in history THEN (history \ {c}) \cup {NoCred} ELSE history

DeleteCommit(x) ==
  LET c == req[x].cred IN
  /\ req[x].kind = "delete"
  /\ cred' = [cred EXCEPT ![c] = GoneCredRow]
  /\ history' = Unlinked(c)
  /\ End(x)
  /\ UNCHANGED <<provider, account, models, usage, run, today>>

ValidateLoad(x, c) ==
  /\ Present(c) /\ "credential_validation" \in provider.capabilities
  /\ Begin(x, Calling("validate", c, account, provider.capabilities, FALSE, "awaited"))
  /\ UNCHANGED <<apiTables, today>>

ValidateAnswered(x, answer) ==
  /\ req[x].kind = "validate" /\ req[x].answer = "awaited"
  /\ answer \in {"valid", "invalid"}
  /\ req' = [req EXCEPT ![x] = Answered(req[x], answer, {}, NoRows, {}, {})]
  /\ UNCHANGED <<apiTables, today>>

\* A credential that was deleted meanwhile takes the validation with it.
ValidateCommit(x) ==
  LET q == req[x]  c == req[x].cred IN
  /\ q.kind = "validate" /\ q.answer \in {"valid", "invalid"}
  /\ IF Present(c)
     THEN /\ cred' = [cred EXCEPT ![c] = CredStatus(c,
                        Stored(cred[c].status, q.row.status,
                               IF q.answer = "valid" THEN "active" ELSE "invalid"))]
          /\ account' = Stored(account, q.seen,
                               IF q.answer = "valid" THEN "active" ELSE "degraded")
          /\ history' = history \cup {c}
     ELSE UNCHANGED <<cred, account, history>>
  /\ End(x)
  /\ UNCHANGED <<provider, models, usage, run, today>>
=============================================================================
