-------------------------- MODULE ApiResourceSync --------------------------
(***************************************************************************)
(* Synchronisation of models and usage, and the entries administrators     *)
(* make by hand.  The row of a synchronisation run is inserted when it     *)
(* starts and committed, with everything the run has written, at its end.  *)
(***************************************************************************)
EXTENDS ApiResourceCatalog

\* A run that is committed as under way keeps others of its kind from
\* starting (_start_sync).
Blocked(ty) == run[ty] \in {"queued", "running"}

CapabilityFor(ty) == IF ty = "models" THEN "model_discovery" ELSE "usage_sync"

IsChosen(c) ==
  /\ cred[c].status = "active"
  /\ \A d \in Creds : d < c => cred[d].status # "active"

\* The oldest active credential, if there is one.
Chosen == IF \E c \in Creds : IsChosen(c) THEN CHOOSE c \in Creds : IsChosen(c) ELSE NoCred

\* What a synchronisation is about to do: call the provider, or fail.
Starting(ty, seen, caps, both) ==
  IF CapabilityFor(ty) \in caps /\ Chosen # NoCred
  THEN Calling(ty, Chosen, seen, caps, both, "awaited")
  ELSE Calling(ty, NoCred, seen, caps, both, "failed")

\* The faulty variant commits the run when it starts.
SyncLoadCommitted(x, ty, both) ==
  /\ account # "absent" /\ ~Blocked(ty)
  /\ Begin(x, Starting(ty, account, provider.capabilities, both))
  /\ run' = [run EXCEPT ![ty] = "running"]
  /\ UNCHANGED <<provider, account, cred, models, usage, history, today>>
SyncLoad(x, ty, both) ==
  /\ account # "absent" /\ ~Blocked(ty)
  /\ Begin(x, Starting(ty, account, provider.capabilities, both))
  /\ UNCHANGED <<apiTables, today>>

\* The provider refuses, times out, is not to be called at its address, or
\* sends what the adapter cannot read.
ProviderFails(x) ==
  /\ req[x].kind \in SyncTypes /\ req[x].answer = "awaited"
  /\ req' = [req EXCEPT ![x] = Answered(req[x], "failed", {}, NoRows, {}, {})]
  /\ UNCHANGED <<apiTables, today>>

ModelsAnswered(x, listed) ==
  /\ req[x].kind = "models" /\ req[x].answer = "awaited"
  /\ req' = [req EXCEPT ![x] = Answered(req[x], "listed", listed, models, {}, {})]
  /\ UNCHANGED <<apiTables, today>>

\* The provider has usage in some days of the week that was asked for.
UsageAnswered(x, records) ==
  /\ req[x].kind = "usage" /\ req[x].answer = "awaited"
  /\ records \subseteq Week(req[x].day)
  /\ req' = [req EXCEPT ![x] = Answered(req[x], "listed", {}, NoRows, records,
                                        {r \in RecordIds : usage[r] > 0})]
  /\ UNCHANGED <<apiTables, today>>

Other(ty) == IF ty = "models" THEN "usage" ELSE "models"

\* The synchronisation of an account does one type and then the other, in one
\* session; seen is the status that the session has in memory.
GoesOn(x, seen) ==
  LET ty == Other(req[x].kind) IN
  IF req[x].both /\ ~Blocked(ty)
  THEN req' = [req EXCEPT ![x] = Starting(ty, seen, req[x].caps, FALSE)]
  ELSE End(x)

SyncFails(x) ==
  /\ req[x].kind \in SyncTypes /\ req[x].answer = "failed"
  /\ run' = [run EXCEPT ![req[x].kind] = "failed"]
  /\ account' = Stored(account, req[x].seen, "degraded")
  /\ GoesOn(x, "degraded")
  /\ UNCHANGED <<provider, cred, models, usage, history, today>>

(***************************************************************************)
(* Models.  A row that was found and is not listed any more becomes        *)
(* unavailable if it came from the provider.  The first variant does this  *)
(* to rows of administrators as well, the second to none.                  *)
(***************************************************************************)
AvailableToAll(q, m) == m \in q.listed
AvailableForever(q, m) == m \in q.listed \/ q.rows[m].available
Available(q, m) ==
  IF q.rows[m].source = "provider" THEN m \in q.listed
                                   ELSE m \in q.listed \/ q.rows[m].available

Inserted(q) == {m \in q.listed : q.rows[m].source = "none"}

Merged(q, m) ==
  IF m \in Inserted(q) THEN [source |-> "provider", available |-> TRUE]
  ELSE [source |-> models[m].source,
        available |-> Stored(models[m].available, q.rows[m].available, Available(q, m))]

\* UniqueConstraint("account_id", "provider_model_id"), and the health check
\* refers to the credential.
ModelsAccepted(q) == Present(q.cred) /\ \A m \in Inserted(q) : models[m].source = "none"

ModelsCommit(x) ==
  LET q == req[x] IN
  /\ q.kind = "models" /\ q.answer = "listed" /\ ModelsAccepted(q)
  /\ models' = [m \in Models |-> Merged(q, m)]
  /\ run' = [run EXCEPT !["models"] = "completed"]
  /\ history' = history \cup {q.cred}
  /\ GoesOn(x, q.seen)
  /\ UNCHANGED <<provider, account, cred, usage, today>>

ModelsRefused(x) ==
  /\ req[x].kind = "models" /\ req[x].answer = "listed" /\ ~ModelsAccepted(req[x])
  /\ End(x)
  /\ UNCHANGED <<apiTables, today>>

ManualModelLoad(x, m) ==
  /\ account # "absent"
  /\ Begin(x, Plain("manual", NoCred, NoKey, "none", "absent", {m}, models))
  /\ UNCHANGED <<apiTables, today>>

\* The row that an administrator's entry leaves.
Entered(q, m) ==
  IF q.rows[m].source = "none" THEN [source |-> "manual", available |-> TRUE]
  ELSE [source |-> models[m].source,
        available |-> Stored(models[m].available, q.rows[m].available, TRUE)]

ManualModelCommit(x, m) ==
  LET q == req[x] IN
  /\ q.kind = "manual" /\ q.listed = {m}
  /\ models' = IF q.rows[m].source = "none" /\ models[m].source # "none" THEN models
               ELSE [models EXCEPT ![m] = Entered(q, m)]
  /\ End(x)
  /\ UNCHANGED <<provider, account, cred, usage, history, run, today>>

(***************************************************************************)
(* Usage.  UniqueConstraint("account_id", "provider_record_id").           *)
(***************************************************************************)
NewRecords(q) == q.records \ q.ids
UsageAccepted(q) == \A r \in NewRecords(q) : usage[r] = 0

UsageCommit(x) ==
  LET q == req[x] IN
  /\ q.kind = "usage" /\ q.answer = "listed" /\ UsageAccepted(q)
  /\ usage' = [r \in RecordIds |-> IF r \in NewRecords(q) THEN usage[r] + 1 ELSE usage[r]]
  /\ run' = [run EXCEPT !["usage"] = "completed"]
  /\ GoesOn(x, q.seen)
  /\ UNCHANGED <<provider, account, cred, models, history, today>>

UsageRefused(x) ==
  /\ req[x].kind = "usage" /\ req[x].answer = "listed" /\ ~UsageAccepted(req[x])
  /\ End(x)
  /\ UNCHANGED <<apiTables, today>>

\* Usage entered by hand refers to a credential of the account, or to none.
ManualUsage(c) ==
  /\ account # "absent"
  /\ c \in Creds => Present(c)
  /\ history' = history \cup {c}
  /\ UNCHANGED <<provider, account, cred, models, usage, run, req, today>>
=============================================================================
