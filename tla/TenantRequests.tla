-------------------------- MODULE TenantRequests --------------------------
(***************************************************************************)
(* Requests to the management API of one tenant, each in a transaction of  *)
(* its own (middleware/tenant_tx.go, database/querier.go): Auth, Audit and *)
(* TenantTx around the statements of the handlers, READ COMMITTED, row     *)
(* locks, clients that go away and servers that die.                       *)
(***************************************************************************)
EXTENDS TenantHandlers, FiniteSets

CONSTANTS
  MaxRequests,    \* bound: requests that are sent
  MaxConcurrent,  \* bound: of them, in progress at a time
  MaxFaults,      \* bound: disconnects, crashes and errors of the database
  MaxLoad         \* bound: requests and faults together

ASSUME RequestBounds ==
  /\ MaxRequests \in Nat /\ MaxConcurrent \in Nat
  /\ MaxFaults \in Nat /\ MaxLoad \in Nat

VARIABLES
  api,      \* the group of endpoints the requests address; never changes
  db,       \* what is committed: row -> columns
  request,  \* request[r]: the request, its handler and its transaction
  faults

vars == <<api, db, request, faults>>
Requests == 1 .. MaxRequests

\* What is in the tables before the first request.
Seed ==
  [subscribers |->
     Over(Row(Subscriber, [contact |-> "pii", metadata |-> "pii", erased |-> FALSE, by |-> 0]),
          Row(Preference("email", "marketing"), [opted |-> TRUE, by |-> 0])),
   templates |-> Row(Template, [body |-> 0, active |-> TRUE, version |-> 1, published |-> 0]),
   workflows |-> Row(Workflow, [steps |-> 0, active |-> TRUE]),
   dlt |-> Row(DLTTemplate, [status |-> 0, pe_id |-> 0, sender_id |-> 0]),
   providers |-> Row(Provider, [config |-> 0, priority |-> 0, is_active |-> 0]),
   keys |-> Row(APIKey, [revoked |-> FALSE])]

Get(name) == [name |-> name, method |-> "GET", key |-> "master"]
Post(name) == [name |-> name, method |-> "POST", key |-> "master"]
PostWith(name, arg) == [name |-> name, method |-> "POST", key |-> "master", arg |-> arg]
Prefer(choices) == PostWith("UpdatePreferences", choices)
Link(channel) == [name |-> "Unsubscribe", method |-> "GET", channel |-> channel]

EmailOn == Choice("email", "all", TRUE)
AllOff == Choice("all", "all", FALSE)

\* The requests of each group, with the parameters that make a difference.
Operations ==
  [subscribers |->
     {Get(n) : n \in {"GetPreferences", "ListSubscribers", "GetSubscriber",
                      "ExportSubscriberData"}}
       \cup {Post(n) : n \in {"CreateSubscriber", "UpdateSubscriber", "DeleteSubscriber"}}
       \cup {Prefer(<<EmailOn, AllOff>>), Prefer(<<AllOff, EmailOn>>)}
       \cup {Link("all"), Link("email")},
   templates |->
     {Get("GetTemplate")}
       \cup {Post(n) : n \in {"DeleteTemplate", "PublishTemplate"}}
       \cup {PostWith("CreateTemplate", announce) : announce \in BOOLEAN}
       \cup {PostWith("UpdateTemplate", given) : given \in {"keep", "on", "off", "announce"}},
   workflows |->
     {Get(n) : n \in {"ListWorkflows", "GetWorkflow", "ListWorkflowRuns"}}
       \cup {Post(n) : n \in {"CreateWorkflow", "UpdateWorkflow", "ArchiveWorkflow",
                              "ActivateWorkflow", "PauseWorkflow"}},
   dlt |->
     {Get("ListDLTTemplates")}
       \cup {Post(n) : n \in {"RegisterDLTTemplate", "DeleteDLTTemplate"}}
       \cup {PostWith("UpdateDLTTemplate", s) : s \in BOOLEAN},
   providers |->
     {Get("ListProviders")}
       \cup {Post(n) : n \in {"CreateProvider", "DeleteProvider"}}
       \cup {PostWith("UpdateProvider", body) : body \in ProviderBodies},
   keys |->
     {[Get("ListAPIKeys") EXCEPT !.key = k] : k \in {"master", "scoped"}}
       \cup {[Post(n) EXCEPT !.key = k] :
               n \in {"CreateAPIKey", "RevokeAPIKey"}, k \in {"master", "scoped"}}]

\* The statements of request r, given the rows it has read.
Program(r, op, seen) ==
  CASE op.name = "GetPreferences" -> GetPreferences
    [] op.name = "ListSubscribers" -> ListSubscribers
    [] op.name = "GetSubscriber" -> GetSubscriber
    [] op.name = "ExportSubscriberData" -> ExportSubscriberData
    [] op.name = "CreateSubscriber" -> CreateSubscriber(r)
    [] op.name = "UpdateSubscriber" -> UpdateSubscriber(r, seen)
    [] op.name = "DeleteSubscriber" -> EraseSubscriber
    [] op.name = "UpdatePreferences" -> UpdatePreferences(r, op.arg)
    [] op.name = "Unsubscribe" -> Unsubscribe(r, op.channel)
    [] op.name = "GetTemplate" -> GetTemplate
    [] op.name = "CreateTemplate" -> CreateTemplate(r, op.arg)
    [] op.name = "UpdateTemplate" -> UpdateTemplate(r, op.arg, seen)
    [] op.name = "DeleteTemplate" -> DeleteTemplate
    [] op.name = "PublishTemplate" -> PublishTemplate(seen)
    [] op.name = "ListWorkflows" -> ListWorkflows
    [] op.name = "GetWorkflow" -> GetWorkflow
    [] op.name = "ListWorkflowRuns" -> ListWorkflowRuns
    [] op.name = "CreateWorkflow" -> CreateWorkflow(r)
    [] op.name = "UpdateWorkflow" -> UpdateWorkflow(r, seen)
    [] op.name = "ActivateWorkflow" -> ActivateWorkflow
    [] op.name \in {"ArchiveWorkflow", "PauseWorkflow"} -> DeactivateWorkflow
    [] op.name = "ListDLTTemplates" -> ListDLTTemplates
    [] op.name = "RegisterDLTTemplate" -> RegisterDLTTemplate(r)
    [] op.name = "UpdateDLTTemplate" -> UpdateDLTTemplate(r, op.arg)
    [] op.name = "DeleteDLTTemplate" -> DeleteDLTTemplate
    [] op.name = "ListProviders" -> ListProviders
    [] op.name = "CreateProvider" -> CreateProvider(r)
    [] op.name = "UpdateProvider" -> UpdateProvider(r, op.arg)
    [] op.name = "DeleteProvider" -> DeleteProvider
    [] op.name = "ListAPIKeys" -> ListAPIKeys
    [] op.name = "CreateAPIKey" -> CreateAPIKey(r)
    [] op.name = "RevokeAPIKey" -> RevokeAPIKey

-----------------------------------------------------------------------------
NotSent == [pc |-> "not sent"]
Phases == {"not sent", "run", "settle", "audit", "answer", "done"}
Statuses == {"ok", "unauthorized", "not found", "error", "lost"}

Init ==
  /\ api \in DOMAIN Seed
  /\ db = Seed[api]
  /\ request = [r \in Requests |-> NotSent]
  /\ faults = 0

At(r, pc) == request[r].pc = pc
Become(r, state) == request' = [request EXCEPT ![r] = state]
Sent == {r \in Requests : ~At(r, "not sent")}
InProgress == {r \in Sent : ~At(r, "done")}
BelowLoad == Cardinality(Sent) + faults < MaxLoad
Fault == faults < MaxFaults /\ BelowLoad /\ faults' = faults + 1
Public(op) == op.name = "Unsubscribe"

Deleted == [deleted |-> TRUE]
Exists(view, row) == row \in DOMAIN view /\ view[row] # Deleted

\* What a statement of r sees: what is committed, and its own writes.
View(r) == Over(request[r].writes, db)
Locked(r, row) ==
  \E other \in InProgress \ {r} : row \in DOMAIN request[other].writes

Statements(r) == Program(r, request[r].op, Over(request[r].seen, Seed[api]))
Current(r) == Statements(r)[request[r].at]
InStatement(r) == At(r, "run") /\ request[r].at <= Len(Statements(r))

Matches(view, st) ==
  /\ Exists(view, st.row)
  /\ \A c \in DOMAIN st.where : view[st.row][c] = st.where[c]

\* LookupTenantByKey: the key is that of a row not revoked, or the tenant's own.
Authenticated(op) ==
  Public(op) \/ op.key = "master" \/ ~db[APIKey].revoked

-----------------------------------------------------------------------------
(* A request arrives: Auth, then TenantTx begins a transaction.  Requests   *)
(* are numbered in the order in which that happens.                         *)

Arrive(r) ==
  /\ At(r, "not sent") /\ \A s \in 1 .. r - 1 : s \in Sent
  /\ Cardinality(InProgress) < MaxConcurrent /\ BelowLoad
  /\ \E op \in Operations[api] :
       Become(r, [pc |-> IF Authenticated(op) THEN "run" ELSE "answer", op |-> op,
                  at |-> 1, seen |-> None, writes |-> None, gone |-> FALSE,
                  aborted |-> FALSE, committed |-> FALSE, audited |-> "no",
                  status |-> IF Authenticated(op) THEN "ok" ELSE "unauthorized"])
  /\ UNCHANGED <<api, db, faults>>

GoOn(state) == [state EXCEPT !.at = @ + 1]
Refuse(state, status) == [state EXCEPT !.pc = "settle", !.status = status, !.seen = None]
NotFound(state, st) ==
  IF st.check = "found" THEN Refuse(state, "not found") ELSE GoOn(state)

\* BEGIN or set_config fails.
BeginFails(r) ==
  /\ Fault
  /\ At(r, "run") /\ request[r].at = 1
  /\ Become(r, Refuse(request[r], "error"))
  /\ UNCHANGED <<api, db>>

\* Mutant of Failed: Postgres would forget the error.
FailedAlone(state, st) ==
  IF st.check = "ignored" THEN GoOn(state)
  ELSE Refuse(state, IF st.check = "found" THEN "not found" ELSE "error")

\* The handler after an error of a statement that was sent: it aborts the
\* transaction.
Failed(state, st) ==
  LET after == [state EXCEPT !.aborted = TRUE]
  IN  IF st.check = "ignored" THEN GoOn(after)
      ELSE Refuse(after, IF st.check = "found" THEN "not found" ELSE "error")

CanRun(r) == InStatement(r) /\ ~request[r].gone /\ ~request[r].aborted

\* SELECT: rows of the table, as they are now; no lock is waited for.
Read(r) ==
  /\ CanRun(r) /\ Current(r).do = "select"
  /\ LET st == Current(r)
         rows == {row \in DOMAIN View(r) : row[1] = st.row[1] /\ Exists(View(r), row)}
         state == [request[r] EXCEPT !.seen = Over([row \in rows |-> View(r)[row]], @)]
     IN  Become(r, IF Exists(View(r), st.row) THEN GoOn(state) ELSE NotFound(state, st))
  /\ UNCHANGED <<api, db, faults>>

\* INSERT, UPDATE, upsert, DELETE: once no other transaction has a lock on the
\* row, and on the row as it is then.
Write(r) ==
  /\ CanRun(r) /\ Current(r).do # "select" /\ ~Locked(r, Current(r).row)
  /\ LET st == Current(r)
         view == View(r)
         Put(columns) == GoOn([request[r] EXCEPT !.writes = Over(Row(st.row, columns), @)])
     IN  Become(r,
           CASE st.do = "delete" ->
                  IF Matches(view, st) THEN Put(Deleted) ELSE NotFound(request[r], st)
             [] st.do = "update" ->
                  IF Matches(view, st) THEN Put(Over(st.set, view[st.row]))
                  ELSE NotFound(request[r], st)
             [] st.do = "upsert" -> Put(st.set)
             [] st.do = "insert" ->
                  IF Exists(view, st.row) THEN Failed(request[r], st) ELSE Put(st.set))
  /\ UNCHANGED <<api, db, faults>>

\* The context of the request is cancelled, or the transaction is aborted: no
\* statement gets through any more.
Useless(r) ==
  /\ InStatement(r) /\ (request[r].gone \/ request[r].aborted)
  /\ Become(r, Failed(request[r], Current(r)))
  /\ UNCHANGED <<api, db, faults>>

\* An error of the database.
StatementFails(r) ==
  /\ Fault
  /\ CanRun(r)
  /\ Become(r, Failed(request[r], Current(r)))
  /\ UNCHANGED <<api, db>>

WaitsFor(r, other) ==
  /\ CanRun(r) /\ other # r /\ other \in InProgress /\ Current(r).do # "select"
  /\ Current(r).row \in DOMAIN request[other].writes

\* Mutant of DeadlockDetected.
NoDeadlockDetection(r) == FALSE /\ UNCHANGED vars

\* Two transactions wait for each other: Postgres fails one of them.
DeadlockDetected(r) ==
  /\ \E other \in Requests : WaitsFor(r, other) /\ WaitsFor(other, r)
  /\ Become(r, Failed(request[r], Current(r)))
  /\ UNCHANGED <<api, db, faults>>

\* The handler has sent all its statements, and writes its response.
Return(r) ==
  /\ At(r, "run") /\ request[r].at > Len(Statements(r))
  /\ Become(r, [request[r] EXCEPT !.pc = "settle"])
  /\ UNCHANGED <<api, db, faults>>

-----------------------------------------------------------------------------
(* After the handler: TenantTx commits or rolls back, Audit writes its row, *)
(* net/http sends the response it has buffered.                             *)

\* The request without its transaction.  RunInTenant gives the public handler
\* the error of the commit; TenantTx drops it.
Settled(r, committed, reported) ==
  [request[r] EXCEPT
     !.pc = IF Public(request[r].op) THEN "answer" ELSE "audit",
     !.seen = None, !.writes = None, !.committed = committed,
     !.status = IF Public(request[r].op) /\ ~reported /\ @ = "ok" THEN "error" ELSE @]

\* Mutant of Commit: whatever the response was.
CommitAlways(r) ==
  /\ At(r, "settle")
  /\ db' = View(r)
  /\ Become(r, Settled(r, TRUE, TRUE))
  /\ UNCHANGED <<api, faults>>

Commit(r) ==
  /\ At(r, "settle") /\ request[r].status = "ok"
  /\ IF request[r].aborted \/ request[r].gone
     THEN UNCHANGED db /\ Become(r, Settled(r, FALSE, FALSE))
     ELSE db' = View(r) /\ Become(r, Settled(r, TRUE, TRUE))
  /\ UNCHANGED <<api, faults>>

\* The reply to COMMIT is an error, whether or not it was executed.
CommitFails(r) ==
  /\ Fault
  /\ At(r, "settle") /\ request[r].status = "ok"
  /\ ~request[r].aborted /\ ~request[r].gone
  /\ \/ UNCHANGED db /\ Become(r, Settled(r, FALSE, FALSE))
     \/ db' = View(r) /\ Become(r, Settled(r, TRUE, FALSE))
  /\ UNCHANGED api

\* Mutant of Rollback: the deferred tx.Rollback is forgotten.
LeaveOpen(r) ==
  /\ At(r, "settle") /\ request[r].status # "ok"
  /\ Become(r, [Settled(r, FALSE, TRUE) EXCEPT !.writes = request[r].writes])
  /\ UNCHANGED <<api, db, faults>>

Rollback(r) ==
  /\ At(r, "settle") /\ request[r].status # "ok"
  /\ Become(r, Settled(r, FALSE, TRUE))
  /\ UNCHANGED <<api, db, faults>>

\* Mutant of Audit: on the context of the request.
AuditOnRequestContext(r) ==
  /\ At(r, "audit")
  /\ Become(r, [request[r] EXCEPT !.pc = "answer",
       !.audited = IF request[r].op.method = "GET" \/ request[r].gone THEN "no" ELSE "yes"])
  /\ UNCHANGED <<api, db, faults>>

\* A row for what is no GET, in a transaction of its own and on a context that
\* is not cancelled with the request.
Audit(r) ==
  /\ At(r, "audit")
  /\ Become(r, [request[r] EXCEPT !.pc = "answer",
                  !.audited = IF request[r].op.method = "GET" THEN "no" ELSE "yes"])
  /\ UNCHANGED <<api, db, faults>>

AuditFails(r) ==
  /\ Fault
  /\ At(r, "audit") /\ request[r].op.method # "GET"
  /\ Become(r, [request[r] EXCEPT !.pc = "answer", !.audited = "failed"])
  /\ UNCHANGED <<api, db>>

\* What is left of a request at its end.
Ended(r, status) ==
  [request[r] EXCEPT !.pc = "done", !.status = status, !.seen = None, !.writes = None,
                     !.at = 0, !.gone = FALSE, !.aborted = FALSE]

Answer(r) ==
  /\ At(r, "answer")
  /\ Become(r, Ended(r, IF request[r].gone THEN "lost" ELSE request[r].status))
  /\ UNCHANGED <<api, db, faults>>

\* The client goes away; net/http cancels the context of the request.
Disconnect(r) ==
  /\ Fault
  /\ r \in InProgress /\ ~request[r].gone
  /\ Become(r, [request[r] EXCEPT !.gone = TRUE])
  /\ UNCHANGED <<api, db>>

\* The server dies; Postgres rolls its transaction back.
Crash(r) ==
  /\ Fault
  /\ r \in InProgress
  /\ Become(r, Ended(r, "lost"))
  /\ UNCHANGED <<api, db>>

-----------------------------------------------------------------------------
Handle(r) ==
  \/ Read(r) \/ Write(r) \/ Useless(r) \/ DeadlockDetected(r) \/ Return(r)
  \/ Commit(r) \/ Rollback(r) \/ Audit(r) \/ Answer(r)

Next ==
  \E r \in Requests :
    \/ Arrive(r) \/ Handle(r)
    \/ BeginFails(r) \/ StatementFails(r) \/ CommitFails(r) \/ AuditFails(r)
    \/ Disconnect(r) \/ Crash(r)

\* The servers run, and Postgres with them: as long as a handler can go on,
\* one does.
Spec == Init /\ [][Next]_vars /\ WF_vars(\E r \in Requests : Handle(r))
-----------------------------------------------------------------------------
\* Locks and rows read end with the transaction, and no two transactions have
\* written one row.
TypeOK ==
  /\ api \in DOMAIN Seed /\ faults \in 0 .. MaxFaults
  /\ \A r \in Requests : request[r].pc \in Phases
  /\ \A r \in Sent :
       /\ request[r].op \in Operations[api] /\ request[r].status \in Statuses
       /\ request[r].audited \in {"no", "yes", "failed"}
       /\ ~At(r, "run") /\ ~At(r, "settle") => request[r].writes = None /\ request[r].seen = None
       /\ \A row \in DOMAIN request[r].writes : ~Locked(r, row)

\* "The tx commits on a <400 response and rolls back otherwise"
\* (tenant_tx.go:18): a refused request has changed nothing, and of statements
\* whose errors the handler drops, none is committed without the others, unless
\* the one that is missing was not sent (a priority beyond int4,
\* providers.go:132).
RequestsAreAtomic ==
  /\ \A r \in Sent :
       request[r].status \in {"unauthorized", "not found", "error"} /\ ~Public(request[r].op)
         => ~request[r].committed
  /\ Exists(db, DLTTemplate) => db[DLTTemplate].pe_id = db[DLTTemplate].sender_id
  /\ Exists(db, Provider) /\ db[Provider].priority # db[Provider].is_active
       => request[db[Provider].is_active].op.arg.priority = "too large"

\* Unless a fault intervenes, a client that is told of success finds what it
\* asked for committed, even if its statements ran into a deadlock or a
\* duplicate.
AnsweredMeansCommitted ==
  faults = 0 =>
    \A r \in Sent : At(r, "done") /\ request[r].status = "ok" => request[r].committed

Choices(view) ==
  {Choice(row[2], row[3], view[row].opted) :
     row \in {p \in DOMAIN view : p[1] = "preferences" /\ view[p].by # 0}}
Entries(view) == {row \in DOMAIN view : row[1] = "consent_ledger"}
Backed(view) == \A c \in Choices(view) : \E e \in Entries(view) : view[e].choice = c

\* An export that races with changes of the preferences shows no choice whose
\* history it does not show (subscribers.go:286: "the current preference
\* matrix, and the full consent history").
ExportIsBacked ==
  \A r \in Sent :
    At(r, "run") /\ request[r].op.name = "ExportSubscriberData"
      /\ request[r].at > Len(Statements(r)) /\ ~request[r].aborted
      => Backed(request[r].seen)

\* "Every consent change (opt-in / opt-out) appends a row here"
\* (0017_create_consent_ledger.up.sql:1), although the error of the append is
\* dropped: a choice in force is in the ledger with the request that made it,
\* the ledger has only choices that were made, and exports agree with it.
ConsentIsOnRecord ==
  /\ \A p \in {p \in DOMAIN db : p[1] = "preferences" /\ db[p].by # 0} :
       \E e \in Entries(db) :
         e[2] = db[p].by /\ db[e].choice = Choice(p[2], p[3], db[p].opted)
  /\ \A e \in Entries(db) : request[e[2]].committed
  /\ ExportIsBacked

\* However updates and publications of a template overlap, the version it says
\* is published is one it has had, unless a client's own metadata says otherwise
\* (templates.go:144, 218).
PublishedVersionExists ==
  \A row \in DOMAIN db :
    row[1] = "templates"
      => db[row].published <= db[row].version \/ db[row].published = Foreign

\* What has been ended stays ended, whichever request is in progress meanwhile:
\* an update that has read the subscriber before its erasure brings neither the
\* address nor the account back, only an activation makes an archived workflow
\* active again, and of several revocations of a key one succeeds and the
\* others are told "not found or already revoked" (apikeys.go:125).
ErasedStaysErased ==
  [][\A row \in DOMAIN db :
       row[1] = "subscribers" /\ db[row].erased
         => db'[row].erased /\ db'[row].contact = "none"]_vars

OnlyActivationActivates ==
  [][\A row \in DOMAIN db :
       row[1] = "workflows" /\ ~db[row].active /\ db'[row].active
         => \E r \in Sent : request[r].op.name = "ActivateWorkflow"
                             /\ ~request[r].committed /\ request'[r].committed]_vars

RevokedOnce ==
  Cardinality({r \in Sent : request[r].op.name = "RevokeAPIKey" /\ request[r].committed}) <= 1

EndedStaysEnded == ErasedStaysErased /\ OnlyActivationActivates /\ []RevokedOnce

\* "records every mutating (non-GET) request ... so it still records even if
\* the client disconnects" (audit.go:17), whatever became of the request.
MutationsAreAudited ==
  \A r \in Sent :
    At(r, "answer") =>
      \/ request[r].op.method = "GET" \/ request[r].status = "unauthorized"
      \/ request[r].audited \in {"yes", "failed"}

\* "Unsubscribe sets is_opted_in = false for all channels" (preferences.go:63):
\* who has been told "unsubscribed", and has not chosen anything else since,
\* gets no message.
UnsubscribeHolds ==
  \A r \in Sent :
    /\ request[r].op = Link("all") /\ At(r, "done") /\ request[r].status = "ok"
    /\ \A s \in Sent : request[s].op.name # "UpdatePreferences"
    => ~IsOptedIn(db, "email", "marketing") /\ ~IsOptedIn(db, "sms", "marketing")

\* Every request is answered: no lock is waited for for ever.
RequestsEnd == InProgress # {} ~> InProgress = {}
=============================================================================
