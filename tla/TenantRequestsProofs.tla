------------------------ MODULE TenantRequestsProofs ------------------------
(***************************************************************************)
(* Theorems about TenantRequests, for any number of requests, in progress  *)
(* at a time or not, and of faults.  What a step does to its request is    *)
(* one of a dozen moves; the invariants are proved of the moves: types,    *)
(* rows and audits first, then what requests commit: what has been ended   *)
(* stays ended, dropped errors split no request, success that is answered  *)
(* is committed, and consent is on record.                                 *)
(***************************************************************************)
EXTENDS TenantRequests, FiniteSetTheorems, TLAPS

Fields == {"pc", "op", "at", "seen", "writes", "gone", "aborted", "committed", "audited",
           "status"}

\* A request that has been sent: what it holds, and where it can be with it.
Shape(s) ==
  /\ DOMAIN s = Fields
  /\ s.pc \in Phases \ {"not sent"} /\ s.op \in Operations[api] /\ s.at \in Nat
  /\ s.pc = "run" => s.at # 0
  /\ s.gone \in BOOLEAN /\ s.aborted \in BOOLEAN /\ s.committed \in BOOLEAN
  /\ s.audited \in {"no", "yes", "failed"} /\ s.status \in Statuses
  /\ s.pc \in {"run", "settle"} \/ (s.writes = None /\ s.seen = None)
  /\ s.pc \in {"run", "settle"} => ~s.committed /\ s.audited = "no"
  /\ s.pc = "run" => s.status = "ok"
  /\ s.pc # "done" => s.status # "lost"
  /\ s.committed => s.status \in {"ok", "lost"} \/ Public(s.op)
  /\ s.pc = "answer" =>
       \/ s.op.method = "GET" \/ s.status = "unauthorized"
       \/ s.audited \in {"yes", "failed"}

\* No two transactions have written one row.
Apart(r, s) == DOMAIN request[r].writes \cap DOMAIN request[s].writes = {}

Base ==
  /\ api \in DOMAIN Seed /\ faults \in 0 .. MaxFaults
  /\ DOMAIN request = Requests
  /\ \A r \in Sent : Shape(request[r])
  /\ \A r, s \in InProgress : r # s => Apart(r, s)

-----------------------------------------------------------------------------
(* Moves: o is the request before the step, n after it.                     *)

Same(o, n) == n.op = o.op /\ n.audited = o.audited /\ n.committed = o.committed
SameData(o, n) == Same(o, n) /\ n.writes = o.writes

Arrives(r, n) ==
  /\ request[r].pc = "not sent"
  /\ \/ n.pc = "run" /\ n.status = "ok"
     \/ n.pc = "answer" /\ n.status = "unauthorized"
  /\ n.at = 1 /\ n.seen = None /\ n.writes = None
  /\ ~n.gone /\ ~n.aborted /\ ~n.committed
  /\ UNCHANGED <<db, faults>>

\* The handler refuses the request.
Refuses(r, n) ==
  /\ request[r].pc = "run"
  /\ n.pc = "settle" /\ n.status \in {"not found", "error"} /\ n.seen = None
  /\ SameData(request[r], n)
  /\ UNCHANGED db

\* An error that the handler drops.
Skips(r, n) ==
  /\ InStatement(r) /\ Current(r).check = "ignored"
  /\ n.pc = "run" /\ n.status = "ok" /\ n.at = request[r].at + 1 /\ n.aborted
  /\ n.seen = request[r].seen /\ n.gone = request[r].gone
  /\ SameData(request[r], n)
  /\ UNCHANGED db
  /\ \/ request[r].aborted \/ request[r].gone \/ faults' = faults + 1
     \/ Current(r).do = "insert" /\ Exists(View(r), Current(r).row)
     \/ \E other \in Requests : WaitsFor(r, other) /\ WaitsFor(other, r)

\* A statement that has no effect.
Passes(r, n) ==
  /\ CanRun(r) /\ Current(r).do \in {"update", "delete"} /\ ~Matches(View(r), Current(r))
  /\ Current(r).check # "found"
  /\ n.pc = "run" /\ n.status = "ok" /\ n.at = request[r].at + 1 /\ ~n.aborted /\ ~n.gone
  /\ n.seen = request[r].seen
  /\ SameData(request[r], n)
  /\ UNCHANGED <<db, faults>>

Reads(r, n) ==
  /\ CanRun(r) /\ Current(r).do = "select"
  /\ n.pc = "run" /\ n.status = "ok" /\ n.at = request[r].at + 1 /\ ~n.aborted /\ ~n.gone
  /\ LET rows == {row \in DOMAIN View(r) : row[1] = Current(r).row[1] /\ Exists(View(r), row)}
     IN  n.seen = Over([row \in rows |-> View(r)[row]], request[r].seen)
  /\ SameData(request[r], n)
  /\ UNCHANGED <<db, faults>>

\* A statement that writes its row.
Puts(r, n) ==
  /\ CanRun(r) /\ ~Locked(r, Current(r).row)
  /\ n.pc = "run" /\ n.status = "ok" /\ n.at = request[r].at + 1 /\ ~n.aborted /\ ~n.gone
  /\ n.seen = request[r].seen
  /\ Same(request[r], n)
  /\ \E columns :
       /\ n.writes = Over(Row(Current(r).row, columns), request[r].writes)
       /\ LET st == Current(r)
          IN  \/ st.do = "delete" /\ Matches(View(r), st) /\ columns = Deleted
              \/ /\ st.do = "update" /\ Matches(View(r), st)
                 /\ columns = Over(st.set, View(r)[st.row])
              \/ st.do = "upsert" /\ columns = st.set
              \/ st.do = "insert" /\ ~Exists(View(r), st.row) /\ columns = st.set
  /\ UNCHANGED <<db, faults>>

Returns(r, n) ==
  /\ request[r].pc = "run" /\ request[r].at > Len(Statements(r))
  /\ n.pc = "settle" /\ n.status = "ok" /\ n.at = request[r].at
  /\ n.aborted = request[r].aborted /\ n.gone = request[r].gone
  /\ n.seen = request[r].seen
  /\ SameData(request[r], n)
  /\ UNCHANGED <<db, faults>>

Commits(r, n) ==
  /\ request[r].pc = "settle" /\ request[r].status = "ok"
  /\ ~request[r].aborted /\ ~request[r].gone
  /\ n.pc \in {"audit", "answer"} /\ n.committed /\ n.op = request[r].op
  /\ n.writes = None
  /\ db' = View(r)

\* The transaction is rolled back.
Drops(r, n) ==
  /\ request[r].pc = "settle"
  /\ request[r].status = "ok" => request[r].aborted \/ request[r].gone \/ faults' = faults + 1
  /\ n.pc \in {"audit", "answer"} /\ ~n.committed /\ n.op = request[r].op
  /\ n.status \in {request[r].status, "error"}
  /\ n.writes = None
  /\ UNCHANGED db

\* The audit row, and the answer.
Audits(r, n) ==
  /\ request[r].pc = "audit" /\ n.pc = "answer"
  /\ n.status = request[r].status /\ n.op = request[r].op /\ n.committed = request[r].committed
  /\ n.writes = None
  /\ UNCHANGED db

Ends(r, n) ==
  /\ r \in InProgress /\ n.pc = "done"
  /\ n.status = "lost" \/ (request[r].pc = "answer" /\ n.status = request[r].status)
  /\ n.op = request[r].op /\ n.committed = request[r].committed
  /\ n.writes = None
  /\ UNCHANGED db

\* The client goes away.
Leaves(r, n) ==
  /\ r \in InProgress
  /\ n.pc = request[r].pc /\ n.status = request[r].status /\ n.at = request[r].at
  /\ n.seen = request[r].seen /\ n.aborted = request[r].aborted /\ n.gone
  /\ SameData(request[r], n)
  /\ faults' = faults + 1
  /\ UNCHANGED db

Moves(r, n) ==
  \/ Arrives(r, n) \/ Refuses(r, n) \/ Skips(r, n) \/ Passes(r, n) \/ Reads(r, n)
  \/ Puts(r, n) \/ Returns(r, n) \/ Commits(r, n) \/ Drops(r, n) \/ Audits(r, n)
  \/ Ends(r, n) \/ Leaves(r, n)

\* What a step does, seen from its request.
Step(r, n) ==
  /\ Become(r, n) /\ Shape(n) /\ Moves(r, n)
  /\ api' = api /\ faults' \in {faults, faults + 1} /\ faults' <= MaxFaults

-----------------------------------------------------------------------------
\* A public endpoint is a GET.
LEMMA PublicIsGet ==
  ASSUME api \in DOMAIN Seed, NEW op \in Operations[api], Public(op)
  PROVE  op.method = "GET"
  <1>1. api \in {"subscribers", "templates", "workflows", "dlt", "providers", "keys"}
    BY DEF Seed
  <1> QED BY <1>1 DEF Operations, Public, Get, Post, PostWith, Prefer, Link

LEMMA FaultFacts ==
  ASSUME Base
  PROVE  faults \in Nat /\ MaxFaults \in Nat /\ faults <= MaxFaults
  <1>1. faults \in 0 .. MaxFaults BY DEF Base
  <1> QED BY <1>1, RequestBounds

LEMMA SentFacts ==
  ASSUME Base, NEW r \in Requests, request[r].pc # "not sent"
  PROVE  Shape(request[r]) /\ faults \in Nat /\ MaxFaults \in Nat /\ faults <= MaxFaults
  <1>1. Shape(request[r]) BY DEF Base, Sent, At
  <1> QED BY <1>1, FaultFacts

-----------------------------------------------------------------------------
(* The handlers: the requests of each group, and the statements they send.  *)

LEMMA SubscriberOperations ==
  ASSUME api = "subscribers", NEW op \in Operations[api]
  PROVE  /\ op.name \in {"GetPreferences", "ListSubscribers", "GetSubscriber",
                         "ExportSubscriberData", "CreateSubscriber", "UpdateSubscriber",
                         "DeleteSubscriber", "UpdatePreferences", "Unsubscribe"}
         /\ op.name = "UpdatePreferences" => op.arg \in {<<EmailOn, AllOff>>, <<AllOff, EmailOn>>}
         /\ op.name = "Unsubscribe" => op.channel \in {"all", "email"}
  BY DEF Operations, Get, Post, Prefer, PostWith, Link

LEMMA TemplateOperations ==
  ASSUME api = "templates", NEW op \in Operations[api]
  PROVE  op.name \in {"GetTemplate", "CreateTemplate", "DeleteTemplate", "PublishTemplate",
                      "UpdateTemplate"}
  BY DEF Operations, Get, Post, PostWith

LEMMA WorkflowOperations ==
  ASSUME api = "workflows", NEW op \in Operations[api]
  PROVE  op.name \in {"ListWorkflows", "GetWorkflow", "ListWorkflowRuns", "CreateWorkflow",
                      "UpdateWorkflow", "ArchiveWorkflow", "ActivateWorkflow", "PauseWorkflow"}
  BY DEF Operations, Get, Post

LEMMA DltOperations ==
  ASSUME api = "dlt", NEW op \in Operations[api]
  PROVE  /\ op.name \in {"ListDLTTemplates", "RegisterDLTTemplate", "DeleteDLTTemplate",
                         "UpdateDLTTemplate"}
         /\ op.name = "UpdateDLTTemplate" => op.arg \in BOOLEAN
  BY DEF Operations, Get, Post, PostWith

LEMMA ProviderOperations ==
  ASSUME api = "providers", NEW op \in Operations[api]
  PROVE  /\ op.name \in {"ListProviders", "CreateProvider", "DeleteProvider", "UpdateProvider"}
         /\ op.name = "UpdateProvider" =>
              op.arg.config \in BOOLEAN /\ op.arg.priority \in {"int4", "too large"}
  <1>1. /\ op.name \in {"ListProviders", "CreateProvider", "DeleteProvider", "UpdateProvider"}
        /\ op.name = "UpdateProvider" => op.arg \in ProviderBodies
    BY DEF Operations, Get, Post, PostWith
  <1> QED BY <1>1 DEF ProviderBodies

LEMMA KeyOperations ==
  ASSUME api = "keys", NEW op \in Operations[api]
  PROVE  op.name \in {"ListAPIKeys", "CreateAPIKey", "RevokeAPIKey"}
  BY DEF Operations, Get, Post

\* i is the place of a statement in the handler of op.
Sendable(r, op, seen, i) ==
  op \in Operations[api] /\ i \in Nat \ {0} /\ i <= Len(Program(r, op, seen))

SubscriberStatement(r, op, seen, i, st) ==
  \/ st.do = "select" /\ st.check \in {"error", "found", "ignored"}
  \/ /\ op.name = "CreateSubscriber" /\ i = 2
     /\ st = CreateSubscriber(r)[2]
  \/ op.name = "UpdateSubscriber" /\ i = 2 /\ st = UpdateSubscriber(r, seen)[2]
  \/ op.name = "DeleteSubscriber" /\ i = 1 /\ st = EraseSubscriber[1]
  \/ /\ op.name \in {"UpdatePreferences", "Unsubscribe"} /\ i \in {1, 3}
     /\ \E channel \in {"all", "email"}, opted \in BOOLEAN :
          st = UpsertPreference(r, Choice(channel, "all", opted))
  \/ /\ op.name \in {"UpdatePreferences", "Unsubscribe"} /\ i \in {2, 4}
     /\ \E channel \in {"all", "email"}, opted \in BOOLEAN,
           source \in {"api", "unsubscribe_link"} :
          st = Record(r, i, Choice(channel, "all", opted), source)

LEMMA SubscriberStatements ==
  ASSUME api = "subscribers", NEW r, NEW op, NEW seen, NEW i, Sendable(r, op, seen, i)
  PROVE  SubscriberStatement(r, op, seen, i, Program(r, op, seen)[i])
  <1> USE DEF Sendable, SubscriberStatement
  <1>1. CASE op.name \in {"GetPreferences", "ListSubscribers", "GetSubscriber",
                          "ExportSubscriberData"}
    <2>1. Program(r, op, seen) \in {GetPreferences, ListSubscribers, GetSubscriber,
                                   ExportSubscriberData}
      BY <1>1 DEF Program
    <2>2. Program(r, op, seen)[i].do = "select"
          /\ Program(r, op, seen)[i].check \in {"error", "found", "ignored"}
      BY <2>1 DEF GetPreferences, ListSubscribers, GetSubscriber, ExportSubscriberData,
                  Select, Statement
    <2> QED BY <2>2
  <1>2. CASE op.name = "CreateSubscriber"
    <2>1. Program(r, op, seen) = CreateSubscriber(r)
      BY <1>2 DEF Program
    <2>2. Len(CreateSubscriber(r)) = 2
      BY DEF CreateSubscriber
    <2>3. CreateSubscriber(r)[1].do = "select" /\ CreateSubscriber(r)[1].check = "ignored"
      BY DEF CreateSubscriber, Select, Statement
    <2>4. i = 1 \/ i = 2
      BY <2>1, <2>2
    <2> QED BY <1>2, <2>1, <2>3, <2>4
  <1>3. CASE op.name = "UpdateSubscriber"
    BY <1>3 DEF Program, UpdateSubscriber, Select, Statement
  <1>4. CASE op.name = "DeleteSubscriber"
    BY <1>4 DEF Program, EraseSubscriber
  <1>5. CASE op.name = "UpdatePreferences"
    <2>1. PICK c1 \in {EmailOn, AllOff}, c2 \in {EmailOn, AllOff} : op.arg = <<c1, c2>>
      BY <1>5, SubscriberOperations
    <2>2. /\ Len(Program(r, op, seen)) = 4
          /\ Program(r, op, seen)[1] = UpsertPreference(r, c1)
          /\ Program(r, op, seen)[2] = Record(r, 2, c1, "api")
          /\ Program(r, op, seen)[3] = UpsertPreference(r, c2)
          /\ Program(r, op, seen)[4] = Record(r, 4, c2, "api")
      BY <1>5, <2>1 DEF Program, UpdatePreferences
    <2>3. /\ EmailOn = Choice("email", "all", TRUE) /\ AllOff = Choice("all", "all", FALSE)
          /\ TRUE \in BOOLEAN /\ FALSE \in BOOLEAN
      BY DEF EmailOn, AllOff
    <2>4. \A c \in {EmailOn, AllOff} : \E channel \in {"all", "email"}, opted \in BOOLEAN :
            c = Choice(channel, "all", opted)
      BY <2>3
    <2>5. CASE i \in {1, 3}
      BY <1>5, <2>2, <2>4, <2>5
    <2>6. CASE i \in {2, 4}
      BY <1>5, <2>2, <2>4, <2>6
    <2> QED BY <2>2, <2>5, <2>6
  <1>6. CASE op.name = "Unsubscribe"
    <2>1. op.channel \in {"all", "email"}
      BY <1>6, SubscriberOperations
    <2>2. /\ Len(Program(r, op, seen)) = 2
          /\ Program(r, op, seen)[1] = UpsertPreference(r, Choice(op.channel, "all", FALSE))
          /\ Program(r, op, seen)[2] =
               Record(r, 2, Choice(op.channel, "all", FALSE), "unsubscribe_link")
      BY <1>6 DEF Program, Unsubscribe
    <2>3. i = 1 \/ i = 2
      BY <2>2
    <2>4. FALSE \in BOOLEAN
      OBVIOUS
    <2> QED BY <1>6, <2>1, <2>2, <2>3, <2>4
  <1> QED BY <1>1, <1>2, <1>3, <1>4, <1>5, <1>6, SubscriberOperations

TemplateStatement(r, op, seen, i, st) ==
  \/ st.do = "select" /\ st.check \in {"error", "found", "ignored"}
  \/ st = CreateTemplate(r, op.arg)[1]
  \/ st = UpdateTemplate(r, op.arg, seen)[2]
  \/ st = PublishTemplate(seen)[2]
  \/ st = DeleteTemplate[1]

LEMMA TemplateStatements ==
  ASSUME api = "templates", NEW r, NEW op, NEW seen, NEW i, Sendable(r, op, seen, i)
  PROVE  TemplateStatement(r, op, seen, i, Program(r, op, seen)[i])
  <1> USE DEF Sendable, TemplateStatement
  <1>1. CASE op.name = "GetTemplate"
    BY <1>1 DEF Program, GetTemplate, Select, Statement
  <1>2. CASE op.name = "CreateTemplate"
    BY <1>2 DEF Program, CreateTemplate
  <1>3. CASE op.name = "UpdateTemplate"
    BY <1>3 DEF Program, UpdateTemplate, Select, Statement
  <1>4. CASE op.name = "DeleteTemplate"
    BY <1>4 DEF Program, DeleteTemplate
  <1>5. CASE op.name = "PublishTemplate"
    BY <1>5 DEF Program, PublishTemplate, Select, Statement
  <1> QED BY <1>1, <1>2, <1>3, <1>4, <1>5, TemplateOperations

WorkflowStatement(r, op, seen, i, st) ==
  \/ st.do = "select" /\ st.check \in {"error", "found", "ignored"}
  \/ st = CreateWorkflow(r)[1]
  \/ st = UpdateWorkflow(r, seen)[2]
  \/ op.name = "ActivateWorkflow" /\ st = ActivateWorkflow[1]
  \/ st = DeactivateWorkflow[1]

LEMMA WorkflowStatements ==
  ASSUME api = "workflows", NEW r, NEW op, NEW seen, NEW i, Sendable(r, op, seen, i)
  PROVE  WorkflowStatement(r, op, seen, i, Program(r, op, seen)[i])
  <1> USE DEF Sendable, WorkflowStatement
  <1>1. CASE op.name \in {"ListWorkflows", "GetWorkflow", "ListWorkflowRuns"}
    <2>1. Program(r, op, seen) \in {ListWorkflows, GetWorkflow, ListWorkflowRuns}
      BY <1>1 DEF Program
    <2> QED BY <2>1 DEF ListWorkflows, GetWorkflow, ListWorkflowRuns, Select, Statement
  <1>2. CASE op.name = "CreateWorkflow"
    BY <1>2 DEF Program, CreateWorkflow
  <1>3. CASE op.name = "UpdateWorkflow"
    BY <1>3 DEF Program, UpdateWorkflow, Select, Statement
  <1>4. CASE op.name = "ActivateWorkflow"
    BY <1>4 DEF Program, ActivateWorkflow
  <1>5. CASE op.name \in {"ArchiveWorkflow", "PauseWorkflow"}
    <2>1. Program(r, op, seen) = DeactivateWorkflow
      BY <1>5 DEF Program
    <2> QED BY <2>1 DEF DeactivateWorkflow
  <1> QED BY <1>1, <1>2, <1>3, <1>4, <1>5, WorkflowOperations

DltStatement(r, op, seen, i, st) ==
  \/ st.do = "select" /\ st.check \in {"error", "found", "ignored"}
  \/ op.name = "RegisterDLTTemplate" /\ i = 1 /\ st = RegisterDLTTemplate(r)[1]
  \/ op.name = "DeleteDLTTemplate" /\ i = 1 /\ st = DeleteDLTTemplate[1]
  \/ /\ op.name = "UpdateDLTTemplate" /\ op.arg /\ i = 1
     /\ st = Update(DLTTemplate, [status |-> r], "found")
  \/ /\ op.name = "UpdateDLTTemplate" /\ i = IF op.arg THEN 2 ELSE 1
     /\ st = Update(DLTTemplate, [pe_id |-> r], "ignored")
  \/ /\ op.name = "UpdateDLTTemplate" /\ i = IF op.arg THEN 3 ELSE 2
     /\ st = Update(DLTTemplate, [sender_id |-> r], "ignored")

LEMMA DltStatements ==
  ASSUME api = "dlt", NEW r, NEW op, NEW seen, NEW i, Sendable(r, op, seen, i)
  PROVE  DltStatement(r, op, seen, i, Program(r, op, seen)[i])
  <1> USE DEF Sendable, DltStatement
  <1>1. CASE op.name = "ListDLTTemplates"
    BY <1>1 DEF Program, ListDLTTemplates, Select, Statement
  <1>2. CASE op.name = "RegisterDLTTemplate"
    BY <1>2 DEF Program, RegisterDLTTemplate
  <1>3. CASE op.name = "DeleteDLTTemplate"
    BY <1>3 DEF Program, DeleteDLTTemplate
  <1>4. CASE op.name = "UpdateDLTTemplate"
    <2>1. op.arg \in BOOLEAN
      BY <1>4, DltOperations
    <2> QED BY <1>4, <2>1 DEF Program, UpdateDLTTemplate
  <1> QED BY <1>1, <1>2, <1>3, <1>4, DltOperations

\* An update of a provider that does not send the priority.
Short(op) == op.name = "UpdateProvider" /\ op.arg.priority # "int4"
UpdateProviderSize(op) ==
  (IF op.arg.config THEN 1 ELSE 0) + (IF Short(op) THEN 0 ELSE 1) + 1

ToConfig(r) == Update(Provider, [config |-> r], "error")
ToPriority(r) == Update(Provider, [priority |-> r], "ignored")
ToActive(r) == Update(Provider, [is_active |-> r], "ignored")

LEMMA UpdateProviderStatements ==
  ASSUME NEW r, NEW op, op.name = "UpdateProvider", op.arg.config \in BOOLEAN
  PROVE  LET program == UpdateProvider(r, op.arg)
         IN  /\ Len(program) = UpdateProviderSize(op) /\ UpdateProviderSize(op) \in 1 .. 3
             /\ ~Short(op) => UpdateProviderSize(op) # 1
             /\ op.arg.config => program[1] = ToConfig(r)
             /\ ~Short(op) => program[IF op.arg.config THEN 2 ELSE 1] = ToPriority(r)
             /\ program[UpdateProviderSize(op)] = ToActive(r)
             /\ \A i \in 1 .. UpdateProviderSize(op) :
                  \/ op.arg.config /\ i = 1
                  \/ ~Short(op) /\ i = IF op.arg.config THEN 2 ELSE 1
                  \/ i = UpdateProviderSize(op)
  <1> DEFINE rest == IF Short(op) THEN <<ToActive(r)>> ELSE <<ToPriority(r), ToActive(r)>>
             program == UpdateProvider(r, op.arg)
  <1>1. program = IF op.arg.config THEN <<ToConfig(r)>> \o rest ELSE rest
    BY DEF UpdateProvider, Short, ToConfig, ToPriority, ToActive
  <1> HIDE DEF program
  <1>2. CASE op.arg.config /\ Short(op)
    <2>1. program = <<ToConfig(r)>> \o <<ToActive(r)>>
      BY <1>1, <1>2
    <2>2. Len(program) = 2 /\ program[1] = ToConfig(r) /\ program[2] = ToActive(r)
      BY <2>1
    <2>3. UpdateProviderSize(op) = 2
      BY <1>2 DEF UpdateProviderSize
    <2> QED BY <1>2, <2>2, <2>3 DEF program
  <1>3. CASE op.arg.config /\ ~Short(op)
    <2>1. program = <<ToConfig(r)>> \o <<ToPriority(r), ToActive(r)>>
      BY <1>1, <1>3
    <2>2. /\ Len(program) = 3 /\ program[1] = ToConfig(r) /\ program[2] = ToPriority(r)
          /\ program[3] = ToActive(r)
      BY <2>1
    <2>3. UpdateProviderSize(op) = 3
      BY <1>3 DEF UpdateProviderSize
    <2> QED BY <1>3, <2>2, <2>3 DEF program
  <1>4. CASE ~op.arg.config
    <2>1. program = rest
      BY <1>1, <1>4
    <2>2. UpdateProviderSize(op) = IF Short(op) THEN 1 ELSE 2
      BY <1>4 DEF UpdateProviderSize
    <2> QED BY <1>4, <2>1, <2>2 DEF program
  <1> QED BY <1>2, <1>3, <1>4

ProviderStatement(r, op, seen, i, st) ==
  \/ st.do = "select" /\ st.check \in {"error", "found", "ignored"}
  \/ op.name = "CreateProvider" /\ i = 1 /\ st = CreateProvider(r)[1]
  \/ op.name = "DeleteProvider" /\ i = 1 /\ st = DeleteProvider[1]
  \/ /\ op.name = "UpdateProvider" /\ op.arg.config /\ i = 1
     /\ st = Update(Provider, [config |-> r], "error")
  \/ /\ op.name = "UpdateProvider" /\ ~Short(op) /\ i = IF op.arg.config THEN 2 ELSE 1
     /\ st = Update(Provider, [priority |-> r], "ignored")
  \/ /\ op.name = "UpdateProvider" /\ i = UpdateProviderSize(op)
     /\ st = Update(Provider, [is_active |-> r], "ignored")

LEMMA ProviderStatements ==
  ASSUME api = "providers", NEW r, NEW op, NEW seen, NEW i, Sendable(r, op, seen, i)
  PROVE  ProviderStatement(r, op, seen, i, Program(r, op, seen)[i])
  <1> USE DEF Sendable, ProviderStatement
  <1>1. CASE op.name = "ListProviders"
    BY <1>1 DEF Program, ListProviders, Select, Statement
  <1>2. CASE op.name = "CreateProvider"
    BY <1>2 DEF Program, CreateProvider
  <1>3. CASE op.name = "DeleteProvider"
    BY <1>3 DEF Program, DeleteProvider
  <1>4. CASE op.name = "UpdateProvider"
    <2>1. op.arg.config \in BOOLEAN
      BY <1>4, ProviderOperations
    <2>2. Program(r, op, seen) = UpdateProvider(r, op.arg)
      BY <1>4 DEF Program
    <2>3. i \in 1 .. UpdateProviderSize(op)
      <3>1. i \in 1 .. Len(Program(r, op, seen))
        BY DEF Sendable
      <3> QED BY <1>4, <2>1, <2>2, <3>1, UpdateProviderStatements
    <2> QED BY <1>4, <2>1, <2>2, <2>3, UpdateProviderStatements DEF ToConfig, ToPriority, ToActive
  <1> QED BY <1>1, <1>2, <1>3, <1>4, ProviderOperations

KeyStatement(r, op, seen, i, st) ==
  \/ /\ op.name # "RevokeAPIKey"
     /\ st.do = "select" /\ st.check \in {"error", "found", "ignored"}
  \/ op.name # "RevokeAPIKey" /\ st = CreateAPIKey(r)[1]
  \/ op.name = "RevokeAPIKey" /\ i = 1 /\ st = RevokeAPIKey[1]

LEMMA KeyStatements ==
  ASSUME api = "keys", NEW r, NEW op, NEW seen, NEW i, Sendable(r, op, seen, i)
  PROVE  KeyStatement(r, op, seen, i, Program(r, op, seen)[i])
  <1> USE DEF Sendable, KeyStatement
  <1>1. CASE op.name = "ListAPIKeys"
    BY <1>1 DEF Program, ListAPIKeys, Select, Statement
  <1>2. CASE op.name = "CreateAPIKey"
    BY <1>2 DEF Program, CreateAPIKey
  <1>3. CASE op.name = "RevokeAPIKey"
    BY <1>3 DEF Program, RevokeAPIKey
  <1> QED BY <1>1, <1>2, <1>3, KeyOperations

-----------------------------------------------------------------------------
(* The actions, as moves.                                                   *)

LEMMA FaultStep ==
  ASSUME Base, Fault
  PROVE  faults' = faults + 1 /\ faults' <= MaxFaults
  <1>1. faults \in 0 .. MaxFaults BY DEF Base
  <1>2. faults < MaxFaults /\ faults' = faults + 1 BY DEF Fault
  <1> QED BY <1>1, <1>2, RequestBounds

LEMMA ArriveMoves ==
  ASSUME Base, NEW r \in Requests, Arrive(r)
  PROVE  \E n : Step(r, n)
  <1>1. PICK op \in Operations[api] :
          Become(r, [pc |-> IF Authenticated(op) THEN "run" ELSE "answer", op |-> op,
                     at |-> 1, seen |-> None, writes |-> None, gone |-> FALSE,
                     aborted |-> FALSE, committed |-> FALSE, audited |-> "no",
                     status |-> IF Authenticated(op) THEN "ok" ELSE "unauthorized"])
    BY DEF Arrive
  <1>2. PICK known \in BOOLEAN : known <=> Authenticated(op)
    BY DEF Authenticated, Public
  <1> DEFINE n == [pc |-> IF known THEN "run" ELSE "answer", op |-> op,
                   at |-> 1, seen |-> None, writes |-> None, gone |-> FALSE,
                   aborted |-> FALSE, committed |-> FALSE, audited |-> "no",
                   status |-> IF known THEN "ok" ELSE "unauthorized"]
  <1>3. Become(r, n)
    BY <1>1, <1>2
  <1>4. Shape(n)
    BY DEF Shape, Fields, Phases, Statuses
  <1>5. Arrives(r, n)
    <2>1. request[r].pc = "not sent" /\ UNCHANGED <<db, faults>> BY DEF Arrive, At
    <2>2. \/ n.pc = "run" /\ n.status = "ok"
          \/ n.pc = "answer" /\ n.status = "unauthorized"
      OBVIOUS
    <2> QED BY <2>1, <2>2 DEF Arrives
  <1>6. api' = api /\ faults' = faults /\ faults <= MaxFaults
    <2>1. faults \in 0 .. MaxFaults BY DEF Base
    <2>2. api' = api /\ faults' = faults BY DEF Arrive
    <2> QED BY <2>1, <2>2, RequestBounds
  <1> QED BY <1>3, <1>4, <1>5, <1>6 DEF Step, Moves

\* After an error of its statement, a handler refuses or skips it.
LEMMA FailedMoves ==
  ASSUME Base, NEW r \in Requests, InStatement(r), Become(r, Failed(request[r], Current(r))),
         UNCHANGED <<api, db>>, faults' \in {faults, faults + 1}, faults' <= MaxFaults,
         \/ request[r].aborted \/ request[r].gone \/ faults' = faults + 1
         \/ Current(r).do = "insert" /\ Exists(View(r), Current(r).row)
         \/ \E other \in Requests : WaitsFor(r, other) /\ WaitsFor(other, r)
  PROVE  \E n : Step(r, n)
  <1>1. Shape(request[r]) /\ request[r].pc = "run"
    BY SentFacts DEF InStatement, At
  <1> DEFINE n == Failed(request[r], Current(r))
  <1>2. CASE Current(r).check = "ignored"
    <2>1. /\ n.pc = "run" /\ n.status = "ok" /\ n.at = request[r].at + 1 /\ n.aborted
          /\ n.seen = request[r].seen /\ n.gone = request[r].gone
          /\ SameData(request[r], n) /\ DOMAIN n = Fields
      BY <1>1, <1>2 DEF Shape, Failed, GoOn, Fields, Same, SameData
    <2>2. Shape(n)
      BY <1>1, <2>1 DEF Shape, Same, SameData
    <2> HIDE DEF n
    <2>3. Skips(r, n)
      BY <1>2, <2>1 DEF Skips
    <2> QED BY <2>2, <2>3 DEF Step, Moves, n
  <1>3. CASE Current(r).check # "ignored"
    <2>1. /\ n.pc = "settle" /\ n.status \in {"not found", "error"} /\ n.seen = None
          /\ n.at = request[r].at /\ n.aborted /\ n.gone = request[r].gone
          /\ SameData(request[r], n) /\ DOMAIN n = Fields
      BY <1>1, <1>3 DEF Shape, Failed, Refuse, Fields, Same, SameData
    <2>2. Shape(n)
      BY <1>1, <2>1 DEF Shape, Same, SameData, Phases, Statuses
    <2> HIDE DEF n
    <2>3. Refuses(r, n)
      BY <1>1, <2>1 DEF Refuses
    <2> QED BY <2>2, <2>3 DEF Step, Moves, n
  <1> QED BY <1>2, <1>3

LEMMA ReadMoves ==
  ASSUME Base, NEW r \in Requests, Read(r)
  PROVE  \E n : Step(r, n)
  <1>1. CanRun(r) /\ Current(r).do = "select" /\ UNCHANGED <<api, db, faults>>
    BY DEF Read
  <1>2. Shape(request[r]) /\ request[r].pc = "run" /\ faults <= MaxFaults
    BY <1>1, SentFacts DEF CanRun, InStatement, At
  <1> DEFINE rows == {row \in DOMAIN View(r) :
                        row[1] = Current(r).row[1] /\ Exists(View(r), row)}
             seen == Over([row \in rows |-> View(r)[row]], request[r].seen)
             state == [request[r] EXCEPT !.seen = seen]
  <1>3. /\ DOMAIN state = Fields /\ state.seen = seen /\ state.at = request[r].at
        /\ state.pc = "run" /\ state.status = "ok"
        /\ state.aborted = request[r].aborted /\ state.gone = request[r].gone
        /\ SameData(request[r], state)
    <2> HIDE DEF seen
    <2> QED BY <1>2 DEF Shape, Fields, Same, SameData
  <1>4. PICK found \in BOOLEAN : found <=> Exists(View(r), Current(r).row)
    BY DEF Exists
  <1>5. Become(r, IF found THEN GoOn(state) ELSE NotFound(state, Current(r)))
    BY <1>4 DEF Read
  <1> HIDE DEF state, seen
  <1>6. CASE found \/ Current(r).check # "found"
    <2> DEFINE n == GoOn(state)
    <2>1. Become(r, n)
      BY <1>5, <1>6 DEF NotFound
    <2>2. /\ n.pc = "run" /\ n.status = "ok" /\ n.at = request[r].at + 1
          /\ n.aborted = request[r].aborted /\ n.gone = request[r].gone /\ n.seen = seen
          /\ SameData(request[r], n) /\ DOMAIN n = Fields
      BY <1>1, <1>2, <1>3 DEF GoOn, Fields, Same, SameData, CanRun
    <2>3. Shape(n)
      BY <1>2, <2>2 DEF Shape, Same, SameData
    <2> HIDE DEF n
    <2>4. Reads(r, n)
      BY <1>1, <2>2 DEF Reads, seen, CanRun
    <2> QED BY <1>1, <1>2, <2>1, <2>3, <2>4 DEF Step, Moves
  <1>7. CASE ~found /\ Current(r).check = "found"
    <2> DEFINE n == Refuse(state, "not found")
    <2>1. Become(r, n)
      BY <1>5, <1>7 DEF NotFound
    <2>2. /\ n.pc = "settle" /\ n.status = "not found" /\ n.seen = None
          /\ n.at = request[r].at /\ n.aborted = request[r].aborted /\ n.gone = request[r].gone
          /\ SameData(request[r], n) /\ DOMAIN n = Fields
      BY <1>3 DEF Refuse, Fields, Same, SameData
    <2>3. Shape(n)
      BY <1>2, <2>2 DEF Shape, Same, SameData, Phases, Statuses
    <2> HIDE DEF n
    <2>4. Refuses(r, n)
      BY <1>1, <1>2, <2>2 DEF Refuses
    <2> QED BY <1>1, <1>2, <2>1, <2>3, <2>4 DEF Step, Moves
  <1> QED BY <1>6, <1>7

\* The row and the columns of a statement that writes.
LEMMA PutMoves ==
  ASSUME Base, NEW r \in Requests, NEW columns,
         CanRun(r), ~Locked(r, Current(r).row), UNCHANGED <<api, db, faults>>,
         Become(r, GoOn([request[r] EXCEPT
                          !.writes = Over(Row(Current(r).row, columns), @)])),
         LET st == Current(r)
         IN  \/ st.do = "delete" /\ Matches(View(r), st) /\ columns = Deleted
             \/ /\ st.do = "update" /\ Matches(View(r), st)
                /\ columns = Over(st.set, View(r)[st.row])
             \/ st.do = "upsert" /\ columns = st.set
             \/ st.do = "insert" /\ ~Exists(View(r), st.row) /\ columns = st.set
  PROVE  \E n : Step(r, n)
  <1>2. Shape(request[r]) /\ request[r].pc = "run" /\ faults <= MaxFaults
    BY SentFacts DEF CanRun, InStatement, At
  <1> DEFINE writes == Over(Row(Current(r).row, columns), request[r].writes)
             n == GoOn([request[r] EXCEPT !.writes = writes])
  <1>3. Become(r, n)
    OBVIOUS
  <1>4. /\ n.pc = "run" /\ n.status = "ok" /\ n.at = request[r].at + 1
        /\ n.aborted = request[r].aborted /\ n.gone = request[r].gone
        /\ n.seen = request[r].seen /\ n.writes = writes
        /\ Same(request[r], n) /\ DOMAIN n = Fields
    <2> HIDE DEF writes
    <2> QED BY <1>2 DEF Shape, GoOn, Fields, Same, CanRun
  <1> HIDE DEF n
  <1>5. Shape(n)
    BY <1>2, <1>4 DEF Shape, Same
  <1>6. Puts(r, n)
    BY <1>4 DEF Puts, CanRun
  <1> QED BY <1>2, <1>3, <1>5, <1>6 DEF Step, Moves

\* A statement that finds no row.
LEMMA NoRowMoves ==
  ASSUME Base, NEW r \in Requests,
         CanRun(r), UNCHANGED <<api, db, faults>>,
         Current(r).do \in {"update", "delete"}, ~Matches(View(r), Current(r)),
         Become(r, NotFound(request[r], Current(r)))
  PROVE  \E n : Step(r, n)
  <1>2. Shape(request[r]) /\ request[r].pc = "run" /\ faults <= MaxFaults
    BY SentFacts DEF CanRun, InStatement, At
  <1>3. CASE Current(r).check # "found"
    <2> DEFINE n == GoOn(request[r])
    <2>1. Become(r, n)
      BY <1>3 DEF NotFound
    <2>2. /\ n.pc = "run" /\ n.status = "ok" /\ n.at = request[r].at + 1
          /\ n.aborted = request[r].aborted /\ n.gone = request[r].gone
          /\ n.seen = request[r].seen
          /\ SameData(request[r], n) /\ DOMAIN n = Fields
      BY <1>2 DEF Shape, GoOn, Fields, Same, SameData, CanRun
    <2>3. Shape(n)
      BY <1>2, <2>2 DEF Shape, Same, SameData
    <2> HIDE DEF n
    <2>4. Passes(r, n)
      BY <1>3, <2>2 DEF Passes, CanRun
    <2> QED BY <1>2, <2>1, <2>3, <2>4 DEF Step, Moves
  <1>4. CASE Current(r).check = "found"
    <2> DEFINE n == Refuse(request[r], "not found")
    <2>1. Become(r, n)
      BY <1>4 DEF NotFound
    <2>2. /\ n.pc = "settle" /\ n.status = "not found" /\ n.seen = None
          /\ n.at = request[r].at /\ n.aborted = request[r].aborted /\ n.gone = request[r].gone
          /\ SameData(request[r], n) /\ DOMAIN n = Fields
      BY <1>2 DEF Shape, Refuse, Fields, Same, SameData
    <2>3. Shape(n)
      BY <1>2, <2>2 DEF Shape, Same, SameData, Phases, Statuses
    <2> HIDE DEF n
    <2>4. Refuses(r, n)
      BY <1>2, <2>2 DEF Refuses
    <2> QED BY <1>2, <2>1, <2>3, <2>4 DEF Step, Moves
  <1> QED BY <1>3, <1>4

\* What a statement may do.
LEMMA Kinds ==
  ASSUME api \in DOMAIN Seed, NEW r, NEW op, NEW seen, NEW i, Sendable(r, op, seen, i)
  PROVE  Program(r, op, seen)[i].do \in {"select", "update", "insert", "upsert", "delete"}
  <1> DEFINE st == Program(r, op, seen)[i]
  <1> SUFFICES st.do \in {"select", "update", "insert", "upsert", "delete"}
    OBVIOUS
  <1>1. CASE api = "subscribers"
    <2>1. SubscriberStatement(r, op, seen, i, st)
      BY <1>1, SubscriberStatements
    <2> HIDE DEF st
    <2> QED BY <2>1 DEF SubscriberStatement, CreateSubscriber, UpdateSubscriber,
            EraseSubscriber, UpsertPreference, Record, Upsert, Insert, Update, Statement
  <1>2. CASE api = "templates"
    <2>1. TemplateStatement(r, op, seen, i, st)
      BY <1>2, TemplateStatements
    <2> HIDE DEF st
    <2> QED BY <2>1 DEF TemplateStatement, CreateTemplate, UpdateTemplate,
            PublishTemplate, DeleteTemplate, Insert, Update, Statement
  <1>3. CASE api = "workflows"
    <2>1. WorkflowStatement(r, op, seen, i, st)
      BY <1>3, WorkflowStatements
    <2> HIDE DEF st
    <2> QED BY <2>1 DEF WorkflowStatement, CreateWorkflow, UpdateWorkflow,
            ActivateWorkflow, DeactivateWorkflow, Insert, Update, Statement
  <1>4. CASE api = "dlt"
    <2>1. DltStatement(r, op, seen, i, st)
      BY <1>4, DltStatements
    <2> HIDE DEF st
    <2> QED BY <2>1 DEF DltStatement, RegisterDLTTemplate, DeleteDLTTemplate,
            Insert, Update, Delete, Statement
  <1>5. CASE api = "providers"
    <2>1. ProviderStatement(r, op, seen, i, st)
      BY <1>5, ProviderStatements
    <2> HIDE DEF st
    <2> QED BY <2>1 DEF ProviderStatement, CreateProvider, DeleteProvider,
            Insert, Update, Delete, Statement
  <1>6. CASE api = "keys"
    <2>1. KeyStatement(r, op, seen, i, st)
      BY <1>6, KeyStatements
    <2> HIDE DEF st
    <2> QED BY <2>1 DEF KeyStatement, CreateAPIKey, RevokeAPIKey, Insert, Statement
  <1> QED BY <1>1, <1>2, <1>3, <1>4, <1>5, <1>6 DEF Seed

LEMMA StatementKinds ==
  ASSUME Base, NEW r \in Requests, InStatement(r)
  PROVE  Current(r).do \in {"select", "update", "insert", "upsert", "delete"}
  <1>1. request[r].op \in Operations[api] /\ request[r].at \in Nat \ {0} /\ api \in DOMAIN Seed
    BY SentFacts DEF Shape, InStatement, At, Base
  <1>2. request[r].at <= Len(Statements(r))
    BY DEF InStatement
  <1> QED BY <1>1, <1>2, Kinds DEF Statements, Current, Sendable

LEMMA WriteMoves ==
  ASSUME Base, NEW r \in Requests, Write(r)
  PROVE  \E n : Step(r, n)
  <1>1. /\ CanRun(r) /\ ~Locked(r, Current(r).row) /\ UNCHANGED <<api, db, faults>>
    BY DEF Write
  <1> DEFINE Put(columns) ==
        GoOn([request[r] EXCEPT !.writes = Over(Row(Current(r).row, columns), @)])
  <1>2. Become(r, CASE Current(r).do = "delete" ->
                         IF Matches(View(r), Current(r)) THEN Put(Deleted)
                         ELSE NotFound(request[r], Current(r))
                    [] Current(r).do = "update" ->
                         IF Matches(View(r), Current(r))
                         THEN Put(Over(Current(r).set, View(r)[Current(r).row]))
                         ELSE NotFound(request[r], Current(r))
                    [] Current(r).do = "upsert" -> Put(Current(r).set)
                    [] Current(r).do = "insert" ->
                         IF Exists(View(r), Current(r).row) THEN Failed(request[r], Current(r))
                         ELSE Put(Current(r).set))
    BY DEF Write
  <1>3. Current(r).do \in {"delete", "update", "upsert", "insert"}
    BY <1>1, StatementKinds DEF Write, CanRun
  <1>4. CASE Current(r).do \in {"delete", "update"} /\ ~Matches(View(r), Current(r))
    <2>1. Become(r, NotFound(request[r], Current(r)))
      BY <1>2, <1>4
    <2> QED BY <1>1, <1>4, <2>1, NoRowMoves
  <1>5. CASE Current(r).do = "delete" /\ Matches(View(r), Current(r))
    <2>1. Become(r, Put(Deleted))
      BY <1>2, <1>5
    <2> QED BY <1>1, <1>5, <2>1, PutMoves
  <1>6. CASE Current(r).do = "update" /\ Matches(View(r), Current(r))
    <2>1. Become(r, Put(Over(Current(r).set, View(r)[Current(r).row])))
      BY <1>2, <1>6
    <2> QED BY <1>1, <1>6, <2>1, PutMoves
  <1>7. CASE Current(r).do = "upsert"
    <2>1. Become(r, Put(Current(r).set))
      BY <1>2, <1>7
    <2> QED BY <1>1, <1>7, <2>1, PutMoves
  <1>8. CASE Current(r).do = "insert" /\ ~Exists(View(r), Current(r).row)
    <2>1. Become(r, Put(Current(r).set))
      BY <1>2, <1>8
    <2> QED BY <1>1, <1>8, <2>1, PutMoves
  <1>9. CASE Current(r).do = "insert" /\ Exists(View(r), Current(r).row)
    <2>1. Become(r, Failed(request[r], Current(r)))
      BY <1>2, <1>9
    <2>2. InStatement(r) /\ faults' \in {faults, faults + 1} /\ faults' <= MaxFaults
      BY <1>1, SentFacts DEF CanRun, InStatement, At
    <2> QED BY <1>1, <1>9, <2>1, <2>2, FailedMoves
  <1> QED BY <1>3, <1>4, <1>5, <1>6, <1>7, <1>8, <1>9

LEMMA ErrorMoves ==
  ASSUME Base, NEW r \in Requests,
         Useless(r) \/ StatementFails(r) \/ DeadlockDetected(r)
  PROVE  \E n : Step(r, n)
  <1>1. InStatement(r) /\ Become(r, Failed(request[r], Current(r))) /\ UNCHANGED <<api, db>>
    BY DEF Useless, StatementFails, DeadlockDetected, WaitsFor, CanRun
  <1>2. /\ faults' \in {faults, faults + 1} /\ faults' <= MaxFaults
        /\ faults' = faults + 1 \/ UNCHANGED faults
    <2>1. faults <= MaxFaults /\ faults \in Nat
      BY <1>1, SentFacts DEF InStatement, At
    <2>2. UNCHANGED faults \/ Fault
      BY DEF Useless, StatementFails, DeadlockDetected
    <2> QED BY <2>1, <2>2, FaultStep
  <1>3. \/ request[r].aborted \/ request[r].gone \/ Fault
        \/ \E other \in Requests : WaitsFor(r, other) /\ WaitsFor(other, r)
    BY DEF Useless, StatementFails, DeadlockDetected
  <1>4. \/ request[r].aborted \/ request[r].gone \/ faults' = faults + 1
        \/ \E other \in Requests : WaitsFor(r, other) /\ WaitsFor(other, r)
    BY <1>3, FaultStep
  <1> QED BY <1>1, <1>2, <1>4, FailedMoves

LEMMA BeginFailsMoves ==
  ASSUME Base, NEW r \in Requests, BeginFails(r)
  PROVE  \E n : Step(r, n)
  <1>1. Shape(request[r]) /\ request[r].pc = "run"
    BY SentFacts DEF BeginFails, At
  <1>2. faults' = faults + 1 /\ faults' <= MaxFaults /\ UNCHANGED <<api, db>>
    BY FaultStep DEF BeginFails
  <1> DEFINE n == Refuse(request[r], "error")
  <1>3. Become(r, n)
    BY DEF BeginFails
  <1>4. /\ n.pc = "settle" /\ n.status = "error" /\ n.seen = None
        /\ n.at = request[r].at /\ n.aborted = request[r].aborted /\ n.gone = request[r].gone
        /\ SameData(request[r], n) /\ DOMAIN n = Fields
    BY <1>1 DEF Shape, Refuse, Fields, Same, SameData
  <1> HIDE DEF n
  <1>5. Shape(n)
    BY <1>1, <1>4 DEF Shape, Same, SameData, Phases, Statuses
  <1>6. Refuses(r, n)
    BY <1>1, <1>2, <1>4 DEF Refuses
  <1> QED BY <1>2, <1>3, <1>5, <1>6 DEF Step, Moves

LEMMA ReturnMoves ==
  ASSUME Base, NEW r \in Requests, Return(r)
  PROVE  \E n : Step(r, n)
  <1>1. Shape(request[r]) /\ request[r].pc = "run" /\ faults <= MaxFaults
    BY SentFacts DEF Return, At
  <1>2. UNCHANGED <<api, db, faults>> /\ request[r].at > Len(Statements(r))
    BY DEF Return
  <1> DEFINE n == [request[r] EXCEPT !.pc = "settle"]
  <1>3. Become(r, n)
    BY DEF Return
  <1>4. /\ n.pc = "settle" /\ n.status = "ok" /\ n.at = request[r].at
        /\ n.aborted = request[r].aborted /\ n.gone = request[r].gone
        /\ n.seen = request[r].seen
        /\ SameData(request[r], n) /\ DOMAIN n = Fields
    BY <1>1 DEF Shape, Fields, Same, SameData
  <1> HIDE DEF n
  <1>5. Shape(n)
    BY <1>1, <1>4 DEF Shape, Same, SameData, Phases, Statuses
  <1>6. Returns(r, n)
    BY <1>1, <1>2, <1>4 DEF Returns
  <1> QED BY <1>1, <1>2, <1>3, <1>5, <1>6 DEF Step, Moves

\* The request without its transaction.
LEMMA SettledFacts ==
  ASSUME Base, NEW r \in Requests, request[r].pc = "settle",
         NEW committed \in BOOLEAN, NEW reported \in BOOLEAN,
         committed => request[r].status = "ok"
  PROVE  LET n == Settled(r, committed, reported)
         IN  /\ Shape(n) /\ n.pc \in {"audit", "answer"} /\ n.committed = committed
             /\ n.op = request[r].op /\ n.writes = None
             /\ n.status \in {request[r].status, "error"}
             /\ n.status = request[r].status \/ ~reported
  <1>1. Shape(request[r])
    BY SentFacts
  <1> DEFINE n == Settled(r, committed, reported)
  <1>2. PICK public \in BOOLEAN : public <=> Public(request[r].op)
    BY DEF Public
  <1>3. n = [request[r] EXCEPT
               !.pc = IF public THEN "answer" ELSE "audit",
               !.seen = None, !.writes = None, !.committed = committed,
               !.status = IF public /\ ~reported /\ @ = "ok" THEN "error" ELSE @]
    BY <1>2 DEF Settled
  <1>4. /\ n.pc = IF public THEN "answer" ELSE "audit"
        /\ n.op = request[r].op /\ n.writes = None /\ n.seen = None /\ n.at = request[r].at
        /\ n.aborted = request[r].aborted /\ n.gone = request[r].gone
        /\ n.committed = committed /\ n.audited = request[r].audited
        /\ n.status = IF public /\ ~reported /\ request[r].status = "ok"
                      THEN "error" ELSE request[r].status
        /\ DOMAIN n = Fields
    BY <1>1, <1>3 DEF Shape, Fields
  <1> HIDE DEF n
  <1>5. public => n.op.method = "GET"
    BY <1>1, <1>2, <1>4, PublicIsGet DEF Shape, Base
  <1>6. Shape(n)
    BY <1>1, <1>2, <1>4, <1>5 DEF Shape, Phases, Statuses
  <1> QED BY <1>4, <1>6 DEF n

LEMMA CommitMoves ==
  ASSUME Base, NEW r \in Requests, Commit(r) \/ CommitFails(r)
  PROVE  \E n : Step(r, n)
  <1>1. /\ request[r].pc = "settle" /\ request[r].status = "ok" /\ api' = api
    BY DEF Commit, CommitFails, At
  <1>2. /\ faults' \in {faults, faults + 1} /\ faults' <= MaxFaults
        /\ Fault => faults' = faults + 1
    BY FaultFacts, FaultStep DEF Commit, CommitFails
  <1>3. \/ /\ UNCHANGED db /\ Become(r, Settled(r, FALSE, FALSE))
           /\ request[r].aborted \/ request[r].gone \/ faults' = faults + 1
        \/ /\ db' = View(r) /\ \E reported \in BOOLEAN : Become(r, Settled(r, TRUE, reported))
           /\ ~request[r].aborted /\ ~request[r].gone
    BY <1>2 DEF Commit, CommitFails
  <1>4. CASE /\ UNCHANGED db /\ Become(r, Settled(r, FALSE, FALSE))
             /\ request[r].aborted \/ request[r].gone \/ faults' = faults + 1
    <2> DEFINE n == Settled(r, FALSE, FALSE)
    <2>1. Shape(n) /\ n.pc \in {"audit", "answer"} /\ n.committed = FALSE
          /\ n.op = request[r].op /\ n.writes = None
          /\ n.status \in {request[r].status, "error"}
      BY <1>1, SettledFacts
    <2> HIDE DEF n
    <2>2. Drops(r, n)
      BY <1>1, <1>4, <2>1 DEF Drops
    <2> QED BY <1>1, <1>2, <1>4, <2>1, <2>2 DEF Step, Moves, n
  <1>5. ASSUME NEW reported \in BOOLEAN, Become(r, Settled(r, TRUE, reported)),
               db' = View(r), ~request[r].aborted, ~request[r].gone
        PROVE  \E n : Step(r, n)
    <2> DEFINE n == Settled(r, TRUE, reported)
    <2>1. Shape(n) /\ n.pc \in {"audit", "answer"} /\ n.committed = TRUE
          /\ n.op = request[r].op /\ n.writes = None
      BY <1>1, SettledFacts
    <2> HIDE DEF n
    <2>2. Commits(r, n)
      BY <1>1, <1>5, <2>1 DEF Commits
    <2>3. Become(r, n)
      BY <1>5 DEF n
    <2> QED BY <1>1, <1>2, <2>1, <2>2, <2>3 DEF Step, Moves
  <1> QED BY <1>3, <1>4, <1>5

LEMMA RollbackMoves ==
  ASSUME Base, NEW r \in Requests, Rollback(r)
  PROVE  \E n : Step(r, n)
  <1>1. /\ request[r].pc = "settle" /\ request[r].status # "ok" /\ UNCHANGED <<api, db, faults>>
        /\ Become(r, Settled(r, FALSE, TRUE))
    BY DEF Rollback, At
  <1>2. faults' \in {faults, faults + 1} /\ faults' <= MaxFaults
    BY <1>1, FaultFacts
  <1> DEFINE n == Settled(r, FALSE, TRUE)
  <1>3. Shape(n) /\ n.pc \in {"audit", "answer"} /\ n.committed = FALSE
        /\ n.op = request[r].op /\ n.writes = None /\ n.status = request[r].status
    BY <1>1, SettledFacts
  <1>4. Become(r, n)
    BY <1>1
  <1> HIDE DEF n
  <1>5. Drops(r, n)
    BY <1>1, <1>3 DEF Drops
  <1> QED BY <1>1, <1>2, <1>3, <1>4, <1>5 DEF Step, Moves

LEMMA AuditMoves ==
  ASSUME Base, NEW r \in Requests, Audit(r) \/ AuditFails(r)
  PROVE  \E n : Step(r, n)
  <1>1. Shape(request[r]) /\ request[r].pc = "audit" /\ UNCHANGED <<api, db>>
    BY SentFacts DEF Audit, AuditFails, At
  <1>2. faults' \in {faults, faults + 1} /\ faults' <= MaxFaults
    BY FaultFacts, FaultStep DEF Audit, AuditFails
  <1>3. PICK audited \in {"no", "yes", "failed"} :
          /\ Become(r, [request[r] EXCEPT !.pc = "answer", !.audited = audited])
          /\ request[r].op.method = "GET" \/ audited \in {"yes", "failed"}
    BY DEF Audit, AuditFails
  <1> DEFINE n == [request[r] EXCEPT !.pc = "answer", !.audited = audited]
  <1>4. /\ n.pc = "answer" /\ n.status = request[r].status /\ n.op = request[r].op
        /\ n.at = request[r].at /\ n.aborted = request[r].aborted /\ n.gone = request[r].gone
        /\ n.committed = request[r].committed /\ n.audited = audited
        /\ n.writes = None /\ n.seen = None /\ DOMAIN n = Fields
    BY <1>1 DEF Shape, Fields
  <1>5. Become(r, n)
    BY <1>3
  <1> HIDE DEF n
  <1>6. Shape(n)
    BY <1>1, <1>3, <1>4 DEF Shape, Phases
  <1>7. Audits(r, n)
    BY <1>1, <1>4 DEF Audits
  <1> QED BY <1>1, <1>2, <1>5, <1>6, <1>7 DEF Step, Moves

LEMMA EndMoves ==
  ASSUME Base, NEW r \in Requests, Answer(r) \/ Crash(r)
  PROVE  \E n : Step(r, n)
  <1>1. Shape(request[r]) /\ r \in InProgress /\ UNCHANGED <<api, db>>
    <2>1. r \in InProgress /\ request[r].pc # "not sent"
      BY DEF Answer, Crash, At, InProgress, Sent
    <2> QED BY <2>1, SentFacts DEF Answer, Crash
  <1>2. faults' \in {faults, faults + 1} /\ faults' <= MaxFaults
    BY FaultFacts, FaultStep DEF Answer, Crash
  <1>3. PICK status \in {request[r].status, "lost"} :
          /\ Become(r, Ended(r, status))
          /\ status = "lost" \/ request[r].pc = "answer"
    BY DEF Answer, Crash, At
  <1> DEFINE n == Ended(r, status)
  <1>4. /\ n.pc = "done" /\ n.status = status /\ n.op = request[r].op
        /\ n.at = 0 /\ n.aborted = FALSE /\ n.gone = FALSE
        /\ n.committed = request[r].committed /\ n.audited = request[r].audited
        /\ n.writes = None /\ n.seen = None /\ DOMAIN n = Fields
    BY <1>1 DEF Shape, Fields, Ended
  <1>5. Become(r, n)
    BY <1>3
  <1> HIDE DEF n
  <1>6. Shape(n)
    <2>1. n.status \in Statuses /\ (n.committed => n.status \in {"ok", "lost"} \/ Public(n.op))
      BY <1>1, <1>4 DEF Shape, Statuses
    <2>2. n.op \in Operations[api] /\ n.audited \in {"no", "yes", "failed"}
          /\ n.committed \in BOOLEAN
      BY <1>1, <1>4 DEF Shape
    <2>3. n.gone \in BOOLEAN /\ n.aborted \in BOOLEAN
      BY <1>4, Zenon
    <2>5. n.at \in Nat
      BY <1>4
    <2>4. n.pc = "done" /\ n.writes = None /\ n.seen = None /\ DOMAIN n = Fields
      BY <1>4
    <2> QED BY <2>1, <2>2, <2>3, <2>4, <2>5 DEF Shape, Phases
  <1>7. Ends(r, n)
    BY <1>1, <1>3, <1>4 DEF Ends
  <1> QED BY <1>1, <1>2, <1>5, <1>6, <1>7 DEF Step, Moves

LEMMA DisconnectMoves ==
  ASSUME Base, NEW r \in Requests, Disconnect(r)
  PROVE  \E n : Step(r, n)
  <1>1. Shape(request[r]) /\ r \in InProgress /\ UNCHANGED <<api, db>>
    <2>1. r \in InProgress /\ request[r].pc # "not sent"
      BY DEF Disconnect, At, InProgress, Sent
    <2> QED BY <2>1, SentFacts DEF Disconnect
  <1>2. faults' = faults + 1 /\ faults' <= MaxFaults
    BY FaultStep DEF Disconnect
  <1> DEFINE n == [request[r] EXCEPT !.gone = TRUE]
  <1>3. /\ n.pc = request[r].pc /\ n.status = request[r].status /\ n.at = request[r].at
        /\ n.seen = request[r].seen /\ n.aborted = request[r].aborted /\ n.gone = TRUE
        /\ SameData(request[r], n) /\ DOMAIN n = Fields
    BY <1>1 DEF Shape, Fields, Same, SameData
  <1>4. Become(r, n)
    BY DEF Disconnect
  <1> HIDE DEF n
  <1>5. Shape(n)
    BY <1>1, <1>3 DEF Shape, Same, SameData
  <1>6. Leaves(r, n)
    BY <1>1, <1>2, <1>3 DEF Leaves
  <1> QED BY <1>1, <1>2, <1>4, <1>5, <1>6 DEF Step, Moves

\* Every step of the specification is such a step, or changes nothing.
LEMMA NextMoves ==
  ASSUME Base, Next
  PROVE  \E r \in Requests : \E n : Step(r, n)
  <1>1. PICK r \in Requests :
          \/ Arrive(r) \/ Handle(r)
          \/ BeginFails(r) \/ StatementFails(r) \/ CommitFails(r) \/ AuditFails(r)
          \/ Disconnect(r) \/ Crash(r)
    BY DEF Next
  <1>2. \E n : Step(r, n)
    BY <1>1, ArriveMoves, ReadMoves, WriteMoves, ErrorMoves, ReturnMoves, CommitMoves,
       RollbackMoves, AuditMoves, EndMoves, BeginFailsMoves, DisconnectMoves DEF Handle
  <1> QED BY <1>2

\* After a step of r: its new state, and everyone else as before.
LEMMA StepFacts ==
  ASSUME Base, NEW r \in Requests, NEW n, Step(r, n)
  PROVE  /\ request'[r] = n /\ \A s \in Requests \ {r} : request'[s] = request[s]
         /\ DOMAIN request' = Requests /\ Shape(n)
         /\ Sent' = Sent \cup {r} /\ \A s \in Sent' : s = r \/ s \in Sent
         /\ \A s \in InProgress' : s = r \/ s \in InProgress
         /\ api' = api
  <1>1. /\ request'[r] = n /\ \A s \in Requests \ {r} : request'[s] = request[s]
        /\ DOMAIN request' = Requests /\ Shape(n) /\ api' = api
    BY DEF Base, Step, Become
  <1>2. n.pc # "not sent"
    BY <1>1 DEF Shape
  <1> QED BY <1>1, <1>2 DEF Sent, InProgress, At

\* What a step does to the writes of its request.
LEMMA WriteFacts ==
  ASSUME Base, NEW r \in Requests, NEW n, Step(r, n)
  PROVE  \/ n.writes = None
         \/ /\ r \in InProgress /\ n.writes = request[r].writes /\ n.op = request[r].op
            /\ db' = db
         \/ Puts(r, n)
  <1>1. request[r].pc # "done" /\ request[r].pc # "not sent" => r \in InProgress
    BY DEF InProgress, Sent, At
  <1> QED BY <1>1 DEF Step, Moves, Arrives, Refuses, Skips, Passes, Reads, Returns, Commits,
                 Drops, Audits, Ends, Leaves, Same, SameData, InStatement, CanRun, At

LEMMA NoRows == DOMAIN None = {}
  BY DEF None

LEMMA OverDomain ==
  ASSUME NEW row, NEW columns, NEW f
  PROVE  DOMAIN Over(Row(row, columns), f) = {row} \cup DOMAIN f
  BY DEF Over, Row

LEMMA BaseStep ==
  ASSUME Base, NEW r \in Requests, NEW n, Step(r, n)
  PROVE  Base'
  <1>1. api' \in DOMAIN Seed /\ faults' \in 0 .. MaxFaults
    <2>1. api' = api /\ faults' \in {faults, faults + 1} /\ faults' <= MaxFaults
      BY DEF Step
    <2>2. api' \in DOMAIN Seed
      BY <2>1 DEF Base
    <2>3. faults \in Nat /\ MaxFaults \in Nat
      BY FaultFacts
    <2> QED BY <2>1, <2>2, <2>3
  <1>2. DOMAIN request' = Requests
    BY StepFacts
  <1>3. \A s \in Sent' : Shape(request[s])'
    <2>1. \A s \in Sent : Shape(request[s])
      BY DEF Base
    <2>2. ASSUME NEW s \in Sent', s # r PROVE Shape(request[s])'
      <3>1. s \in Sent /\ request'[s] = request[s] /\ api' = api
        BY <2>2, StepFacts DEF Sent
      <3>2. Shape(request[s])
        BY <2>1, <3>1
      <3> QED BY <3>1, <3>2 DEF Shape
    <2>3. Shape(request[r])'
      <3>1. request'[r] = n /\ api' = api /\ Shape(n)
        BY StepFacts
      <3> QED BY <3>1 DEF Shape
    <2> QED BY <2>2, <2>3
  <1>4. ASSUME NEW s \in InProgress', NEW t \in InProgress', s # t
        PROVE  Apart(s, t)'
    <2>1. \A a, b \in InProgress : a # b => Apart(a, b)
      BY DEF Base
    <2>2. ASSUME NEW a \in InProgress, a # r
          PROVE  DOMAIN n.writes \cap DOMAIN request[a].writes = {}
      <3>1. CASE n.writes = None
        BY <3>1, NoRows
      <3>2. CASE r \in InProgress /\ n.writes = request[r].writes
        BY <2>1, <2>2, <3>2 DEF Apart
      <3>3. CASE Puts(r, n)
        <4>1. r \in InProgress /\ ~Locked(r, Current(r).row)
          BY <3>3 DEF Puts, CanRun, InStatement, At, InProgress, Sent
        <4>2. DOMAIN n.writes = {Current(r).row} \cup DOMAIN request[r].writes
          BY <3>3, OverDomain DEF Puts
        <4>3. Current(r).row \notin DOMAIN request[a].writes
          BY <2>2, <4>1 DEF Locked
        <4>4. DOMAIN request[r].writes \cap DOMAIN request[a].writes = {}
          BY <2>1, <2>2, <4>1 DEF Apart
        <4> QED BY <4>2, <4>3, <4>4
      <3> QED BY <3>1, <3>2, <3>3, WriteFacts
    <2>3. \A a \in InProgress' \ {r} : a \in InProgress /\ request'[a] = request[a]
      BY StepFacts DEF InProgress, Sent
    <2>4. CASE s # r /\ t # r
      <3>1. DOMAIN request[s].writes \cap DOMAIN request[t].writes = {}
        BY <1>4, <2>1, <2>3, <2>4 DEF Apart
      <3> QED BY <2>3, <2>4, <3>1 DEF Apart
    <2>5. CASE s = r /\ t # r
      BY <2>2, <2>3, <2>5, StepFacts DEF Apart
    <2>6. CASE s # r /\ t = r
      BY <2>2, <2>3, <2>6, StepFacts DEF Apart
    <2> QED BY <1>4, <2>4, <2>5, <2>6
  <1> QED BY <1>1, <1>2, <1>3, <1>4 DEF Base

LEMMA BaseInit ==
  ASSUME Init
  PROVE  Base
  <1>1. Sent = {} /\ InProgress = {}
    BY DEF Init, NotSent, Sent, InProgress, At
  <1>2. DOMAIN request = Requests /\ api \in DOMAIN Seed /\ faults = 0
    BY DEF Init
  <1>3. faults \in 0 .. MaxFaults
    BY <1>2, RequestBounds
  <1> QED BY <1>1, <1>2, <1>3 DEF Base

LEMMA BaseHolds == Spec => []Base
  <1>1. Base /\ [Next]_vars => Base'
    <2>1. ASSUME Base, Next PROVE Base'
      BY <2>1, NextMoves, BaseStep
    <2>2. ASSUME Base, UNCHANGED vars PROVE Base'
      BY <2>2 DEF vars, Base, Shape, Sent, InProgress, At, Apart
    <2> QED BY <2>1, <2>2
  <1> QED BY <1>1, BaseInit, PTL DEF Spec

\* A request is well-formed, keeps its locks and what it has read only as long as
\* its transaction, and shares no lock with another: Write waits for whoever has
\* written the row (querier.go runs one transaction per request).
THEOREM RequestsTypeCorrect == Spec => []TypeOK
  <1>1. Base => TypeOK
    <2> SUFFICES ASSUME Base PROVE TypeOK
      OBVIOUS
    <2>1. \A r \in Requests : request[r].pc \in Phases
      BY DEF Base, Sent, At, Shape, Phases
    <2>2. ASSUME NEW r \in Sent
          PROVE  /\ request[r].op \in Operations[api] /\ request[r].status \in Statuses
                 /\ request[r].audited \in {"no", "yes", "failed"}
                 /\ ~At(r, "run") /\ ~At(r, "settle") =>
                      request[r].writes = None /\ request[r].seen = None
      BY DEF Base, Shape, At
    <2>3. ASSUME NEW r \in Sent, NEW row \in DOMAIN request[r].writes
          PROVE  ~Locked(r, row)
      <3>1. r \in InProgress
        <4>1. request[r].writes # None BY NoRows
        <4> QED BY <4>1 DEF Base, Shape, InProgress, At
      <3> QED BY <3>1 DEF Base, Locked, Apart
    <2>4. api \in DOMAIN Seed /\ faults \in 0 .. MaxFaults
      BY DEF Base
    <2> QED BY <2>1, <2>2, <2>3, <2>4 DEF TypeOK
  <1> QED BY <1>1, BaseHolds, PTL

\* Audit has a row for every mutation that got past Auth, or failed to write it,
\* by the time the response is sent (audit.go:17), whatever became of the client
\* and of the transaction.
THEOREM MutationsHaveAudits == Spec => []MutationsAreAudited
  <1>1. Base => MutationsAreAudited
    BY DEF Base, Shape, MutationsAreAudited, At
  <1> QED BY <1>1, BaseHolds, PTL

-----------------------------------------------------------------------------
(* What the columns of a row can be.                                        *)

Tables ==
  [subscribers |-> {"subscribers", "preferences", "consent_ledger"},
   templates |-> {"templates"}, workflows |-> {"workflows"}, dlt |-> {"dlt_templates"},
   providers |-> {"provider_configs"}, keys |-> {"api_keys"}]

SubscriberColumns(c) ==
  /\ {"contact", "metadata", "erased"} \subseteq DOMAIN c
  /\ c.erased => c.contact = "none"
PreferenceColumns(c) == DOMAIN c = {"opted", "by"}
EntryColumns(c) == DOMAIN c = {"choice", "source"}
TemplateColumns(c) ==
  /\ {"version", "published"} \subseteq DOMAIN c
  /\ c.version \in Nat /\ c.published \in Nat
  /\ c.published <= c.version \/ c.published = Foreign
WorkflowColumns(c) == "active" \in DOMAIN c
DltColumns(c) == c = Deleted \/ {"pe_id", "sender_id"} \subseteq DOMAIN c
ProviderColumns(c) == c = Deleted \/ {"priority", "is_active"} \subseteq DOMAIN c
KeyColumns(c) == DOMAIN c = {"revoked"}

Good(row, c) ==
  /\ row[1] \in Tables[api]
  /\ row[1] = "subscribers" => SubscriberColumns(c)
  /\ row[1] = "preferences" => PreferenceColumns(c)
  /\ row[1] = "consent_ledger" => EntryColumns(c)
  /\ row[1] = "templates" => TemplateColumns(c)
  /\ row[1] = "workflows" => WorkflowColumns(c)
  /\ row[1] = "dlt_templates" => DltColumns(c)
  /\ row[1] = "provider_configs" => ProviderColumns(c)
  /\ row[1] = "api_keys" => KeyColumns(c)

AllGood(view) == \A row \in DOMAIN view : Good(row, view[row])

GoodInv ==
  /\ AllGood(db)
  /\ \A r \in Sent : AllGood(request[r].writes) /\ AllGood(request[r].seen)

\* What a statement that writes makes of its row.
Puttable(st, old, c) ==
  \/ st.do = "delete" /\ c = Deleted
  \/ st.do = "update" /\ Good(st.row, old) /\ old # Deleted /\ c = Over(st.set, old)
  \/ st.do \in {"upsert", "insert"} /\ c = st.set

LEMMA OverFacts ==
  ASSUME NEW f, NEW g
  PROVE  /\ DOMAIN Over(f, g) = DOMAIN f \cup DOMAIN g
         /\ \A x \in DOMAIN f : Over(f, g)[x] = f[x]
         /\ \A x \in DOMAIN g : x \notin DOMAIN f => Over(f, g)[x] = g[x]
  BY DEF Over

LEMMA SubscriberPuts ==
  ASSUME api = "subscribers", NEW r, NEW op, NEW seen, NEW i, NEW st, NEW old, NEW c,
         SubscriberStatement(r, op, seen, i, st), Puttable(st, old, c)
  PROVE  Good(st.row, c)
  <1>1. CASE st.do = "select" /\ st.check \in {"error", "found", "ignored"}
    BY <1>1 DEF Puttable
  <1>2. CASE st = CreateSubscriber(r)[2]
    BY <1>2 DEF Puttable, Good, Tables, CreateSubscriber, Insert, Statement, SubscriberColumns
  <1>3. CASE st = UpdateSubscriber(r, seen)[2]
    <2>1. c = Over(st.set, old) /\ Good(st.row, old) /\ st.row = Subscriber
          /\ DOMAIN st.set = {"metadata", "by"}
      BY <1>3 DEF Puttable, UpdateSubscriber, Update, Statement
    <2>2. Subscriber[1] = "subscribers"
      BY DEF Subscriber
    <2>3. SubscriberColumns(old)
      BY <2>1, <2>2 DEF Good
    <2>4. SubscriberColumns(c)
      BY <2>1, <2>3 DEF Over, SubscriberColumns
    <2> QED BY <2>1, <2>2, <2>4 DEF Good, Tables
  <1>4. CASE st = EraseSubscriber[1]
    <2>1. c = Over(st.set, old) /\ st.row = Subscriber
          /\ st.set = [contact |-> "none", metadata |-> "none", erased |-> TRUE]
      BY <1>4 DEF Puttable, EraseSubscriber, Update, Statement
    <2>2. Subscriber[1] = "subscribers"
      BY DEF Subscriber
    <2>3. SubscriberColumns(c)
      BY <2>1 DEF Over, SubscriberColumns
    <2> QED BY <2>1, <2>2, <2>3 DEF Good, Tables
  <1>5. CASE \E channel \in {"all", "email"}, opted \in BOOLEAN :
               st = UpsertPreference(r, Choice(channel, "all", opted))
    BY <1>5 DEF Puttable, Good, Tables, UpsertPreference, Upsert, Statement, Preference,
                PreferenceColumns
  <1>6. CASE \E channel \in {"all", "email"}, opted \in BOOLEAN,
                source \in {"api", "unsubscribe_link"} :
               st = Record(r, i, Choice(channel, "all", opted), source)
    BY <1>6 DEF Puttable, Good, Tables, Record, Insert, Statement, Consent, EntryColumns
  <1> QED BY <1>1, <1>2, <1>3, <1>4, <1>5, <1>6 DEF SubscriberStatement

LEMMA TemplatePuts ==
  ASSUME api = "templates", NEW r, NEW op, NEW seen, NEW i, NEW st, NEW old, NEW c,
         AllGood(seen), Template \in DOMAIN seen,
         TemplateStatement(r, op, seen, i, st), Puttable(st, old, c)
  PROVE  Good(st.row, c)
  <1> DEFINE cur == seen[Template]
  <1>1. TemplateColumns(cur) /\ Template[1] = "templates"
    BY DEF AllGood, Good, Template
  <1>2. CASE st.do = "select" /\ st.check \in {"error", "found", "ignored"}
    BY <1>2 DEF Puttable
  <1>3. CASE st = CreateTemplate(r, op.arg)[1]
    BY <1>3 DEF Puttable, Good, Tables, CreateTemplate, Insert, Statement, TemplateColumns,
                Foreign
  <1>4. CASE st = UpdateTemplate(r, op.arg, seen)[2]
    <2>1. /\ c = Over(st.set, old) /\ st.row = Template
          /\ st.set.version = cur.version + 1 /\ st.set.published \in {cur.published, Foreign}
          /\ {"version", "published"} \subseteq DOMAIN st.set
      BY <1>4 DEF Puttable, UpdateTemplate, Update, Statement
    <2>2. c.version = cur.version + 1 /\ c.published \in {cur.published, Foreign}
          /\ {"version", "published"} \subseteq DOMAIN c
      BY <2>1 DEF Over
    <2>3. TemplateColumns(c)
      BY <1>1, <2>2 DEF TemplateColumns, Foreign
    <2> QED BY <1>1, <2>1, <2>3 DEF Good, Tables
  <1>5. CASE st = PublishTemplate(seen)[2]
    <2>1. /\ c = Over(st.set, old) /\ st.row = Template
          /\ st.set.version = cur.version /\ st.set.published = cur.version
          /\ {"version", "published"} \subseteq DOMAIN st.set
      BY <1>5 DEF Puttable, PublishTemplate, Update, Statement
    <2>2. c.version = cur.version /\ c.published = cur.version
          /\ {"version", "published"} \subseteq DOMAIN c
      BY <2>1 DEF Over
    <2>3. TemplateColumns(c)
      BY <1>1, <2>2 DEF TemplateColumns
    <2> QED BY <1>1, <2>1, <2>3 DEF Good, Tables
  <1>6. CASE st = DeleteTemplate[1]
    <2>1. /\ c = Over(st.set, old) /\ st.row = Template /\ Good(st.row, old)
          /\ DOMAIN st.set = {"active"}
      BY <1>6 DEF Puttable, DeleteTemplate, Update, Statement
    <2>2. TemplateColumns(old)
      BY <1>1, <2>1 DEF Good
    <2>3. TemplateColumns(c)
      BY <2>1, <2>2 DEF Over, TemplateColumns
    <2> QED BY <1>1, <2>1, <2>3 DEF Good, Tables
  <1> QED BY <1>2, <1>3, <1>4, <1>5, <1>6 DEF TemplateStatement

LEMMA WorkflowPuts ==
  ASSUME api = "workflows", NEW r, NEW op, NEW seen, NEW i, NEW st, NEW old, NEW c,
         WorkflowStatement(r, op, seen, i, st), Puttable(st, old, c)
  PROVE  Good(st.row, c)
  <1>1. CASE st.do = "select" /\ st.check \in {"error", "found", "ignored"}
    BY <1>1 DEF Puttable
  <1>2. CASE st = CreateWorkflow(r)[1]
    BY <1>2 DEF Puttable, Good, Tables, CreateWorkflow, Insert, Statement, WorkflowColumns
  <1>3. CASE st \in {UpdateWorkflow(r, seen)[2], ActivateWorkflow[1], DeactivateWorkflow[1]}
    <2>1. /\ c = Over(st.set, old) /\ st.row = Workflow /\ Good(st.row, old)
      BY <1>3 DEF Puttable, UpdateWorkflow, ActivateWorkflow, DeactivateWorkflow, Update, Statement
    <2>2. Workflow[1] = "workflows"
      BY DEF Workflow
    <2>3. WorkflowColumns(old)
      BY <2>1, <2>2 DEF Good
    <2>4. WorkflowColumns(c)
      BY <2>1, <2>3 DEF Over, WorkflowColumns
    <2> QED BY <2>1, <2>2, <2>4 DEF Good, Tables
  <1> QED BY <1>1, <1>2, <1>3 DEF WorkflowStatement

LEMMA DltPuts ==
  ASSUME api = "dlt", NEW r, NEW op, NEW seen, NEW i, NEW st, NEW old, NEW c,
         DltStatement(r, op, seen, i, st), Puttable(st, old, c)
  PROVE  Good(st.row, c)
  <1>1. CASE st.do = "select" /\ st.check \in {"error", "found", "ignored"}
    BY <1>1 DEF Puttable
  <1>2. CASE st = RegisterDLTTemplate(r)[1]
    BY <1>2 DEF Puttable, Good, Tables, RegisterDLTTemplate, Insert, Statement, DltColumns
  <1>3. CASE st = DeleteDLTTemplate[1]
    BY <1>3 DEF Puttable, Good, Tables, DeleteDLTTemplate, Delete, Statement, DltColumns,
                DLTTemplate
  <1>4. CASE st.do = "update" /\ st.row = DLTTemplate
    <2>1. c = Over(st.set, old) /\ Good(st.row, old) /\ old # Deleted
      BY <1>4 DEF Puttable
    <2>2. DLTTemplate[1] = "dlt_templates"
      BY DEF DLTTemplate
    <2>3. DltColumns(c)
      BY <1>4, <2>1, <2>2 DEF Over, DltColumns, Good
    <2> QED BY <1>4, <2>2, <2>3 DEF Good, Tables
  <1> QED BY <1>1, <1>2, <1>3, <1>4 DEF DltStatement, Update, Statement

LEMMA ProviderPuts ==
  ASSUME api = "providers", NEW r, NEW op, NEW seen, NEW i, NEW st, NEW old, NEW c,
         ProviderStatement(r, op, seen, i, st), Puttable(st, old, c)
  PROVE  Good(st.row, c)
  <1>1. CASE st.do = "select" /\ st.check \in {"error", "found", "ignored"}
    BY <1>1 DEF Puttable
  <1>2. CASE st = CreateProvider(r)[1]
    BY <1>2 DEF Puttable, Good, Tables, CreateProvider, Insert, Statement, ProviderColumns
  <1>3. CASE st = DeleteProvider[1]
    BY <1>3 DEF Puttable, Good, Tables, DeleteProvider, Delete, Statement, ProviderColumns,
                Provider
  <1>4. CASE st.do = "update" /\ st.row = Provider
    <2>1. c = Over(st.set, old) /\ Good(st.row, old) /\ old # Deleted
      BY <1>4 DEF Puttable
    <2>2. Provider[1] = "provider_configs"
      BY DEF Provider
    <2>3. ProviderColumns(c)
      BY <1>4, <2>1, <2>2 DEF Over, ProviderColumns, Good
    <2> QED BY <1>4, <2>2, <2>3 DEF Good, Tables
  <1> QED BY <1>1, <1>2, <1>3, <1>4 DEF ProviderStatement, Update, Statement

LEMMA KeyPuts ==
  ASSUME api = "keys", NEW r, NEW op, NEW seen, NEW i, NEW st, NEW old, NEW c,
         KeyStatement(r, op, seen, i, st), Puttable(st, old, c)
  PROVE  Good(st.row, c)
  <1>1. CASE st.do = "select" /\ st.check \in {"error", "found", "ignored"}
    BY <1>1 DEF Puttable
  <1>2. CASE st = CreateAPIKey(r)[1]
    BY <1>2 DEF Puttable, Good, Tables, CreateAPIKey, Insert, Statement, KeyColumns
  <1>3. CASE st = RevokeAPIKey[1]
    <2>1. /\ c = Over(st.set, old) /\ Good(st.row, old) /\ st.row = APIKey
          /\ st.set = [revoked |-> TRUE]
      BY <1>3 DEF Puttable, RevokeAPIKey, Statement
    <2>2. APIKey[1] = "api_keys"
      BY DEF APIKey
    <2>3. KeyColumns(c)
      BY <2>1, <2>2 DEF Over, KeyColumns, Good
    <2> QED BY <2>1, <2>2, <2>3 DEF Good, Tables
  <1> QED BY <1>1, <1>2, <1>3 DEF KeyStatement

LEMMA PutsGood ==
  ASSUME api \in DOMAIN Seed, NEW r, NEW op, NEW seen, NEW i, NEW old, NEW c,
         AllGood(seen), api = "templates" => Template \in DOMAIN seen,
         Sendable(r, op, seen, i), Puttable(Program(r, op, seen)[i], old, c)
  PROVE  Good(Program(r, op, seen)[i].row, c)
  <1> DEFINE st == Program(r, op, seen)[i]
  <1> SUFFICES Good(st.row, c)
    OBVIOUS
  <1>1. Puttable(st, old, c)
    OBVIOUS
  <1>2. /\ api = "subscribers" => SubscriberStatement(r, op, seen, i, st)
        /\ api = "templates" => TemplateStatement(r, op, seen, i, st)
        /\ api = "workflows" => WorkflowStatement(r, op, seen, i, st)
        /\ api = "dlt" => DltStatement(r, op, seen, i, st)
        /\ api = "providers" => ProviderStatement(r, op, seen, i, st)
        /\ api = "keys" => KeyStatement(r, op, seen, i, st)
    BY SubscriberStatements, TemplateStatements, WorkflowStatements, DltStatements,
       ProviderStatements, KeyStatements
  <1>3. api \in {"subscribers", "templates", "workflows", "dlt", "providers", "keys"}
    BY DEF Seed
  <1> HIDE DEF st
  <1> QED BY <1>1, <1>2, <1>3, SubscriberPuts, TemplatePuts, WorkflowPuts, DltPuts,
             ProviderPuts, KeyPuts

LEMMA SeedGood ==
  ASSUME api \in DOMAIN Seed
  PROVE  AllGood(Seed[api]) /\ (api = "templates" => Template \in DOMAIN Seed[api])
  <1>1. CASE api = "subscribers"
    <2>1. DOMAIN Seed[api] = {Subscriber, Preference("email", "marketing")}
          /\ Subscriber[1] = "subscribers"
          /\ Preference("email", "marketing")[1] = "preferences"
          /\ Seed[api][Subscriber] =
               [contact |-> "pii", metadata |-> "pii", erased |-> FALSE, by |-> 0]
          /\ Seed[api][Preference("email", "marketing")] = [opted |-> TRUE, by |-> 0]
      BY <1>1 DEF Seed, Over, Row, Subscriber, Preference
    <2> QED BY <1>1, <2>1 DEF AllGood, Good, Tables, SubscriberColumns, PreferenceColumns
  <1>2. CASE api = "templates"
    <2>1. DOMAIN Seed[api] = {Template} /\ Template[1] = "templates"
          /\ Seed[api][Template] = [body |-> 0, active |-> TRUE, version |-> 1, published |-> 0]
      BY <1>2 DEF Seed, Row, Template
    <2>2. TemplateColumns(Seed[api][Template])
      BY <2>1 DEF TemplateColumns
    <2> QED BY <1>2, <2>1, <2>2 DEF AllGood, Good, Tables
  <1>3. CASE api = "workflows"
    BY <1>3 DEF Seed, Row, AllGood, Good, Tables, WorkflowColumns, Workflow
  <1>4. CASE api = "dlt"
    BY <1>4 DEF Seed, Row, AllGood, Good, Tables, DltColumns, DLTTemplate
  <1>5. CASE api = "providers"
    BY <1>5 DEF Seed, Row, AllGood, Good, Tables, ProviderColumns, Provider
  <1>6. CASE api = "keys"
    BY <1>6 DEF Seed, Row, AllGood, Good, Tables, KeyColumns, APIKey
  <1> QED BY <1>1, <1>2, <1>3, <1>4, <1>5, <1>6 DEF Seed

LEMMA OverGood ==
  ASSUME NEW f, NEW g, AllGood(f), AllGood(g)
  PROVE  AllGood(Over(f, g))
  BY DEF AllGood, Over

\* The current statement, taken apart.
LEMMA CurrentFacts ==
  ASSUME Base, NEW r \in Requests, InStatement(r)
  PROVE  \E op, seen, i :
           /\ op = request[r].op /\ i = request[r].at /\ Sendable(r, op, seen, i)
           /\ seen = Over(request[r].seen, Seed[api])
           /\ Current(r) = Program(r, op, seen)[i]
  <1>1. PICK op, i, seen : /\ op = request[r].op /\ i = request[r].at
                           /\ seen = Over(request[r].seen, Seed[api])
    OBVIOUS
  <1>2. op \in Operations[api] /\ i \in Nat \ {0}
    BY <1>1, SentFacts DEF Shape, InStatement, At
  <1>3. i <= Len(Program(r, op, seen)) /\ Current(r) = Program(r, op, seen)[i]
    BY <1>1 DEF InStatement, Statements, Current
  <1> QED BY <1>1, <1>2, <1>3 DEF Sendable

\* The statement that writes, with the columns it puts in its row.
PutsAs(r, n, op, seen, i, st, c) ==
  /\ op = request[r].op /\ n.op = op /\ st = Current(r)
  /\ Sendable(r, op, seen, i) /\ st = Program(r, op, seen)[i]
  /\ n.writes = Over(Row(st.row, c), request[r].writes)
  /\ \/ st.do = "delete" /\ Matches(View(r), st) /\ c = Deleted
     \/ st.do = "update" /\ Matches(View(r), st) /\ c = Over(st.set, View(r)[st.row])
     \/ st.do = "upsert" /\ c = st.set
     \/ st.do = "insert" /\ ~Exists(View(r), st.row) /\ c = st.set

LEMMA PutFacts ==
  ASSUME Base, NEW r \in Requests, NEW n, Puts(r, n)
  PROVE  \E op, seen, i, st, c :
           /\ PutsAs(r, n, op, seen, i, st, c)
           /\ i = request[r].at /\ seen = Over(request[r].seen, Seed[api])
  <1>1. InStatement(r)
    BY DEF Puts, CanRun
  <1>2. PICK op, seen, i : /\ op = request[r].op /\ i = request[r].at
                           /\ Sendable(r, op, seen, i) /\ seen = Over(request[r].seen, Seed[api])
                           /\ Current(r) = Program(r, op, seen)[i]
    BY <1>1, CurrentFacts
  <1>3. PICK st : st = Current(r)
    OBVIOUS
  <1>4. n.op = op
    BY <1>2 DEF Puts, Same
  <1>5. PICK c : /\ n.writes = Over(Row(st.row, c), request[r].writes)
                 /\ \/ st.do = "delete" /\ Matches(View(r), st) /\ c = Deleted
                    \/ /\ st.do = "update" /\ Matches(View(r), st)
                       /\ c = Over(st.set, View(r)[st.row])
                    \/ st.do = "upsert" /\ c = st.set
                    \/ st.do = "insert" /\ ~Exists(View(r), st.row) /\ c = st.set
    BY <1>3 DEF Puts
  <1>6. PutsAs(r, n, op, seen, i, st, c)
    BY <1>2, <1>3, <1>4, <1>5 DEF PutsAs
  <1> QED BY <1>2, <1>6

\* What a request writes, it writes well.
LEMMA GoodPut ==
  ASSUME Base, GoodInv, NEW r \in Requests, NEW n, Puts(r, n)
  PROVE  AllGood(n.writes)
  <1>1. r \in Sent /\ request[r].pc = "run" /\ InStatement(r)
    BY DEF Puts, CanRun, InStatement, At, Sent
  <1>2. AllGood(request[r].writes) /\ AllGood(request[r].seen) /\ AllGood(db)
    BY <1>1 DEF GoodInv
  <1>3. PICK op, seen, i, st, c : /\ PutsAs(r, n, op, seen, i, st, c)
                                  /\ i = request[r].at /\ seen = Over(request[r].seen, Seed[api])
    BY PutFacts
  <1>4. st = Program(r, op, seen)[i] /\ Sendable(r, op, seen, i)
    BY <1>3 DEF PutsAs
  <1>5. AllGood(seen) /\ (api = "templates" => Template \in DOMAIN seen)
    <2>1. AllGood(Seed[api]) /\ (api = "templates" => Template \in DOMAIN Seed[api])
      BY SeedGood DEF Base
    <2>2. AllGood(seen)
      BY <1>2, <1>3, <2>1, OverGood
    <2>3. DOMAIN Seed[api] \subseteq DOMAIN seen
      BY <1>3 DEF Over
    <2> QED BY <2>1, <2>2, <2>3
  <1>6. /\ n.writes = Over(Row(st.row, c), request[r].writes)
        /\ \/ st.do = "delete" /\ c = Deleted
           \/ st.do = "update" /\ Matches(View(r), st) /\ c = Over(st.set, View(r)[st.row])
           \/ st.do \in {"upsert", "insert"} /\ c = st.set
    BY <1>3 DEF PutsAs
  <1>7. AllGood(View(r))
    BY <1>2, OverGood DEF View
  <1>8. \E old : Puttable(st, old, c)
    <2>1. CASE st.do = "update" /\ Matches(View(r), st) /\ c = Over(st.set, View(r)[st.row])
      <3>1. Good(st.row, View(r)[st.row]) /\ View(r)[st.row] # Deleted
        BY <1>7, <2>1 DEF Matches, Exists, AllGood
      <3> QED BY <2>1, <3>1 DEF Puttable
    <2> QED BY <1>6, <2>1 DEF Puttable
  <1>9. Good(st.row, c)
    BY <1>4, <1>5, <1>8, PutsGood DEF Base
  <1>10. AllGood(Row(st.row, c))
    BY <1>9 DEF AllGood, Row
  <1> QED BY <1>2, <1>6, <1>10, OverGood

\* What a step does to what its request has read, and to the tables.
LEMMA SeenFacts ==
  ASSUME Base, NEW r \in Requests, NEW n, Step(r, n)
  PROVE  \/ n.seen = None
         \/ r \in Sent /\ n.seen = request[r].seen
         \/ Reads(r, n)
  <1>1. request[r].pc # "not sent" => r \in Sent
    BY DEF Sent, At
  <1>2. n.pc \in {"run", "settle"} \/ n.seen = None
    BY DEF Step, Shape
  <1> QED BY <1>1, <1>2 DEF Step, Moves, Arrives, Refuses, Skips, Passes, Puts, Returns, Commits,
                 Drops, Audits, Ends, Leaves, SameData, InStatement, CanRun, At, InProgress

LEMMA TableFacts ==
  ASSUME NEW r \in Requests, NEW n, Step(r, n)
  PROVE  db' = db \/ (Commits(r, n) /\ db' = Over(request[r].writes, db))
  BY DEF Step, Moves, Arrives, Refuses, Skips, Passes, Reads, Puts, Returns, Commits, Drops,
         Audits, Ends, Leaves, View

LEMMA GoodStep ==
  ASSUME Base, GoodInv, NEW r \in Requests, NEW n, Step(r, n)
  PROVE  GoodInv'
  <1>1. \A row, c : Good(row, c) => Good(row, c)'
    BY StepFacts DEF Good
  <1>2. \A s \in Sent : AllGood(request[s].writes) /\ AllGood(request[s].seen)
    BY DEF GoodInv
  <1>3. AllGood(None)
    BY NoRows DEF AllGood
  <1>4. AllGood(db)
    BY DEF GoodInv
  <1>5. AllGood(db')
    <2>1. CASE db' = db
      BY <1>4, <2>1
    <2>2. CASE Commits(r, n) /\ db' = Over(request[r].writes, db)
      <3>1. r \in Sent
        BY <2>2 DEF Commits, Sent, At
      <3> QED BY <1>2, <1>4, <2>2, <3>1, OverGood
    <2> QED BY <2>1, <2>2, TableFacts
  <1>6. AllGood(n.writes)
    <2>1. r \in InProgress => AllGood(request[r].writes)
      BY <1>2 DEF InProgress
    <2> QED BY <1>3, <2>1, WriteFacts, GoodPut
  <1>7. AllGood(n.seen)
    <2>1. CASE Reads(r, n)
      <3>1. r \in Sent
        BY <2>1 DEF Reads, CanRun, InStatement, At, Sent
      <3> DEFINE rows == {row \in DOMAIN View(r) :
                            row[1] = Current(r).row[1] /\ Exists(View(r), row)}
                 new == [row \in rows |-> View(r)[row]]
      <3>2. AllGood(View(r))
        BY <1>2, <1>4, <3>1, OverGood DEF View
      <3>3. AllGood(new)
        BY <3>2 DEF AllGood
      <3>4. n.seen = Over(new, request[r].seen)
        BY <2>1 DEF Reads
      <3> HIDE DEF new
      <3> QED BY <1>2, <3>1, <3>3, <3>4, OverGood
    <2> QED BY <1>2, <1>3, <2>1, SeenFacts
  <1>8. \A f : AllGood(f) => \A row \in DOMAIN f : Good(row, f[row])'
    BY <1>1 DEF AllGood
  <1>9. AllGood(db)'
    BY <1>5, <1>8 DEF AllGood
  <1>10. ASSUME NEW s \in Sent'
         PROVE  AllGood(request[s].writes)' /\ AllGood(request[s].seen)'
    <2>1. CASE s = r
      <3>1. request'[s] = n
        BY <2>1, StepFacts
      <3>2. AllGood(request'[s].writes) /\ AllGood(request'[s].seen)
        BY <1>6, <1>7, <3>1
      <3> QED BY <1>8, <3>2 DEF AllGood
    <2>2. CASE s # r
      <3>1. s \in Sent /\ request'[s] = request[s]
        BY <2>2, StepFacts DEF Sent
      <3>2. AllGood(request'[s].writes) /\ AllGood(request'[s].seen)
        BY <1>2, <3>1
      <3> QED BY <1>8, <3>2 DEF AllGood
    <2> QED BY <2>1, <2>2
  <1> QED BY <1>9, <1>10 DEF GoodInv

LEMMA GoodInit ==
  ASSUME Init
  PROVE  GoodInv
  <1>1. Sent = {}
    BY DEF Init, NotSent, Sent, At
  <1>2. api \in DOMAIN Seed /\ db = Seed[api]
    BY DEF Init
  <1> QED BY <1>1, <1>2, SeedGood DEF GoodInv

LEMMA GoodHolds == Spec => [](Base /\ GoodInv)
  <1>1. Base /\ GoodInv /\ [Next]_vars => GoodInv'
    <2>1. ASSUME Base, GoodInv, Next PROVE GoodInv'
      BY <2>1, NextMoves, GoodStep
    <2>2. ASSUME Base, GoodInv, UNCHANGED vars PROVE GoodInv'
      BY <2>2 DEF vars, GoodInv, Sent, At, AllGood, Good
    <2> QED BY <2>1, <2>2
  <1> QED BY <1>1, GoodInit, BaseHolds, PTL DEF Spec

\* The version that a template says is published is one it has had or a client
\* has announced, however updates and publications overlap: PublishTemplate and
\* UpdateTemplate write what they have read, which was well before they read it
\* (templates.go).
THEOREM PublishedVersionsExist == Spec => []PublishedVersionExists
  <1>1. GoodInv => PublishedVersionExists
    BY DEF GoodInv, AllGood, Good, TemplateColumns, PublishedVersionExists
  <1> QED BY <1>1, GoodHolds, PTL


-----------------------------------------------------------------------------
(* What has been ended stays ended.                                         *)

\* How a request may differ from the tables in the rows it holds the locks of.
LockFits(s) ==
  \A row \in DOMAIN s.writes : row \in DOMAIN db =>
    /\ row[1] = "subscribers" /\ db[row].erased => s.writes[row].erased
    /\ row[1] = "workflows" /\ ~db[row].active /\ s.writes[row].active =>
         s.op.name = "ActivateWorkflow"

LockInv == \A r \in Sent : LockFits(request[r])

\* Nobody else changes a row that a request has written.
LEMMA Untouched ==
  ASSUME Base, NEW r \in Requests, NEW n, Step(r, n), NEW s \in Sent, s # r,
         NEW row \in DOMAIN request[s].writes
  PROVE  /\ row \in DOMAIN db' <=> row \in DOMAIN db
         /\ row \in DOMAIN db => db'[row] = db[row]
  <1>1. CASE db' = db
    BY <1>1
  <1>2. CASE Commits(r, n) /\ db' = Over(request[r].writes, db)
    <2>1. r \in InProgress
      BY <1>2 DEF Commits, InProgress, Sent, At
    <2>2. s \in InProgress
      <3>1. request[s].writes # None
        BY NoRows
      <3> QED BY <3>1 DEF Base, Shape, InProgress, At
    <2>3. row \notin DOMAIN request[r].writes
      BY <2>1, <2>2 DEF Base, Apart
    <2> QED BY <1>2, <2>3 DEF Over
  <1> QED BY <1>1, <1>2, TableFacts

\* A row that exists is not there to be inserted.
LEMMA Inserted ==
  ASSUME GoodInv, NEW r \in Sent, NEW row, ~Exists(View(r), row), row \in DOMAIN db
  PROVE  ~(row[1] \in {"subscribers", "workflows"})
  <1>1. AllGood(View(r))
    BY OverGood DEF GoodInv, View
  <1>2. row \in DOMAIN View(r) /\ View(r)[row] = Deleted
    BY DEF Exists, View, Over
  <1>3. Good(row, Deleted)
    BY <1>1, <1>2 DEF AllGood
  <1>4. DOMAIN Deleted = {"deleted"}
    BY DEF Deleted
  <1> QED BY <1>3, <1>4 DEF Good, SubscriberColumns, WorkflowColumns

LEMMA LockPut ==
  ASSUME Base, GoodInv, NEW r \in Sent, LockFits(request[r]), NEW n, Puts(r, n)
  PROVE  LockFits(n)
  <1>1. PICK op, seen, i, st, c : PutsAs(r, n, op, seen, i, st, c)
    BY PutFacts DEF Sent
  <1>2. AllGood(View(r))
    BY OverGood DEF GoodInv, View
  <1>3. /\ st.row \in DOMAIN request[r].writes => View(r)[st.row] = request[r].writes[st.row]
        /\ st.row \in DOMAIN db \ DOMAIN request[r].writes => View(r)[st.row] = db[st.row]
    BY DEF View, Over
  <1>4. st.do = "insert" /\ st.row \in DOMAIN db => st.row[1] \notin {"subscribers", "workflows"}
    BY <1>1, Inserted DEF PutsAs
  <1>5. /\ DOMAIN n.writes = {st.row} \cup DOMAIN request[r].writes
        /\ n.writes[st.row] = c
        /\ \A row \in DOMAIN request[r].writes : row # st.row =>
             n.writes[row] = request[r].writes[row]
    BY <1>1 DEF PutsAs, Over, Row
  <1>6. ASSUME st.row[1] = "subscribers", st.row \in DOMAIN db, db[st.row].erased
        PROVE  c.erased
    <2>1. api = "subscribers" /\ SubscriberColumns(db[st.row])
      <3>1. Good(st.row, db[st.row])
        BY <1>6 DEF GoodInv, AllGood
      <3> QED BY <1>6, <3>1 DEF Good, Tables, Base, Seed
    <2>2. SubscriberStatement(r, op, seen, i, st)
      BY <1>1, <2>1, SubscriberStatements DEF PutsAs
    <2>3. \/ st = CreateSubscriber(r)[2] \/ st = UpdateSubscriber(r, seen)[2]
          \/ st = EraseSubscriber[1]
          \/ st.do = "select" \/ st.row[1] \in {"preferences", "consent_ledger"}
      BY <2>2 DEF SubscriberStatement, UpsertPreference, Upsert, Record, Insert, Statement,
                  Preference, Consent
    <2>4. st.do # "select" /\ st.do # "insert" /\ (st.do = "update" => c = Over(st.set, View(r)[st.row]))
      BY <1>1, <1>4, <1>6 DEF PutsAs
    <2>5. CASE st = UpdateSubscriber(r, seen)[2]
      <3>1. c = Over(st.set, View(r)[st.row]) /\ DOMAIN st.set = {"metadata", "by"}
        BY <2>4, <2>5 DEF UpdateSubscriber, Update, Statement
      <3>2. View(r)[st.row].erased /\ SubscriberColumns(View(r)[st.row])
        <4>1. st.row \in DOMAIN View(r)
          BY <1>6 DEF View, Over
        <4>2. SubscriberColumns(View(r)[st.row])
          BY <1>2, <1>6, <4>1 DEF AllGood, Good
        <4>3. View(r)[st.row].erased
          BY <1>3, <1>6 DEF LockFits
        <4> QED BY <4>2, <4>3
      <3> QED BY <3>1, <3>2 DEF Over, SubscriberColumns
    <2>6. CASE st = EraseSubscriber[1]
      <3>1. c = Over(st.set, View(r)[st.row])
            /\ st.set = [contact |-> "none", metadata |-> "none", erased |-> TRUE]
        BY <2>4, <2>6 DEF EraseSubscriber, Update, Statement
      <3> QED BY <3>1 DEF Over
    <2>7. CASE st = CreateSubscriber(r)[2]
      BY <2>4, <2>7 DEF CreateSubscriber, Insert, Statement
    <2> QED BY <1>6, <2>3, <2>4, <2>5, <2>6, <2>7
  <1>7. ASSUME st.row[1] = "workflows", st.row \in DOMAIN db, ~db[st.row].active, c.active
        PROVE  op.name = "ActivateWorkflow"
    <2>1. api = "workflows"
      <3>1. Good(st.row, db[st.row])
        BY <1>7 DEF GoodInv, AllGood
      <3> QED BY <1>7, <3>1 DEF Good, Tables, Base, Seed
    <2>2. WorkflowStatement(r, op, seen, i, st)
      BY <1>1, <2>1, WorkflowStatements DEF PutsAs
    <2>3. st.do # "select" /\ st.do # "insert" /\ (st.do = "update" => c = Over(st.set, View(r)[st.row]))
      BY <1>1, <1>4, <1>7, <2>2 DEF PutsAs
    <2>4. CASE st = UpdateWorkflow(r, seen)[2]
      <3>1. c = Over(st.set, View(r)[st.row]) /\ DOMAIN st.set = {"steps"}
        BY <2>3, <2>4 DEF UpdateWorkflow, Update, Statement
      <3>2. WorkflowColumns(View(r)[st.row])
        <4>1. st.row \in DOMAIN View(r)
          BY <1>7 DEF View, Over
        <4> QED BY <1>2, <1>7, <4>1 DEF AllGood, Good
      <3>3. View(r)[st.row].active
        BY <1>7, <3>1, <3>2 DEF Over, WorkflowColumns
      <3>4. request[r].op.name = "ActivateWorkflow"
        BY <1>3, <1>7, <3>3 DEF LockFits
      <3> QED BY <1>1, <3>4 DEF PutsAs
    <2>5. CASE st = DeactivateWorkflow[1]
      <3>1. c = Over(st.set, View(r)[st.row]) /\ st.set = [active |-> FALSE]
        BY <2>3, <2>5 DEF DeactivateWorkflow, Update, Statement
      <3> QED BY <1>7, <3>1 DEF Over
    <2>6. CASE st = CreateWorkflow(r)[1]
      BY <2>3, <2>6 DEF CreateWorkflow, Insert, Statement
    <2> QED BY <2>2, <2>3, <2>4, <2>5, <2>6 DEF WorkflowStatement
  <1>8. n.op = op /\ request[r].op = op
    BY <1>1 DEF PutsAs
  <1>9. ASSUME NEW row \in DOMAIN n.writes, row \in DOMAIN db
        PROVE  /\ row[1] = "subscribers" /\ db[row].erased => n.writes[row].erased
               /\ row[1] = "workflows" /\ ~db[row].active /\ n.writes[row].active =>
                    n.op.name = "ActivateWorkflow"
    <2>1. CASE row = st.row
      BY <1>5, <1>6, <1>7, <1>8, <1>9, <2>1
    <2>2. CASE row # st.row
      BY <1>5, <1>8, <1>9, <2>2 DEF LockFits
    <2> QED BY <2>1, <2>2
  <1> QED BY <1>9 DEF LockFits

LEMMA LockStep ==
  ASSUME Base, GoodInv, LockInv, NEW r \in Requests, NEW n, Step(r, n)
  PROVE  LockInv'
  <1>1. ASSUME NEW s \in Sent', s # r PROVE LockFits(request[s])'
    <2>1. s \in Sent /\ request'[s] = request[s]
      BY <1>1, StepFacts DEF Sent
    <2>2. LockFits(request[s])
      BY <2>1 DEF LockInv
    <2>3. \A row \in DOMAIN request[s].writes :
            /\ row \in DOMAIN db' <=> row \in DOMAIN db
            /\ row \in DOMAIN db => db'[row] = db[row]
      BY <1>1, <2>1, Untouched
    <2> QED BY <2>1, <2>2, <2>3 DEF LockFits
  <1>2. LockFits(request[r])'
    <2>1. request'[r] = n
      BY StepFacts
    <2>2. CASE n.writes = None
      BY <2>1, <2>2, NoRows DEF LockFits
    <2>3. CASE /\ r \in InProgress /\ n.writes = request[r].writes /\ n.op = request[r].op
               /\ db' = db
      BY <2>1, <2>3 DEF LockFits, LockInv, InProgress
    <2>4. CASE Puts(r, n)
      <3>1. r \in Sent /\ db' = db
        BY <2>4 DEF Puts, CanRun, InStatement, At, Sent
      <3>2. LockFits(n)
        BY <2>4, <3>1, LockPut DEF LockInv
      <3> QED BY <2>1, <3>1, <3>2 DEF LockFits
    <2> QED BY <2>2, <2>3, <2>4, WriteFacts
  <1> QED BY <1>1, <1>2 DEF LockInv

Revokes(s) == s.op.name = "RevokeAPIKey"

\* The handler has revoked the key, unless its transaction is aborted.
HasRevoked(s) ==
  /\ Revokes(s) /\ s.status = "ok" /\ ~s.aborted
  /\ s.pc = "settle" \/ (s.pc = "run" /\ s.at > 1)

KeyFits(s) ==
  /\ APIKey \in DOMAIN s.writes => s.writes[APIKey].revoked
  /\ HasRevoked(s) => APIKey \in DOMAIN s.writes /\ ~db[APIKey].revoked
  /\ Revokes(s) /\ s.committed => db[APIKey].revoked

KeyInv ==
  api = "keys" =>
    /\ APIKey \in DOMAIN db
    /\ \A r \in Sent : KeyFits(request[r])
    /\ \A r, s \in Sent : /\ Revokes(request[r]) /\ request[r].committed
                          /\ Revokes(request[s]) /\ request[s].committed
                          => r = s

LEMMA OneStatement ==
  ASSUME NEW r, NEW op, NEW seen, op.name = "RevokeAPIKey"
  PROVE  Len(Program(r, op, seen)) = 1
  BY DEF Program, RevokeAPIKey

\* The statement of RevokeAPIKey, as it may be sent.
LEMMA RevokeStatement ==
  ASSUME Base, api = "keys", NEW r \in Requests, InStatement(r), Revokes(request[r])
  PROVE  /\ Current(r) = RevokeAPIKey[1] /\ Current(r).do = "update"
         /\ Current(r).check = "found" /\ request[r].at = 1
  <1>1. PICK op, i, seen : /\ op = request[r].op /\ i = request[r].at
                           /\ seen = Over(request[r].seen, Seed[api])
    OBVIOUS
  <1>2. op \in Operations[api] /\ i \in Nat \ {0} /\ i <= Len(Program(r, op, seen))
    BY <1>1, SentFacts DEF Shape, InStatement, At, Statements
  <1>3. KeyStatement(r, op, seen, i, Program(r, op, seen)[i])
    BY <1>2, KeyStatements DEF Sendable
  <1>4. Current(r) = Program(r, op, seen)[i]
    BY <1>1 DEF Current, Statements
  <1>5. Current(r) = RevokeAPIKey[1] /\ i = 1
    BY <1>1, <1>3, <1>4 DEF KeyStatement, Revokes
  <1> QED BY <1>1, <1>5 DEF RevokeAPIKey, Statement

\* What a write of r makes of the key.
LEMMA KeyPut ==
  ASSUME Base, GoodInv, KeyInv, api = "keys", NEW r \in Sent, NEW n, Puts(r, n)
  PROVE  /\ APIKey \in DOMAIN n.writes => n.writes[APIKey].revoked
         /\ Revokes(n) => APIKey \in DOMAIN n.writes /\ ~db[APIKey].revoked
  <1>1. PICK op, seen, i, st, c : PutsAs(r, n, op, seen, i, st, c)
    BY PutFacts DEF Sent
  <1>2. KeyStatement(r, op, seen, i, st)
    BY <1>1, KeyStatements DEF PutsAs
  <1>3. /\ APIKey \in DOMAIN db
        /\ APIKey \in DOMAIN request[r].writes => request[r].writes[APIKey].revoked
    BY DEF KeyInv, KeyFits
  <1>4. /\ APIKey \in DOMAIN request[r].writes => View(r)[APIKey] = request[r].writes[APIKey]
        /\ APIKey \notin DOMAIN request[r].writes => View(r)[APIKey] = db[APIKey]
    BY <1>3 DEF View, Over
  <1>5. /\ DOMAIN n.writes = {st.row} \cup DOMAIN request[r].writes
        /\ n.writes[st.row] = c /\ n.op = op
        /\ \A row \in DOMAIN request[r].writes : row # st.row =>
             n.writes[row] = request[r].writes[row]
    BY <1>1 DEF PutsAs, Over, Row
  <1>6. CASE op.name = "RevokeAPIKey" /\ st = RevokeAPIKey[1]
    <2>1. /\ st.row = APIKey /\ Matches(View(r), st) /\ c = Over(st.set, View(r)[st.row])
          /\ st.set = [revoked |-> TRUE] /\ st.where = [revoked |-> FALSE]
      <3>1. /\ st.do = "update" /\ st.row = APIKey
            /\ st.set = [revoked |-> TRUE] /\ st.where = [revoked |-> FALSE]
        BY <1>6 DEF RevokeAPIKey, Statement
      <3> QED BY <1>1, <3>1 DEF PutsAs
    <2>2. ~View(r)[APIKey].revoked
      <3>1. View(r)[APIKey]["revoked"] = FALSE
        BY <2>1 DEF Matches
      <3> QED BY <3>1
    <2>3. c.revoked
      BY <2>1 DEF Over
    <2> QED BY <1>3, <1>4, <1>5, <2>1, <2>2, <2>3
  <1>7. CASE op.name # "RevokeAPIKey" /\ st = CreateAPIKey(r)[1]
    <2>1. st.row # APIKey
      BY <1>7 DEF CreateAPIKey, Insert, Statement, APIKey
    <2> QED BY <1>3, <1>5, <1>7, <2>1 DEF Revokes
  <1>8. st.do # "select"
    BY <1>1 DEF PutsAs
  <1> QED BY <1>2, <1>6, <1>7, <1>8 DEF KeyStatement

\* A request that comes to have revoked the key has just written it.
LEMMA RevokedBy ==
  ASSUME Base, api = "keys", NEW r \in Requests, NEW n, Step(r, n), HasRevoked(n)
  PROVE  \/ Puts(r, n)
         \/ /\ r \in Sent /\ HasRevoked(request[r]) /\ n.writes = request[r].writes
            /\ db' = db
  <1>1. Shape(n) /\ Moves(r, n)
    BY DEF Step
  <1>2. CASE Puts(r, n)
    BY <1>2
  <1>3. CASE Skips(r, n) \/ Passes(r, n) \/ Reads(r, n)
    <2>1. InStatement(r) /\ Revokes(request[r])
      BY <1>3 DEF Skips, Passes, Reads, CanRun, SameData, Same, HasRevoked, Revokes
    <2>2. Current(r).do = "update" /\ Current(r).check = "found"
      BY <2>1, RevokeStatement
    <2> QED BY <1>3, <2>2 DEF Skips, Passes, Reads
  <1>4. CASE Returns(r, n)
    <2>1. /\ request[r].pc = "run" /\ r \in Sent /\ Revokes(request[r])
          /\ request[r].at > Len(Statements(r))
          /\ n.writes = request[r].writes /\ db' = db /\ ~request[r].aborted
      BY <1>4 DEF Returns, SameData, Same, HasRevoked, Revokes, Sent, At
    <2>2. Len(Statements(r)) = 1
      BY <2>1, OneStatement DEF Statements, Revokes
    <2>3. request[r].status = "ok"
      BY <2>1, SentFacts DEF Shape
    <2> QED BY <2>1, <2>2, <2>3 DEF HasRevoked
  <1>5. CASE Leaves(r, n)
    BY <1>5 DEF Leaves, SameData, Same, HasRevoked, Revokes, InProgress
  <1>6. CASE Arrives(r, n)
    <2>1. n.pc # "settle" /\ n.at = 1
      BY <1>6 DEF Arrives
    <2>2. ~(n.at > 1)
      BY <2>1
    <2> QED BY <2>1, <2>2 DEF HasRevoked
  <1>7. CASE Refuses(r, n) \/ Commits(r, n) \/ Drops(r, n) \/ Audits(r, n) \/ Ends(r, n)
    BY <1>7 DEF Refuses, Commits, Drops, Audits, Ends, HasRevoked
  <1> QED BY <1>1, <1>2, <1>3, <1>4, <1>5, <1>6, <1>7 DEF Moves

\* Who has committed had not, or has it from before.
LEMMA CommittedBy ==
  ASSUME Base, NEW r \in Requests, NEW n, Step(r, n), n.committed
  PROVE  \/ Commits(r, n) /\ ~request[r].committed
         \/ r \in Sent /\ request[r].committed /\ n.op = request[r].op /\ db' = db
  <1>1. request[r].pc \in {"run", "settle"} => ~request[r].committed
    BY SentFacts DEF Shape
  <1>2. request[r].pc # "not sent" => r \in Sent
    BY DEF Sent, At
  <1> QED BY <1>1, <1>2 DEF Step, Moves, Arrives, Refuses, Skips, Passes, Reads, Puts, Returns,
             Commits, Drops, Audits, Ends, Leaves, SameData, Same, InStatement, CanRun, At,
             InProgress

LEMMA KeyStep ==
  ASSUME Base, GoodInv, KeyInv, NEW r \in Requests, NEW n, Step(r, n)
  PROVE  KeyInv'
  <1> SUFFICES ASSUME api = "keys"
               PROVE  /\ APIKey \in DOMAIN db'
                      /\ \A s \in Sent' : KeyFits(request[s])'
                      /\ \A s, q \in Sent' :
                           /\ Revokes(request'[s]) /\ request'[s].committed
                           /\ Revokes(request'[q]) /\ request'[q].committed
                           => s = q
    BY StepFacts DEF KeyInv, Revokes
  <1>1. /\ APIKey \in DOMAIN db
        /\ \A s \in Sent : KeyFits(request[s])
        /\ \A s, q \in Sent : /\ Revokes(request[s]) /\ request[s].committed
                              /\ Revokes(request[q]) /\ request[q].committed
                              => s = q
    BY DEF KeyInv
  <1>2. APIKey \in DOMAIN db' /\ (db[APIKey].revoked => db'[APIKey].revoked)
    <2>1. CASE db' = db
      BY <1>1, <2>1
    <2>2. CASE Commits(r, n) /\ db' = Over(request[r].writes, db)
      <3>1. KeyFits(request[r])
        BY <1>1, <2>2 DEF Commits, Sent, At
      <3> QED BY <1>1, <2>2, <3>1 DEF KeyFits, Over
    <2> QED BY <2>1, <2>2, TableFacts
  <1>3. request'[r] = n /\ \A s \in Sent' : s = r \/ (s \in Sent /\ request'[s] = request[s])
    BY StepFacts DEF Sent
  <1>4. ASSUME Commits(r, n), Revokes(n)
        PROVE  ~db[APIKey].revoked /\ db'[APIKey].revoked
    <2>1. r \in Sent /\ HasRevoked(request[r]) /\ db' = Over(request[r].writes, db)
      BY <1>4 DEF Commits, Sent, At, HasRevoked, Revokes, View
    <2>2. KeyFits(request[r])
      BY <1>1, <2>1
    <2> QED BY <2>1, <2>2 DEF KeyFits, Over
  <1>5. ASSUME NEW s \in Sent', s # r PROVE KeyFits(request[s])'
    <2>1. s \in Sent /\ request'[s] = request[s] /\ KeyFits(request[s])
      BY <1>1, <1>3, <1>5
    <2>2. APIKey \in DOMAIN request[s].writes => db'[APIKey] = db[APIKey]
      BY <1>1, <1>5, <2>1, Untouched
    <2> QED BY <1>2, <2>1, <2>2 DEF KeyFits, HasRevoked, Revokes
  <1>6. KeyFits(request[r])'
    <2>1. APIKey \in DOMAIN n.writes => n.writes[APIKey].revoked
      <3>1. CASE n.writes = None
        BY <3>1, NoRows
      <3>2. CASE r \in InProgress /\ n.writes = request[r].writes
        BY <1>1, <3>2 DEF KeyFits, InProgress
      <3>3. CASE Puts(r, n)
        BY <3>3, KeyPut DEF Puts, CanRun, InStatement, At, Sent
      <3> QED BY <3>1, <3>2, <3>3, WriteFacts
    <2>2. HasRevoked(n) => APIKey \in DOMAIN n.writes /\ ~db'[APIKey].revoked
      <3>1. ASSUME HasRevoked(n), Puts(r, n)
            PROVE  APIKey \in DOMAIN n.writes /\ ~db'[APIKey].revoked
        <4>1. r \in Sent /\ db' = db
          BY <3>1 DEF Puts, CanRun, InStatement, At, Sent
        <4> QED BY <3>1, <4>1, KeyPut DEF HasRevoked
      <3>2. ASSUME r \in Sent, HasRevoked(request[r]), n.writes = request[r].writes, db' = db
            PROVE  APIKey \in DOMAIN n.writes /\ ~db'[APIKey].revoked
        BY <1>1, <3>2 DEF KeyFits
      <3> QED BY <3>1, <3>2, RevokedBy
    <2>3. ASSUME Revokes(n), n.committed PROVE db'[APIKey].revoked
      <3>1. CASE Commits(r, n)
        BY <1>4, <2>3, <3>1
      <3>2. CASE r \in Sent /\ request[r].committed /\ n.op = request[r].op /\ db' = db
        BY <1>1, <2>3, <3>2 DEF KeyFits, Revokes
      <3> QED BY <2>3, <3>1, <3>2, CommittedBy
    <2> QED BY <1>3, <2>1, <2>2, <2>3 DEF KeyFits, HasRevoked, Revokes
  <1>7. ASSUME NEW s \in Sent, s # r, Revokes(n), n.committed,
               Revokes(request[s]), request[s].committed
        PROVE  FALSE
    <2>1. db[APIKey].revoked
      BY <1>1, <1>7 DEF KeyFits
    <2>2. CASE Commits(r, n)
      BY <1>4, <1>7, <2>1, <2>2
    <2>3. CASE r \in Sent /\ request[r].committed /\ n.op = request[r].op
      BY <1>1, <1>7, <2>3 DEF Revokes
    <2> QED BY <1>7, <2>2, <2>3, CommittedBy
  <1> QED BY <1>1, <1>2, <1>3, <1>5, <1>6, <1>7

LEMMA EndInit ==
  ASSUME Init
  PROVE  LockInv /\ KeyInv
  <1>1. Sent = {}
    BY DEF Init, NotSent, Sent, At
  <1>2. api = "keys" => APIKey \in DOMAIN db
    BY DEF Init, Seed, Row
  <1> QED BY <1>1, <1>2 DEF LockInv, KeyInv

\* What a commit may do to the rows of subscribers and workflows.
LEMMA EndedStep ==
  ASSUME Base, GoodInv, LockInv, NEW r \in Requests, NEW n, Step(r, n), NEW row \in DOMAIN db
  PROVE  /\ row[1] = "subscribers" /\ db[row].erased =>
               db'[row].erased /\ db'[row].contact = "none"
         /\ row[1] = "workflows" /\ ~db[row].active /\ db'[row].active =>
               \E s \in Sent : request[s].op.name = "ActivateWorkflow"
                              /\ ~request[s].committed /\ request'[s].committed
  <1>1. Good(row, db[row])
    BY DEF GoodInv, AllGood
  <1>2. CASE db' = db
    BY <1>1, <1>2 DEF Good, SubscriberColumns
  <1>3. CASE Commits(r, n) /\ db' = Over(request[r].writes, db)
    <2>1. r \in Sent /\ Shape(request[r]) /\ request[r].pc = "settle"
      BY <1>3, SentFacts DEF Commits, Sent, At
    <2>2. LockFits(request[r]) /\ AllGood(request[r].writes)
      BY <2>1 DEF LockInv, GoodInv
    <2>3. db'[row] = IF row \in DOMAIN request[r].writes THEN request[r].writes[row] ELSE db[row]
      BY <1>3 DEF Over
    <2>4. row \in DOMAIN request[r].writes => Good(row, request[r].writes[row])
      BY <2>2 DEF AllGood
    <2>5. ASSUME row[1] = "subscribers", db[row].erased
          PROVE  db'[row].erased /\ db'[row].contact = "none"
      BY <1>1, <2>2, <2>3, <2>4, <2>5 DEF Good, SubscriberColumns, LockFits
    <2>6. ASSUME row[1] = "workflows", ~db[row].active, db'[row].active
          PROVE  /\ request[r].op.name = "ActivateWorkflow"
                 /\ ~request[r].committed /\ request'[r].committed
      <3>1. request[r].op.name = "ActivateWorkflow"
        BY <2>2, <2>3, <2>6 DEF LockFits
      <3>2. ~request[r].committed
        BY <2>1 DEF Shape
      <3>3. request'[r].committed
        BY <1>3, StepFacts DEF Commits
      <3> QED BY <3>1, <3>2, <3>3
    <2> QED BY <2>1, <2>5, <2>6
  <1> QED BY <1>2, <1>3, TableFacts

\* Of several revocations of a key one succeeds.
LEMMA OneRevokes ==
  ASSUME Base, KeyInv
  PROVE  RevokedOnce
  <1> DEFINE S == {r \in Sent : request[r].op.name = "RevokeAPIKey" /\ request[r].committed}
  <1>1. CASE api = "keys"
    <2>1. \A r, s \in S : r = s
      BY <1>1 DEF KeyInv, Revokes
    <2>2. CASE S = {}
      BY <2>2, FS_EmptySet DEF RevokedOnce
    <2>3. CASE S # {}
      <3>1. PICK r \in S : TRUE
        BY <2>3
      <3>2. S = {r}
        BY <2>1, <3>1
      <3>3. Cardinality(S) = 1
        BY <3>2, FS_Singleton
      <3> QED BY <3>3 DEF RevokedOnce
    <2> QED BY <2>2, <2>3
  <1>2. CASE api # "keys"
    <2>1. \A r \in Sent : request[r].op.name # "RevokeAPIKey"
      <3>1. ASSUME NEW r \in Sent PROVE request[r].op.name # "RevokeAPIKey"
        <4>1. request[r].op \in Operations[api]
              /\ api \in {"subscribers", "templates", "workflows", "dlt", "providers"}
          BY <1>2 DEF Base, Shape, Seed
        <4> QED BY <4>1, SubscriberOperations, TemplateOperations, WorkflowOperations,
                   DltOperations, ProviderOperations
      <3> QED BY <3>1
    <2>2. S = {}
      BY <2>1
    <2> QED BY <2>2, FS_EmptySet DEF RevokedOnce
  <1> QED BY <1>1, <1>2

\* What has been ended stays ended: whoever has written a row of it holds the
\* lock until the commit, and has written on top of what the row was then.
THEOREM EndedStays == Spec => EndedStaysEnded
  <1> DEFINE Ended1 == \A row \in DOMAIN db :
                         row[1] = "subscribers" /\ db[row].erased
                           => db'[row].erased /\ db'[row].contact = "none"
             Active1 == \A row \in DOMAIN db :
                          row[1] = "workflows" /\ ~db[row].active /\ db'[row].active
                            => \E r \in Sent : request[r].op.name = "ActivateWorkflow"
                                              /\ ~request[r].committed /\ request'[r].committed
  <1>1. Base /\ GoodInv /\ LockInv /\ KeyInv /\ [Next]_vars => LockInv' /\ KeyInv'
    <2>1. ASSUME Base, GoodInv, LockInv, KeyInv, Next PROVE LockInv' /\ KeyInv'
      BY <2>1, NextMoves, LockStep, KeyStep
    <2>2. ASSUME Base, GoodInv, LockInv, KeyInv, UNCHANGED vars PROVE LockInv' /\ KeyInv'
      BY <2>2 DEF vars, LockInv, KeyInv, Sent, At, LockFits, KeyFits
    <2> QED BY <2>1, <2>2
  <1>2. Base /\ GoodInv /\ LockInv /\ [Next]_vars => [Ended1]_vars /\ [Active1]_vars
    <2>1. ASSUME Base, GoodInv, LockInv, Next PROVE Ended1 /\ Active1
      <3>1. PICK r \in Requests : \E n : Step(r, n)
        BY <2>1, NextMoves
      <3>2. PICK n : Step(r, n)
        BY <3>1
      <3> QED BY <2>1, <3>2, EndedStep
    <2> QED BY <2>1
  <1>3. Base /\ KeyInv => RevokedOnce
    BY OneRevokes
  <1>4. Spec => [](Base /\ GoodInv)
    BY GoodHolds
  <1>5. Init => LockInv /\ KeyInv
    BY EndInit
  <1>6. Spec => [](LockInv /\ KeyInv)
    BY <1>1, <1>4, <1>5, PTL DEF Spec
  <1>7. Spec => []RevokedOnce
    BY <1>3, <1>4, <1>6, PTL
  <1>8. Spec => [][Ended1]_vars /\ [][Active1]_vars
    BY <1>2, <1>4, <1>6, PTL DEF Spec
  <1> QED BY <1>7, <1>8 DEF EndedStaysEnded, ErasedStaysErased, OnlyActivationActivates

-----------------------------------------------------------------------------
(* Statements whose errors are dropped: none is committed without the rest. *)

Pairs == api \in {"dlt", "providers"}
Target == IF api = "dlt" THEN DLTTemplate ELSE Provider

\* The columns of the last two statements of an update.
First == IF api = "dlt" THEN "pe_id" ELSE "priority"
Second == IF api = "dlt" THEN "sender_id" ELSE "is_active"
Updates(op) == op.name \in {"UpdateDLTTemplate", "UpdateProvider"}
Size(op) ==
  IF op.name = "UpdateProvider" THEN UpdateProviderSize(op)
  ELSE IF Updates(op) /\ op.arg THEN 3 ELSE IF Updates(op) THEN 2 ELSE 1

\* One request wrote both columns, or one that does not send the first wrote
\* the second.
Shorts == {r \in Sent : Short(request[r].op)}
Both(c) == c = Deleted \/ c[First] = c[Second] \/ c[Second] \in Shorts

PairStatement(r, op, i, st) ==
  LET last == Size(op)
  IN  \/ ~Updates(op) /\ i = 1 /\ st.do = "select"
      \/ ~Updates(op) /\ i = 1 /\ st.do = "insert" /\ st.row # Target
      \/ ~Updates(op) /\ i = 1 /\ st.do = "delete" /\ st.row = Target /\ st.check = "found"
      \/ /\ Updates(op) /\ st.do = "update" /\ st.row = Target /\ st.where = None
         /\ \/ /\ i = 1 /\ i + (IF Short(op) THEN 1 ELSE 2) = last
               /\ First \notin DOMAIN st.set /\ Second \notin DOMAIN st.set
            \/ /\ ~Short(op) /\ i = last - 1
               /\ st.check = "ignored" /\ st.set = [x \in {First} |-> r]
            \/ i = last /\ st.check = "ignored" /\ st.set = [x \in {Second} |-> r]

LEMMA PairSize ==
  ASSUME Pairs, NEW r, NEW op \in Operations[api], NEW seen
  PROVE  /\ Len(Program(r, op, seen)) = Size(op) /\ Size(op) \in 1 .. 3
         /\ Updates(op) /\ ~Short(op) => Size(op) # 1
  <1>1. CASE api = "dlt"
    <2>1. /\ Updates(op) => op.arg \in BOOLEAN /\ op.name = "UpdateDLTTemplate"
          /\ op.name \in {"ListDLTTemplates", "RegisterDLTTemplate", "DeleteDLTTemplate",
                          "UpdateDLTTemplate"}
      BY <1>1, DltOperations DEF Updates
    <2> QED BY <2>1 DEF Updates, Size, Program, ListDLTTemplates, RegisterDLTTemplate,
                        DeleteDLTTemplate, UpdateDLTTemplate
  <1>2. CASE api = "providers"
    <2>1. /\ Updates(op) => op.arg.config \in BOOLEAN /\ op.name = "UpdateProvider"
          /\ op.name \in {"ListProviders", "CreateProvider", "DeleteProvider", "UpdateProvider"}
      BY <1>2, ProviderOperations DEF Updates
    <2>2. CASE Updates(op)
      <3>1. Program(r, op, seen) = UpdateProvider(r, op.arg) /\ Size(op) = UpdateProviderSize(op)
        BY <2>1, <2>2 DEF Program, Size
      <3>2. Len(UpdateProvider(r, op.arg)) = UpdateProviderSize(op)
            /\ UpdateProviderSize(op) \in 1 .. 3 /\ (~Short(op) => UpdateProviderSize(op) # 1)
        BY <2>1, <2>2, UpdateProviderStatements
      <3> QED BY <3>1, <3>2
    <2>3. CASE ~Updates(op)
      BY <2>1, <2>3 DEF Updates, Size, Program, ListProviders, CreateProvider, DeleteProvider
    <2> QED BY <2>2, <2>3
  <1> QED BY <1>1, <1>2 DEF Pairs

LEMMA PairStatements ==
  ASSUME Pairs, NEW r, NEW op, NEW seen, NEW i, Sendable(r, op, seen, i)
  PROVE  PairStatement(r, op, i, Program(r, op, seen)[i])
  <1> DEFINE st == Program(r, op, seen)[i]
  <1> SUFFICES PairStatement(r, op, i, st)
    OBVIOUS
  <1>3. i \in Nat \ {0} /\ i <= Size(op)
    BY PairSize DEF Sendable
  <1>4. ~Updates(op) => i = 1
    BY <1>3 DEF Size, Updates
  <1>1. CASE api = "dlt"
    <2>1. DltStatement(r, op, seen, i, st)
      BY <1>1, DltStatements
    <2>2. /\ Updates(op) => op.arg \in BOOLEAN /\ op.name = "UpdateDLTTemplate"
          /\ op.name \in {"ListDLTTemplates", "RegisterDLTTemplate", "DeleteDLTTemplate",
                          "UpdateDLTTemplate"}
      BY <1>1, DltOperations
         DEF Updates, Sendable
    <2>4. Updates(op) => st.do # "select"
      BY <1>1, <2>2 DEF Updates, Sendable, Program, UpdateDLTTemplate, Update, Statement
    <2> HIDE DEF st
    <2>5. CASE ~Updates(op)
      BY <1>1, <1>4, <2>1, <2>2, <2>5
         DEF DltStatement, PairStatement, Target, Updates, RegisterDLTTemplate,
             DeleteDLTTemplate, Insert, Delete, Statement, DLTTemplate
    <2>6. CASE Updates(op)
      BY <1>1, <2>1, <2>2, <2>4, <2>6
         DEF DltStatement, PairStatement, Target, Updates, Size, First, Second, Update,
             Statement, Short
    <2> QED BY <2>5, <2>6
  <1>2. CASE api = "providers"
    <2>1. ProviderStatement(r, op, seen, i, st)
      BY <1>2, ProviderStatements
    <2>2. /\ Updates(op) => op.arg.config \in BOOLEAN /\ op.name = "UpdateProvider"
          /\ op.name \in {"ListProviders", "CreateProvider", "DeleteProvider", "UpdateProvider"}
      BY <1>2, ProviderOperations
         DEF Updates, Sendable
    <2>4. Updates(op) => st.do # "select"
      <3> SUFFICES ASSUME Updates(op) PROVE st.do # "select"
        OBVIOUS
      <3>1. st = UpdateProvider(r, op.arg)[i] /\ i \in 1 .. UpdateProviderSize(op)
        BY <1>3, <2>2 DEF Program, Size
      <3>2. st \in {ToConfig(r), ToPriority(r), ToActive(r)}
        BY <2>2, <3>1, UpdateProviderStatements
      <3> QED BY <3>2 DEF ToConfig, ToPriority, ToActive, Update, Statement
    <2> HIDE DEF st
    <2>5. CASE ~Updates(op)
      BY <1>2, <1>4, <2>1, <2>2, <2>5
         DEF ProviderStatement, PairStatement, Target, Updates, CreateProvider,
             DeleteProvider, Insert, Delete, Statement, Provider
    <2>6. CASE Updates(op)
      BY <1>2, <2>1, <2>2, <2>4, <2>6
         DEF ProviderStatement, PairStatement, Target, Updates, Size, UpdateProviderSize,
             First, Second, Update, Statement
    <2> QED BY <2>5, <2>6
  <1> QED BY <1>1, <1>2 DEF Pairs

LEMMA PairCurrent ==
  ASSUME Base, Pairs, NEW r \in Requests, InStatement(r)
  PROVE  PairStatement(r, request[r].op, request[r].at, Current(r))
  BY CurrentFacts, PairStatements

\* Of the two columns, the second is still to be written.
Late(s) == s.pc = "run" /\ Updates(s.op) /\ ~Short(s.op) /\ s.at = Size(s.op)

\* A request that was sent stays sent.
LEMMA ShortsStay ==
  ASSUME Base, NEW r \in Requests, NEW n, Step(r, n)
  PROVE  Shorts \subseteq Shorts'
  <1>1. r \in Sent => n.op = request[r].op
    BY DEF Step, Moves, Arrives, Refuses, Skips, Passes, Reads, Puts, Returns, Commits, Drops,
           Audits, Ends, Leaves, Same, SameData, Sent, At
  <1>2. Sent \subseteq Sent' /\ \A s \in Sent : request'[s].op = request[s].op
    BY <1>1, StepFacts DEF Sent
  <1> QED BY <1>2 DEF Shorts, Short

PairFits(r, s) ==
  /\ Target \in DOMAIN s.writes => Exists(db, Target)
  /\ s.pc \in {"run", "settle"} /\ s.status = "ok" /\ ~s.aborted =>
       IF Late(s)
       THEN \/ ~Exists(Over(s.writes, db), Target)
            \/ Target \in DOMAIN s.writes /\ s.writes[Target][First] = r
       ELSE Target \in DOMAIN s.writes => Both(s.writes[Target])

PairInv ==
  Pairs => /\ Target \in DOMAIN db /\ Both(db[Target])
           /\ \A r \in Sent : PairFits(r, request[r])

\* A row that is there has the two columns.
LEMMA PairColumns ==
  ASSUME Pairs, NEW c, Good(Target, c), c # Deleted
  PROVE  First \in DOMAIN c /\ Second \in DOMAIN c
  <1>1. CASE api = "dlt"
    BY <1>1 DEF Target, DLTTemplate, Good, DltColumns, First, Second
  <1>2. CASE api = "providers"
    BY <1>2 DEF Target, Provider, Good, ProviderColumns, First, Second
  <1> QED BY <1>1, <1>2 DEF Pairs

LEMMA PairPut ==
  ASSUME Base, GoodInv, PairInv, Pairs, NEW r \in Sent, NEW n, Puts(r, n)
  PROVE  PairFits(r, n)
  <1>1. PICK op, seen, i, st, c : PutsAs(r, n, op, seen, i, st, c) /\ i = request[r].at
    BY PutFacts DEF Sent
  <1>2. PairStatement(r, op, i, st)
    BY <1>1, PairStatements DEF PutsAs
  <1>3. /\ DOMAIN n.writes = {st.row} \cup DOMAIN request[r].writes
        /\ n.writes[st.row] = c /\ n.op = op
        /\ st.row # Target /\ Target \in DOMAIN n.writes =>
             /\ Target \in DOMAIN request[r].writes
             /\ n.writes[Target] = request[r].writes[Target]
    BY <1>1 DEF PutsAs, Over, Row
  <1>4. /\ n.pc = "run" /\ n.at = i + 1 /\ request[r].op = op
        /\ request[r].pc = "run" /\ request[r].status = "ok" /\ ~request[r].aborted
    BY <1>1, SentFacts DEF Puts, CanRun, InStatement, At, Sent, Shape, PutsAs
  <1>5. /\ Target \in DOMAIN request[r].writes => Exists(db, Target)
        /\ IF Late(request[r])
           THEN \/ ~Exists(View(r), Target)
                \/ Target \in DOMAIN request[r].writes /\ request[r].writes[Target][First] = r
           ELSE Target \in DOMAIN request[r].writes => Both(request[r].writes[Target])
    BY <1>4 DEF PairInv, PairFits, View
  <1>6. /\ Target \in DOMAIN db /\ Both(db[Target])
        /\ Target \in DOMAIN request[r].writes => View(r)[Target] = request[r].writes[Target]
        /\ Target \notin DOMAIN request[r].writes => View(r)[Target] = db[Target]
        /\ Target \in DOMAIN View(r)
    BY DEF PairInv, View, Over
  <1>7. Size(op) \in 1 .. 3 /\ i \in Nat \ {0} /\ (~Updates(op) => Size(op) = 1)
    BY <1>1, PairSize DEF PutsAs, Sendable, Size, Updates
  <1>8. CASE ~Updates(op)
    <2>1. ~Late(n) /\ ~Late(request[r])
      BY <1>3, <1>4, <1>8 DEF Late
    <2>2. CASE st.do = "insert" /\ st.row # Target
      BY <1>3, <1>5, <2>1, <2>2 DEF PairFits
    <2>3. CASE st.do = "delete" /\ st.row = Target
      <3>1. c = Deleted /\ Exists(View(r), Target)
        BY <1>1, <2>3 DEF PutsAs, Matches
      <3>2. Exists(db, Target)
        BY <1>5, <1>6, <3>1 DEF Exists
      <3> QED BY <1>3, <2>1, <2>3, <3>1, <3>2 DEF PairFits, Both
    <2>4. st.do # "select"
      BY <1>1 DEF PutsAs
    <2> QED BY <1>2, <1>8, <2>2, <2>3, <2>4 DEF PairStatement
  <1>9. CASE Updates(op)
    <2>1. st.do = "update" /\ st.row = Target
      BY <1>2, <1>9 DEF PairStatement
    <2>2. c = Over(st.set, View(r)[Target]) /\ Exists(View(r), Target)
      BY <1>1, <2>1 DEF PutsAs, Matches
    <2>3. Exists(db, Target)
      BY <1>5, <1>6, <2>2 DEF Exists
    <2>4. First \in DOMAIN View(r)[Target] /\ Second \in DOMAIN View(r)[Target]
      <3>1. AllGood(View(r))
        BY OverGood DEF GoodInv, View
      <3>2. Good(Target, View(r)[Target]) /\ View(r)[Target] # Deleted
        BY <2>2, <3>1 DEF AllGood, Exists
      <3> QED BY <3>2, PairColumns
    <2>5. First # Second
      BY DEF First, Second
    <2>6. Late(n) <=> i + 1 = Size(op) /\ ~Short(op)
      BY <1>3, <1>4, <1>9 DEF Late
    <2>7. Late(request[r]) <=> i = Size(op) /\ ~Short(op)
      BY <1>1, <1>4, <1>9 DEF Late
    <2>8. CASE /\ i = 1 /\ i + (IF Short(op) THEN 1 ELSE 2) = Size(op)
               /\ First \notin DOMAIN st.set /\ Second \notin DOMAIN st.set
      <3>1. c[First] = View(r)[Target][First] /\ c[Second] = View(r)[Target][Second]
        BY <2>2, <2>4, <2>8 DEF Over
      <3>2. ~Late(n) /\ ~Late(request[r])
        BY <1>4, <2>6, <2>7, <2>8
      <3>3. View(r)[Target] # Deleted /\ Both(View(r)[Target])
        BY <1>5, <1>6, <2>2, <3>2 DEF Exists
      <3> QED BY <1>3, <2>1, <2>3, <3>1, <3>2, <3>3 DEF PairFits, Both
    <2>9. CASE ~Short(op) /\ i = Size(op) - 1 /\ st.set = [x \in {First} |-> r]
      <3>1. c[First] = r
        BY <2>2, <2>9 DEF Over
      <3>2. Late(n)
        BY <1>7, <2>6, <2>9
      <3> QED BY <1>3, <2>1, <2>3, <3>1, <3>2 DEF PairFits
    <2>10. CASE i = Size(op) /\ st.set = [x \in {Second} |-> r]
      <3>1. c[Second] = r /\ c[First] = View(r)[Target][First]
        BY <2>2, <2>4, <2>5, <2>10 DEF Over
      <3>2. ~Late(n)
        BY <1>7, <2>6, <2>10
      <3>3. CASE Short(op)
        <4>1. r \in Shorts
          BY <1>4, <3>3 DEF Shorts
        <4> QED BY <1>3, <2>1, <2>3, <3>1, <3>2, <4>1 DEF PairFits, Both
      <3>4. CASE ~Short(op)
        <4>1. View(r)[Target][First] = r
          BY <1>5, <1>6, <2>2, <2>7, <2>10, <3>4
        <4> QED BY <1>3, <2>1, <2>3, <3>1, <3>2, <4>1 DEF PairFits, Both
      <3> QED BY <3>3, <3>4
    <2> QED BY <1>2, <1>9, <2>8, <2>9, <2>10 DEF PairStatement
  <1> QED BY <1>8, <1>9

\* An update that finds no row finds none in its later statements.
LEMMA PairPass ==
  ASSUME Base, PairInv, Pairs, NEW r \in Requests, NEW n, Passes(r, n)
  PROVE  PairFits(r, n)
  <1>1. /\ InStatement(r) /\ r \in Sent /\ n.writes = request[r].writes
        /\ ~Matches(View(r), Current(r)) /\ Current(r).do \in {"update", "delete"}
        /\ Current(r).check # "found"
    BY DEF Passes, CanRun, InStatement, At, Sent, SameData
  <1>2. PairStatement(r, request[r].op, request[r].at, Current(r))
    BY <1>1, PairCurrent
  <1>3. Current(r).row = Target /\ Current(r).where = None
    BY <1>1, <1>2 DEF PairStatement
  <1>4. ~Exists(View(r), Target)
    BY <1>1, <1>3, NoRows DEF Matches
  <1>5. Target \in DOMAIN request[r].writes => request[r].writes[Target] = Deleted
    BY <1>4 DEF Exists, View, Over
  <1>6. Target \in DOMAIN request[r].writes => Exists(db, Target)
    BY <1>1 DEF PairInv, PairFits
  <1> QED BY <1>1, <1>4, <1>5, <1>6 DEF PairFits, Both, View

LEMMA PairOwn ==
  ASSUME Base, GoodInv, PairInv, Pairs, NEW r \in Requests, NEW n, Step(r, n),
         ~Commits(r, n)
  PROVE  PairFits(r, n)
  <1>1. CASE n.writes = None /\ n.pc # "run"
    BY <1>1, NoRows DEF PairFits, Late
  <1>2. CASE Arrives(r, n)
    <2>1. Updates(n.op) /\ ~Short(n.op) => Size(n.op) # 1
      <3>1. n.op \in Operations[api]
        BY StepFacts DEF Shape
      <3> QED BY <3>1, PairSize
    <2>2. ~Late(n)
      BY <1>2, <2>1 DEF Arrives, Late
    <2> QED BY <1>2, <2>2, NoRows DEF Arrives, PairFits
  <1>3. CASE Refuses(r, n)
    <2>1. r \in Sent /\ n.writes = request[r].writes /\ n.status # "ok"
      BY <1>3 DEF Refuses, SameData, Sent, At
    <2> QED BY <2>1 DEF PairInv, PairFits
  <1>4. CASE Skips(r, n)
    <2>1. r \in Sent /\ n.writes = request[r].writes /\ n.aborted
      BY <1>4 DEF Skips, SameData, Sent, At, InStatement
    <2> QED BY <2>1 DEF PairInv, PairFits
  <1>5. CASE Passes(r, n)
    BY <1>5, PairPass
  <1>6. CASE Reads(r, n)
    <2>1. InStatement(r) /\ r \in Sent /\ n.writes = request[r].writes /\ n.op = request[r].op
          /\ Current(r).do = "select" /\ ~request[r].aborted
      BY <1>6 DEF Reads, CanRun, InStatement, At, Sent, SameData, Same
    <2>2. ~Updates(request[r].op)
      BY <2>1, PairCurrent DEF PairStatement
    <2>3. request[r].pc = "run" /\ request[r].status = "ok"
      BY <2>1, SentFacts DEF InStatement, At, Shape
    <2> QED BY <2>1, <2>2, <2>3 DEF PairInv, PairFits, Late
  <1>7. CASE Puts(r, n)
    BY <1>7, PairPut DEF Puts, CanRun, InStatement, At, Sent
  <1>8. CASE Returns(r, n)
    <2>1. /\ r \in Sent /\ n.writes = request[r].writes /\ n.op = request[r].op
          /\ n.aborted = request[r].aborted /\ n.pc = "settle" /\ request[r].pc = "run"
          /\ request[r].at > Len(Statements(r))
      BY <1>8 DEF Returns, SameData, Same, Sent, At
    <2>2. Shape(request[r])
      BY <2>1, SentFacts
    <2>3. Len(Statements(r)) = Size(request[r].op) /\ Size(request[r].op) \in 1 .. 3
      BY <2>2, PairSize DEF Statements, Shape
    <2>4. request[r].at # Size(request[r].op)
      BY <2>1, <2>3
    <2> QED BY <2>1, <2>2, <2>4 DEF PairInv, PairFits, Late, Shape
  <1>9. CASE Leaves(r, n)
    <2>1. /\ r \in Sent /\ n.writes = request[r].writes /\ n.op = request[r].op
          /\ n.aborted = request[r].aborted /\ n.pc = request[r].pc /\ n.at = request[r].at
          /\ n.status = request[r].status
      BY <1>9 DEF Leaves, SameData, Same, InProgress
    <2> QED BY <2>1 DEF PairInv, PairFits, Late
  <1>10. CASE Drops(r, n) \/ Audits(r, n) \/ Ends(r, n)
    BY <1>1, <1>10 DEF Drops, Audits, Ends
  <1> QED BY <1>2, <1>3, <1>4, <1>5, <1>6, <1>7, <1>8, <1>9, <1>10 DEF Step, Moves

LEMMA PairStep ==
  ASSUME Base, GoodInv, PairInv, NEW r \in Requests, NEW n, Step(r, n)
  PROVE  PairInv'
  <1> SUFFICES ASSUME Pairs
               PROVE  /\ Target \in DOMAIN db' /\ Both(db'[Target])
                      /\ \A s \in Sent' : PairFits(s, request[s])'
    <2>1. Pairs' = Pairs /\ Target' = Target /\ First' = First /\ Second' = Second
          /\ Shorts \subseteq Shorts'
      BY ShortsStay, StepFacts DEF Pairs, Target, First, Second
    <2> QED BY <2>1 DEF PairInv, Both, Deleted
  <1>1. api' = api /\ request'[r] = n
        /\ \A s \in Sent' : s = r \/ (s \in Sent /\ request'[s] = request[s])
    BY StepFacts DEF Sent
  <1>2. /\ Target' = Target /\ First' = First /\ Second' = Second
        /\ Shorts \subseteq Shorts'
    BY <1>1, ShortsStay DEF Target, First, Second
  <1>3. Target \in DOMAIN db /\ Both(db[Target]) /\ \A s \in Sent : PairFits(s, request[s])
    BY DEF PairInv
  <1>4. \/ db'[Target] = db[Target] /\ Target \in DOMAIN db'
        \/ /\ Commits(r, n) /\ Target \in DOMAIN request[r].writes
           /\ db'[Target] = request[r].writes[Target] /\ Target \in DOMAIN db'
           /\ Exists(db, Target) /\ Both(db'[Target])
    <2>1. CASE db' = db
      BY <1>3, <2>1
    <2>2. CASE Commits(r, n) /\ db' = Over(request[r].writes, db)
      <3>1. /\ r \in Sent /\ request[r].pc = "settle" /\ request[r].status = "ok"
            /\ ~request[r].aborted
        BY <2>2 DEF Commits, Sent, At
      <3>2. Target \in DOMAIN request[r].writes =>
              Exists(db, Target) /\ Both(request[r].writes[Target])
        BY <1>3, <3>1 DEF PairFits, Late
      <3> QED BY <1>3, <2>2, <3>2 DEF Over
    <2> QED BY <2>1, <2>2, TableFacts
  <1>5. ASSUME NEW s \in Sent', s # r PROVE PairFits(s, request[s])'
    <2>1. s \in Sent /\ request'[s] = request[s] /\ PairFits(s, request[s])
      BY <1>1, <1>3, <1>5
    <2>2. Target \in DOMAIN request[s].writes => db'[Target] = db[Target]
      BY <1>3, <1>5, <2>1, Untouched
    <2>3. Target \in DOMAIN request[s].writes => (Exists(db, Target) <=> Exists(db', Target))
      BY <1>3, <1>4, <2>2 DEF Exists
    <2>4. ASSUME ~Exists(Over(request[s].writes, db), Target)
          PROVE  ~Exists(Over(request[s].writes, db'), Target)
      BY <1>3, <1>4, <2>2, <2>4 DEF Exists, Over
    <2>5. Late(request[s])' <=> Late(request[s])
      BY <2>1 DEF Late, Updates, Size
    <2> QED BY <1>2, <2>1, <2>2, <2>3, <2>4, <2>5 DEF PairFits, Both, Exists, Deleted
  <1>6. PairFits(r, request[r])'
    <2>1. CASE Commits(r, n)
      <3>1. n.writes = None /\ n.pc # "run"
        BY <2>1 DEF Commits
      <3> QED BY <1>1, <3>1, NoRows DEF PairFits, Late
    <2>2. CASE ~Commits(r, n)
      <3>1. PairFits(r, n) /\ db' = db
        BY <2>2, PairOwn, TableFacts
      <3>2. Late(request[r])' <=> Late(n)
        BY <1>1 DEF Late, Updates, Size
      <3> QED BY <1>1, <1>2, <3>1, <3>2 DEF PairFits, Both, Exists, Deleted, Over
    <2> QED BY <2>1, <2>2
  <1> QED BY <1>3, <1>4, <1>5, <1>6

LEMMA PairInit ==
  ASSUME Init
  PROVE  PairInv
  <1>1. Sent = {}
    BY DEF Init, NotSent, Sent, At
  <1>2. Pairs => Target \in DOMAIN db /\ Both(db[Target])
    BY DEF Init, Seed, Row, Pairs, Target, Both, First, Second
  <1> QED BY <1>1, <1>2 DEF PairInv

\* A refused request has committed nothing, and an update whose later errors
\* are dropped (dlt.go, providers.go) is committed whole: a request that has
\* written only the first of the two columns still has the second to send.
THEOREM RequestsCommitWhole == Spec => []RequestsAreAtomic
  <1>1. Base /\ GoodInv /\ PairInv /\ [Next]_vars => PairInv'
    <2>1. ASSUME Base, GoodInv, PairInv, Next PROVE PairInv'
      BY <2>1, NextMoves, PairStep
    <2>2. ASSUME Base, GoodInv, PairInv, UNCHANGED vars PROVE PairInv'
      <3>1. api' = api /\ db' = db /\ request' = request
        BY <2>2 DEF vars
      <3>2. Sent' = Sent /\ Shorts' = Shorts
        BY <3>1 DEF Sent, At, Shorts
      <3>3. Pairs' = Pairs /\ Target' = Target /\ First' = First /\ Second' = Second
        BY <3>1 DEF Pairs, Target, First, Second
      <3>4. \A r \in Sent : PairFits(r, request[r]) => PairFits(r, request[r])'
        BY <3>1, <3>2, <3>3 DEF PairFits, Late, Both, Updates, Exists, Over, Deleted
      <3>5. Both(db[Target]) => Both(db[Target])'
        BY <3>1, <3>2, <3>3 DEF Both, Deleted
      <3> QED BY <2>2, <3>1, <3>2, <3>3, <3>4, <3>5 DEF PairInv
    <2> QED BY <2>1, <2>2
  <1>2. Base /\ GoodInv /\ PairInv => RequestsAreAtomic
    <2>1. ASSUME Base, GoodInv, PairInv PROVE RequestsAreAtomic
      <3>1. ASSUME NEW r \in Sent, request[r].committed, ~Public(request[r].op)
            PROVE  request[r].status \notin {"unauthorized", "not found", "error"}
        BY <2>1, <3>1 DEF Base, Shape
      <3>2. ASSUME Exists(db, DLTTemplate)
            PROVE  db[DLTTemplate].pe_id = db[DLTTemplate].sender_id
        <4>1. Good(DLTTemplate, db[DLTTemplate])
          BY <2>1, <3>2 DEF GoodInv, AllGood, Exists
        <4>2. api = "dlt"
          BY <2>1, <4>1 DEF Good, Tables, Base, Seed, DLTTemplate
        <4>3. Shorts = {}
          <5>1. \A s \in Sent : request[s].op \in Operations[api]
            BY <2>1, SentFacts DEF Shape, Sent, At
          <5> QED BY <4>2, <5>1, DltOperations DEF Shorts, Short
        <4> QED BY <2>1, <3>2, <4>2, <4>3 DEF PairInv, Pairs, Target, Both, First, Second, Exists
      <3>3. ASSUME Exists(db, Provider), db[Provider].priority # db[Provider].is_active
            PROVE  request[db[Provider].is_active].op.arg.priority = "too large"
        <4>1. Good(Provider, db[Provider])
          BY <2>1, <3>3 DEF GoodInv, AllGood, Exists
        <4>2. api = "providers"
          BY <2>1, <4>1 DEF Good, Tables, Base, Seed, Provider
        <4>3. db[Provider].is_active \in Shorts
          BY <2>1, <3>3, <4>2 DEF PairInv, Pairs, Target, Both, First, Second, Exists
        <4>4. PICK s \in Sent : s = db[Provider].is_active /\ Short(request[s].op)
          BY <4>3 DEF Shorts
        <4>5. request[s].op \in Operations[api] /\ request[s].op.name = "UpdateProvider"
          BY <2>1, <4>4, SentFacts DEF Shape, Short, Sent, At
        <4>6. request[s].op.arg.priority \in {"int4", "too large"}
          BY <4>2, <4>5, ProviderOperations
        <4> QED BY <4>4, <4>6 DEF Short
      <3> QED BY <3>1, <3>2, <3>3 DEF RequestsAreAtomic
    <2> QED BY <2>1
  <1> QED BY <1>1, <1>2, GoodHolds, PairInit, PTL DEF Spec

-----------------------------------------------------------------------------
(* The ledger, and errors that are dropped without a fault.                 *)

IsEntry(row) == row[1] = "consent_ledger"

\* A transaction has only entries of its own, of statements it has sent, and
\* nothing before its first statement.
Ledger(r, s) ==
  /\ \A row \in DOMAIN s.writes : IsEntry(row) =>
       row[2] = r /\ (s.pc = "run" => row[3] \in Nat /\ row[3] < s.at)
  /\ s.pc = "run" /\ s.at = 1 => s.writes = None

EntryInv ==
  /\ \A r \in Sent : Ledger(r, request[r])
  /\ \A row \in DOMAIN db : IsEntry(row) => row[2] \in Sent /\ request[row[2]].committed

\* The entry that a statement of r writes.
LEMMA EntryStatement ==
  ASSUME NEW r, NEW op, NEW seen, NEW i, Sendable(r, op, seen, i),
         Program(r, op, seen)[i].do # "select", IsEntry(Program(r, op, seen)[i].row),
         api = "subscribers"
  PROVE  Program(r, op, seen)[i].row = Consent(r, i)
  <1>1. PICK st : st = Program(r, op, seen)[i]
    OBVIOUS
  <1>2. SubscriberStatement(r, op, seen, i, st)
    BY <1>1, SubscriberStatements
  <1>3. CASE \E channel \in {"all", "email"}, opted \in BOOLEAN :
               st = UpsertPreference(r, Choice(channel, "all", opted))
    BY <1>1, <1>3 DEF UpsertPreference, Upsert, Statement, Preference, IsEntry
  <1>4. CASE \E channel \in {"all", "email"}, opted \in BOOLEAN,
                source \in {"api", "unsubscribe_link"} :
               st = Record(r, i, Choice(channel, "all", opted), source)
    BY <1>1, <1>4 DEF Record, Insert, Statement
  <1>5. CASE st = CreateSubscriber(r)[2] \/ st = UpdateSubscriber(r, seen)[2]
             \/ st = EraseSubscriber[1]
    BY <1>1, <1>5 DEF CreateSubscriber, UpdateSubscriber, EraseSubscriber, Insert, Update,
                      Statement, Subscriber, IsEntry
  <1> QED BY <1>1, <1>2, <1>3, <1>4, <1>5 DEF SubscriberStatement

LEMMA EntryPut ==
  ASSUME Base, GoodInv, NEW r \in Sent, Ledger(r, request[r]), NEW n, Puts(r, n)
  PROVE  Ledger(r, n)
  <1>1. PICK op, seen, i, st, c : PutsAs(r, n, op, seen, i, st, c) /\ i = request[r].at
    BY PutFacts DEF Sent
  <1>2. AllGood(n.writes)
    BY GoodPut DEF Sent
  <1>3. DOMAIN n.writes = {st.row} \cup DOMAIN request[r].writes
    BY <1>1 DEF PutsAs, Over, Row
  <1>4. n.pc = "run" /\ n.at = i + 1 /\ i \in Nat \ {0} /\ request[r].pc = "run"
    BY <1>1 DEF Puts, PutsAs, Sendable, CanRun, InStatement, At
  <1>5. ASSUME IsEntry(st.row)
        PROVE  st.row[2] = r /\ st.row[3] = i
    <2>1. api = "subscribers"
      <3>1. Good(st.row, n.writes[st.row])
        BY <1>2, <1>3 DEF AllGood
      <3> QED BY <1>5, <3>1 DEF Good, Tables, Base, Seed, IsEntry
    <2>2. st.do # "select"
      BY <1>1 DEF PutsAs
    <2>3. st.row = Consent(r, i)
      BY <1>1, <1>5, <2>1, <2>2, EntryStatement DEF PutsAs
    <2> QED BY <2>3 DEF Consent
  <1>6. ASSUME NEW row \in DOMAIN n.writes, IsEntry(row)
        PROVE  row[2] = r /\ row[3] \in Nat /\ row[3] < n.at
    <2>1. CASE row = st.row
      BY <1>4, <1>5, <1>6, <2>1
    <2>2. CASE row \in DOMAIN request[r].writes
      <3>1. row[2] = r /\ row[3] \in Nat /\ row[3] < i
        BY <1>1, <1>4, <1>6, <2>2 DEF Ledger
      <3> QED BY <1>4, <3>1
    <2> QED BY <1>3, <1>6, <2>1, <2>2
  <1>7. n.at # 1
    BY <1>4
  <1> QED BY <1>6, <1>7 DEF Ledger

\* The statements of r go on from its writes.
LEMMA EntryOwn ==
  ASSUME Base, GoodInv, EntryInv, NEW r \in Requests, NEW n, Step(r, n)
  PROVE  Ledger(r, n)
  <1>1. CASE n.writes = None
    BY <1>1, NoRows DEF Ledger
  <1>2. CASE Puts(r, n)
    BY <1>2, EntryPut DEF EntryInv, Puts, CanRun, InStatement, At, Sent
  <1>3. CASE r \in InProgress /\ n.writes = request[r].writes
    <2>1. Ledger(r, request[r]) /\ Shape(request[r])
      BY <1>3 DEF EntryInv, InProgress, Base
    <2>2. CASE n.pc # "run"
      BY <1>3, <2>1, <2>2 DEF Ledger
    <2>3. CASE n.pc = "run" /\ ~Arrives(r, n)
      <3>1. request[r].pc = "run" /\ n.at \in {request[r].at, request[r].at + 1}
        BY <2>3 DEF Step, Moves, Refuses, Skips, Passes, Reads, Puts, Returns, Commits, Drops,
                    Audits, Ends, Leaves, InStatement, CanRun, At
      <3>2. request[r].at \in Nat /\ request[r].at # 0
        BY <2>1, <3>1 DEF Shape
      <3>3. n.at = 1 => request[r].at = 1
        BY <3>1, <3>2
      <3>4. ASSUME NEW row \in DOMAIN n.writes, IsEntry(row)
            PROVE  row[2] = r /\ row[3] \in Nat /\ row[3] < n.at
        <4>1. row[2] = r /\ row[3] \in Nat /\ row[3] < request[r].at
          BY <1>3, <2>1, <3>1, <3>4 DEF Ledger
        <4> QED BY <3>1, <3>2, <4>1
      <3> QED BY <1>3, <2>1, <3>1, <3>3, <3>4 DEF Ledger
    <2>4. CASE Arrives(r, n)
      BY <1>1, <2>4 DEF Arrives
    <2> QED BY <2>2, <2>3, <2>4
  <1> QED BY <1>1, <1>2, <1>3, WriteFacts

LEMMA EntryStep ==
  ASSUME Base, GoodInv, EntryInv, NEW r \in Requests, NEW n, Step(r, n)
  PROVE  EntryInv'
  <1>1. request'[r] = n /\ r \in Sent'
        /\ \A s \in Sent' : s = r \/ (s \in Sent /\ request'[s] = request[s])
    BY StepFacts DEF Sent
  <1>2. ASSUME NEW s \in Sent, request[s].committed
        PROVE  s \in Sent' /\ request'[s].committed
    <2>1. CASE s # r
      BY <1>2, <2>1, StepFacts DEF Sent
    <2>2. CASE s = r
      <3>1. request[r].pc \notin {"run", "settle"}
        BY <1>2, <2>2 DEF Base, Shape
      <3>2. n.committed
        BY <1>2, <2>2, <3>1
           DEF Step, Moves, Arrives, Refuses, Skips, Passes, Reads, Puts, Returns, Commits,
               Drops, Audits, Ends, Leaves, Same, SameData, InStatement, CanRun, At, Sent
      <3> QED BY <1>1, <2>2, <3>2
    <2> QED BY <2>1, <2>2
  <1>3. ASSUME NEW row \in DOMAIN db', IsEntry(row)
        PROVE  row[2] \in Sent' /\ request'[row[2]].committed
    <2>1. CASE row \in DOMAIN db
      BY <1>2, <1>3, <2>1 DEF EntryInv
    <2>2. CASE row \notin DOMAIN db
      <3>1. Commits(r, n) /\ row \in DOMAIN request[r].writes
        BY <2>2, TableFacts DEF Over
      <3>2. r \in Sent
        BY <3>1 DEF Commits, Sent, At
      <3>3. row[2] = r
        BY <1>3, <3>1, <3>2 DEF EntryInv, Ledger
      <3> QED BY <1>1, <3>1, <3>3 DEF Commits
    <2> QED BY <2>1, <2>2
  <1>4. ASSUME NEW s \in Sent' PROVE Ledger(s, request'[s])
    BY <1>1, EntryOwn DEF EntryInv
  <1> QED BY <1>3, <1>4 DEF EntryInv, Ledger, IsEntry

\* The statements whose errors are dropped, of those that write.
LEMMA DroppedErrors ==
  ASSUME Base, NEW r \in Requests, InStatement(r), Current(r).check = "ignored",
         Current(r).do # "select"
  PROVE  \/ /\ api = "subscribers" /\ Current(r).do = "insert"
            /\ Current(r).row = Consent(r, request[r].at)
         \/ Pairs /\ Current(r).do = "update" /\ Current(r).row = Target /\ Updates(request[r].op)
  <1>1. PICK op, seen, i : /\ op = request[r].op /\ i = request[r].at
                           /\ Sendable(r, op, seen, i) /\ Current(r) = Program(r, op, seen)[i]
    BY CurrentFacts
  <1>2. PICK st : st = Current(r)
    OBVIOUS
  <1>3. CASE api = "subscribers"
    <2>1. SubscriberStatement(r, op, seen, i, st)
      BY <1>1, <1>2, <1>3, SubscriberStatements
    <2>2. CASE st = CreateSubscriber(r)[2] \/ st = UpdateSubscriber(r, seen)[2]
               \/ st = EraseSubscriber[1]
      BY <1>2, <2>2 DEF CreateSubscriber, UpdateSubscriber, EraseSubscriber, Insert, Update,
                        Statement
    <2>3. CASE \E channel \in {"all", "email"}, opted \in BOOLEAN :
                 st = UpsertPreference(r, Choice(channel, "all", opted))
      BY <1>2, <2>3 DEF UpsertPreference, Upsert, Statement
    <2>4. CASE \E channel \in {"all", "email"}, opted \in BOOLEAN,
                  source \in {"api", "unsubscribe_link"} :
                 st = Record(r, i, Choice(channel, "all", opted), source)
      BY <1>1, <1>2, <1>3, <2>4 DEF Record, Insert, Statement
    <2> QED BY <1>2, <2>1, <2>2, <2>3, <2>4 DEF SubscriberStatement
  <1>4. CASE Pairs
    <2>1. PairStatement(r, op, i, st)
      BY <1>1, <1>2, <1>4, PairStatements
    <2>2. CASE st.do = "insert"
      <3>1. st \in {RegisterDLTTemplate(r)[1], CreateProvider(r)[1]}
        <4>1. api = "dlt" => DltStatement(r, op, seen, i, st)
          BY <1>1, <1>2, DltStatements
        <4>2. api = "providers" => ProviderStatement(r, op, seen, i, st)
          BY <1>1, <1>2, ProviderStatements
        <4>3. CASE api = "dlt"
          BY <2>2, <4>1, <4>3 DEF DltStatement, DeleteDLTTemplate, Update, Delete, Statement
        <4>4. CASE api = "providers"
          BY <2>2, <4>2, <4>4 DEF ProviderStatement, DeleteProvider, Update, Delete, Statement
        <4> QED BY <1>4, <4>3, <4>4 DEF Pairs
      <3> QED BY <1>2, <3>1 DEF RegisterDLTTemplate, CreateProvider, Insert, Statement
    <2> QED BY <1>1, <1>2, <1>4, <2>1, <2>2 DEF PairStatement
  <1>5. CASE api = "templates"
    <2>1. TemplateStatement(r, op, seen, i, st)
      BY <1>1, <1>2, <1>5, TemplateStatements
    <2> QED BY <1>2, <2>1 DEF TemplateStatement, CreateTemplate, UpdateTemplate,
            PublishTemplate, DeleteTemplate, Insert, Update, Statement
  <1>6. CASE api = "workflows"
    <2>1. WorkflowStatement(r, op, seen, i, st)
      BY <1>1, <1>2, <1>6, WorkflowStatements
    <2> QED BY <1>2, <2>1 DEF WorkflowStatement, CreateWorkflow, UpdateWorkflow,
            ActivateWorkflow, DeactivateWorkflow, Insert, Update, Statement
  <1>7. CASE api = "keys"
    <2>1. KeyStatement(r, op, seen, i, st)
      BY <1>1, <1>2, <1>7, KeyStatements
    <2> QED BY <1>2, <2>1 DEF KeyStatement, CreateAPIKey, RevokeAPIKey, Insert, Statement
  <1> QED BY <1>3, <1>4, <1>5, <1>6, <1>7 DEF Base, Seed, Pairs

\* Where an error is dropped there is no deadlock, and nothing is there twice.
LEMMA NoDroppedError ==
  ASSUME Base, GoodInv, EntryInv, NEW r \in Requests, InStatement(r),
         Current(r).check = "ignored"
  PROVE  /\ ~(Current(r).do = "insert" /\ Exists(View(r), Current(r).row))
         /\ \A other \in Requests : ~(WaitsFor(r, other) /\ WaitsFor(other, r))
  <1>1. r \in Sent /\ request[r].pc = "run" /\ Ledger(r, request[r]) /\ ~request[r].committed
    BY SentFacts DEF InStatement, At, Sent, EntryInv, Shape
  <1>2. ASSUME Current(r).do = "insert", Exists(View(r), Current(r).row) PROVE FALSE
    <2>1. Current(r).row = Consent(r, request[r].at)
      BY <1>2, DroppedErrors
    <2>2. IsEntry(Current(r).row) /\ Current(r).row[2] = r /\ Current(r).row[3] = request[r].at
      BY <2>1 DEF IsEntry, Consent
    <2>3. Current(r).row \in DOMAIN request[r].writes \/ Current(r).row \in DOMAIN db
      BY <1>2 DEF Exists, View, Over
    <2>4. CASE Current(r).row \in DOMAIN request[r].writes
      <3>1. request[r].at \in Nat /\ request[r].at < request[r].at
        BY <1>1, <2>2, <2>4 DEF Ledger
      <3> QED BY <3>1
    <2>5. CASE Current(r).row \in DOMAIN db
      BY <1>1, <2>2, <2>5 DEF EntryInv
    <2> QED BY <2>3, <2>4, <2>5
  <1>3. ASSUME NEW other \in Requests, WaitsFor(r, other), WaitsFor(other, r) PROVE FALSE
    <2>1. /\ other # r /\ other \in InProgress /\ InStatement(other) /\ other \in Sent
          /\ Current(r).do # "select" /\ Current(other).do # "select"
          /\ Current(r).row \in DOMAIN request[other].writes
          /\ Current(other).row \in DOMAIN request[r].writes
      BY <1>3 DEF WaitsFor, CanRun, InProgress
    <2>2. CASE Current(r).row = Consent(r, request[r].at)
      <3>1. IsEntry(Current(r).row) /\ Current(r).row[2] = r
        BY <2>2 DEF IsEntry, Consent
      <3> QED BY <2>1, <3>1 DEF EntryInv, Ledger
    <2>3. CASE Pairs /\ Current(r).row = Target
      <3>1. PairStatement(other, request[other].op, request[other].at, Current(other))
        BY <2>1, <2>3, PairCurrent
      <3>2. request[other].at # 1
        BY <2>1, NoRows DEF EntryInv, Ledger, InStatement, At
      <3>3. Current(other).row = Target
        BY <3>1, <3>2 DEF PairStatement
      <3>4. r \in InProgress
        BY <1>1 DEF InProgress, At
      <3> QED BY <2>1, <2>3, <3>3, <3>4 DEF Base, Apart
    <2> QED BY <2>1, <2>2, <2>3, DroppedErrors
  <1> QED BY <1>2, <1>3

\* Without a fault, success is not answered before it is committed.
Clean(s) ==
  /\ s.pc \in {"run", "settle"} /\ s.status = "ok" => ~s.aborted /\ ~s.gone
  /\ s.pc \in {"audit", "answer", "done"} /\ s.status = "ok" => s.committed

CleanInv == faults = 0 => \A r \in Sent : Clean(request[r])

LEMMA CleanOwn ==
  ASSUME Base, GoodInv, EntryInv, faults = 0, \A s \in Sent : Clean(request[s]),
         NEW r \in Requests, NEW n, Step(r, n), faults' = 0
  PROVE  Clean(n)
  <1>1. faults' # faults + 1
    OBVIOUS
  <1>2. request[r].pc # "not sent" => Clean(request[r]) /\ Shape(request[r])
    BY SentFacts DEF Sent, At
  <1>3. CASE Skips(r, n)
    <2>1. InStatement(r) /\ request[r].pc = "run" /\ request[r].status = "ok"
      BY <1>2, <1>3 DEF Skips, InStatement, At, Shape
    <2>2. ~request[r].aborted /\ ~request[r].gone
      BY <1>2, <2>1 DEF Clean
    <2> QED BY <1>1, <1>3, <2>1, <2>2, NoDroppedError DEF Skips
  <1>4. CASE Arrives(r, n)
    BY <1>4 DEF Arrives, Clean
  <1>5. CASE Refuses(r, n) \/ Passes(r, n) \/ Reads(r, n) \/ Puts(r, n)
    BY <1>5 DEF Refuses, Passes, Reads, Puts, Clean
  <1>6. CASE Returns(r, n)
    BY <1>2, <1>6 DEF Returns, Clean, Shape
  <1>7. CASE Commits(r, n)
    BY <1>7 DEF Commits, Clean
  <1>8. CASE Drops(r, n)
    <2>1. request[r].status # "ok"
      BY <1>1, <1>2, <1>8 DEF Drops, Clean
    <2> QED BY <1>8, <2>1 DEF Drops, Clean
  <1>9. CASE Audits(r, n)
    BY <1>2, <1>9 DEF Audits, Clean
  <1>10. CASE Ends(r, n)
    BY <1>2, <1>10 DEF Ends, Clean
  <1>11. CASE Leaves(r, n)
    BY <1>1, <1>11 DEF Leaves
  <1> QED BY <1>3, <1>4, <1>5, <1>6, <1>7, <1>8, <1>9, <1>10, <1>11 DEF Step, Moves

LEMMA CleanStep ==
  ASSUME Base, GoodInv, EntryInv, CleanInv, NEW r \in Requests, NEW n, Step(r, n)
  PROVE  CleanInv'
  <1> SUFFICES ASSUME faults' = 0 PROVE \A s \in Sent' : Clean(request'[s])
    BY DEF CleanInv, Clean
  <1>1. faults = 0
    <2>1. faults' \in {faults, faults + 1}
      BY DEF Step
    <2> QED BY <2>1, FaultFacts
  <1>2. \A s \in Sent : Clean(request[s])
    BY <1>1 DEF CleanInv
  <1>3. Clean(n)
    BY <1>1, <1>2, CleanOwn
  <1> QED BY <1>2, <1>3, StepFacts DEF Sent

LEMMA LedgerInit ==
  ASSUME Init
  PROVE  EntryInv /\ CleanInv
  <1>1. Sent = {}
    BY DEF Init, NotSent, Sent, At
  <1>2. ASSUME NEW row \in DOMAIN db PROVE ~IsEntry(row)
    <2>1. api \in DOMAIN Seed /\ db = Seed[api]
      BY DEF Init
    <2>2. CASE api = "subscribers"
      BY <2>1, <2>2 DEF Seed, Over, Row, Subscriber, Preference, IsEntry
    <2>3. CASE api # "subscribers"
      <3>1. Good(row, db[row])
        BY <2>1, SeedGood DEF AllGood
      <3> QED BY <2>1, <2>3, <3>1 DEF Good, Tables, Seed, IsEntry
    <2> QED BY <2>2, <2>3
  <1> QED BY <1>1, <1>2 DEF EntryInv, CleanInv

LEMMA LedgerHolds == Spec => [](Base /\ GoodInv /\ EntryInv)
  <1>1. Base /\ GoodInv /\ EntryInv /\ [Next]_vars => EntryInv'
    <2>1. ASSUME Base, GoodInv, EntryInv, Next PROVE EntryInv'
      BY <2>1, NextMoves, EntryStep
    <2>2. ASSUME Base, GoodInv, EntryInv, UNCHANGED vars PROVE EntryInv'
      BY <2>2 DEF vars, EntryInv, Sent, At, Ledger, IsEntry
    <2> QED BY <2>1, <2>2
  <1> QED BY <1>1, GoodHolds, LedgerInit, PTL DEF Spec

\* Without a fault, who is told of success finds it committed: errors that a
\* handler drops would abort its transaction, but the statements concerned wait
\* for nobody who waits for them, and insert what cannot be there yet.
THEOREM SuccessIsCommitted == Spec => []AnsweredMeansCommitted
  <1>1. Base /\ GoodInv /\ EntryInv /\ CleanInv /\ [Next]_vars => CleanInv'
    <2>1. ASSUME Base, GoodInv, EntryInv, CleanInv, Next PROVE CleanInv'
      BY <2>1, NextMoves, CleanStep
    <2>2. ASSUME Base, GoodInv, EntryInv, CleanInv, UNCHANGED vars PROVE CleanInv'
      BY <2>2 DEF vars, CleanInv, Sent, At, Clean
    <2> QED BY <2>1, <2>2
  <1>2. CleanInv => AnsweredMeansCommitted
    BY DEF CleanInv, Clean, AnsweredMeansCommitted, At
  <1> QED BY <1>1, <1>2, LedgerHolds, LedgerInit, PTL DEF Spec

-----------------------------------------------------------------------------
(* Consent.                                                                 *)

IsChoice(row) == row[1] = "preferences"
Made(p, c) == Choice(p[2], p[3], c.opted)

\* An entry of view has the choice c of row p, with the request that made it.
OnRecord(view, p, c) ==
  \E e \in Entries(view) : e[2] = c.by /\ view[e].choice = Made(p, c)

\* The entry is the next statement of r.
Pending(r, p, c) ==
  /\ InStatement(r) /\ Current(r).do = "insert"
  /\ Current(r).row = Consent(r, request[r].at) /\ Current(r).set.choice = Made(p, c)

ConsentFits(r) ==
  /\ request[r].pc \in {"run", "settle"} /\ request[r].status = "ok" /\ ~request[r].aborted
  => \A p \in DOMAIN request[r].writes : IsChoice(p) =>
       /\ request[r].writes[p].by = r
       /\ \/ OnRecord(request[r].writes, p, request[r].writes[p])
          \/ Pending(r, p, request[r].writes[p])

ConsentInv ==
  /\ \A p \in DOMAIN db : IsChoice(p) /\ db[p].by # 0 => OnRecord(db, p, db[p])
  /\ \A r \in Sent : ConsentFits(r)

\* A choice is written by an upsert, and its entry is the next statement.
LEMMA ChoiceStatement ==
  ASSUME api = "subscribers", NEW r, NEW op, NEW seen, NEW i, Sendable(r, op, seen, i),
         Program(r, op, seen)[i].do # "select", IsChoice(Program(r, op, seen)[i].row)
  PROVE  \E st, next :
           /\ st = Program(r, op, seen)[i] /\ next = Program(r, op, seen)[i + 1]
           /\ i + 1 <= Len(Program(r, op, seen))
           /\ st.do = "upsert" /\ st.set.by = r
           /\ next.do = "insert" /\ next.row = Consent(r, i + 1)
           /\ next.set.choice = Made(st.row, st.set)
  <1>1. PICK st : st = Program(r, op, seen)[i]
    OBVIOUS
  <1>2. SubscriberStatement(r, op, seen, i, st)
    BY <1>1, SubscriberStatements
  <1>3. op.name \in {"UpdatePreferences", "Unsubscribe"} /\ i \in {1, 3}
    <2>1. CASE st = CreateSubscriber(r)[2] \/ st = UpdateSubscriber(r, seen)[2]
               \/ st = EraseSubscriber[1]
      BY <1>1, <2>1 DEF CreateSubscriber, UpdateSubscriber, EraseSubscriber, Insert, Update,
                        Statement, Subscriber, IsChoice
    <2>2. CASE \E channel \in {"all", "email"}, opted \in BOOLEAN,
                  source \in {"api", "unsubscribe_link"} :
                 st = Record(r, i, Choice(channel, "all", opted), source)
      BY <1>1, <2>2 DEF Record, Insert, Statement, Consent, IsChoice
    <2> QED BY <1>1, <1>2, <2>1, <2>2 DEF SubscriberStatement
  <1>4. ASSUME NEW c, NEW source,
               st = UpsertPreference(r, c), c = Choice(c.channel, c.category, c.opted),
               Program(r, op, seen)[i + 1] = Record(r, i + 1, c, source),
               i + 1 <= Len(Program(r, op, seen))
        PROVE  \E next :
                 /\ next = Program(r, op, seen)[i + 1]
                 /\ st.do = "upsert" /\ st.set.by = r
                 /\ next.do = "insert" /\ next.row = Consent(r, i + 1)
                 /\ next.set.choice = Made(st.row, st.set)
    <2>1. /\ st.do = "upsert" /\ st.set = [opted |-> c.opted, by |-> r]
          /\ st.row = Preference(c.channel, c.category)
      BY <1>4 DEF UpsertPreference, Upsert, Statement
    <2>2. Made(st.row, st.set) = c
      BY <1>4, <2>1 DEF Made, Preference
    <2>3. PICK next : next = Record(r, i + 1, c, source)
      OBVIOUS
    <2>4. next.do = "insert" /\ next.row = Consent(r, i + 1) /\ next.set.choice = c
      BY <2>3 DEF Record, Insert, Statement
    <2> QED BY <1>4, <2>1, <2>2, <2>3, <2>4
  <1>5. CASE op.name = "UpdatePreferences"
    <2>1. PICK c1 \in {EmailOn, AllOff}, c2 \in {EmailOn, AllOff} : op.arg = <<c1, c2>>
      BY <1>5, SubscriberOperations DEF Sendable
    <2>2. /\ Len(Program(r, op, seen)) = 4
          /\ Program(r, op, seen)[1] = UpsertPreference(r, c1)
          /\ Program(r, op, seen)[2] = Record(r, 2, c1, "api")
          /\ Program(r, op, seen)[3] = UpsertPreference(r, c2)
          /\ Program(r, op, seen)[4] = Record(r, 4, c2, "api")
      BY <1>5, <2>1 DEF Program, UpdatePreferences
    <2>3. \A c \in {EmailOn, AllOff} : c = Choice(c.channel, c.category, c.opted)
      BY DEF EmailOn, AllOff, Choice
    <2>4. \E c : /\ st = UpsertPreference(r, c) /\ c = Choice(c.channel, c.category, c.opted)
                 /\ Program(r, op, seen)[i + 1] = Record(r, i + 1, c, "api")
                 /\ i + 1 <= Len(Program(r, op, seen))
      <3>1. CASE i = 1
        BY <1>1, <2>2, <2>3, <3>1
      <3>2. CASE i = 3
        BY <1>1, <2>2, <2>3, <3>2
      <3> QED BY <1>3, <3>1, <3>2
    <2> QED BY <1>1, <1>4, <2>4
  <1>6. CASE op.name = "Unsubscribe"
    <2>1. PICK c : c = Choice(op.channel, "all", FALSE)
      OBVIOUS
    <2>2. /\ Len(Program(r, op, seen)) = 2
          /\ Program(r, op, seen)[1] = UpsertPreference(r, c)
          /\ Program(r, op, seen)[2] = Record(r, 2, c, "unsubscribe_link")
      BY <1>6, <2>1 DEF Program, Unsubscribe
    <2>3. c = Choice(c.channel, c.category, c.opted)
      BY <2>1 DEF Choice
    <2>4. i = 1
      BY <1>3, <2>2 DEF Sendable
    <2> QED BY <1>1, <1>4, <2>2, <2>3, <2>4
  <1> QED BY <1>3, <1>5, <1>6

\* What is on record stays.
LEMMA EntriesStay ==
  ASSUME Base, EntryInv, NEW r \in Requests, NEW n, Step(r, n), NEW e \in Entries(db)
  PROVE  e \in Entries(db') /\ db'[e] = db[e]
  <1>1. e \in DOMAIN db /\ IsEntry(e)
    BY DEF Entries, IsEntry
  <1>2. CASE db' = db
    BY <1>1, <1>2 DEF Entries
  <1>3. CASE Commits(r, n) /\ db' = Over(request[r].writes, db)
    <2>1. r \in Sent /\ ~request[r].committed
      BY <1>3, SentFacts DEF Commits, Sent, At, Shape
    <2>2. e \notin DOMAIN request[r].writes
      BY <1>1, <2>1 DEF EntryInv, Ledger
    <2> QED BY <1>1, <1>3, <2>2 DEF Over, Entries, IsEntry
  <1> QED BY <1>2, <1>3, TableFacts

\* A write of r, in the state after it.
LEMMA ConsentPut ==
  ASSUME Base, GoodInv, EntryInv, NEW r \in Sent, ConsentFits(r), NEW n, Step(r, n), Puts(r, n)
  PROVE  ConsentFits(r)'
  <1>1. PICK op, seen, i, st, c :
          /\ PutsAs(r, n, op, seen, i, st, c)
          /\ i = request[r].at /\ seen = Over(request[r].seen, Seed[api])
    BY PutFacts DEF Sent
  <1>2. /\ request'[r] = n /\ api' = api
        /\ n.at = i + 1 /\ n.op = op /\ n.seen = request[r].seen /\ n.pc = "run"
    BY <1>1, StepFacts DEF Puts, PutsAs, Sent
  <1>3. /\ DOMAIN n.writes = {st.row} \cup DOMAIN request[r].writes
        /\ n.writes[st.row] = c
        /\ \A row \in DOMAIN request[r].writes : row # st.row =>
             n.writes[row] = request[r].writes[row]
    BY <1>1 DEF PutsAs, Over, Row
  <1>4. /\ InStatement(r) /\ st = Current(r) /\ i \in Nat \ {0} /\ st.do # "select"
        /\ request[r].pc = "run" /\ request[r].status = "ok" /\ ~request[r].aborted
    BY <1>1, SentFacts DEF Puts, CanRun, InStatement, At, Shape, PutsAs, Sendable, Sent
  <1>5. \A p \in DOMAIN request[r].writes : IsChoice(p) =>
          /\ request[r].writes[p].by = r
          /\ \/ OnRecord(request[r].writes, p, request[r].writes[p])
             \/ Pending(r, p, request[r].writes[p])
    BY <1>4 DEF ConsentFits
  <1>6. IsEntry(st.row) \/ IsChoice(st.row) => api = "subscribers"
    <2>1. Good(st.row, c)
      <3>1. AllGood(n.writes)
        BY GoodPut DEF Sent
      <3> QED BY <1>3, <3>1 DEF AllGood
    <2> QED BY <2>1 DEF Good, Tables, Base, Seed, IsEntry, IsChoice
  <1>7. ASSUME NEW e \in DOMAIN request[r].writes, IsEntry(e)
        PROVE  n.writes[e] = request[r].writes[e]
    <2>1. e[3] < i
      BY <1>1, <1>4, <1>7 DEF EntryInv, Ledger
    <2>2. e # st.row
      <3>1. SUFFICES ASSUME e = st.row PROVE FALSE
        OBVIOUS
      <3>2. st.row = Consent(r, i)
        <4>1. Sendable(r, op, seen, i) /\ st = Program(r, op, seen)[i]
          BY <1>1 DEF PutsAs
        <4>2. api = "subscribers" /\ st.do # "select" /\ IsEntry(st.row)
          BY <1>4, <1>6, <1>7, <3>1
        <4> QED BY <4>1, <4>2, EntryStatement
      <3>3. e[3] = i
        BY <3>1, <3>2 DEF Consent
      <3> QED BY <1>4, <2>1, <3>3
    <2> QED BY <1>3, <2>2
  <1>8. ASSUME NEW p, NEW d, OnRecord(request[r].writes, p, d)
        PROVE  OnRecord(n.writes, p, d)
    <2>1. PICK e \in Entries(request[r].writes) :
            e[2] = d.by /\ request[r].writes[e].choice = Made(p, d)
      BY <1>8 DEF OnRecord
    <2>2. e \in Entries(n.writes) /\ n.writes[e] = request[r].writes[e]
      BY <1>3, <1>7 DEF Entries, IsEntry
    <2> QED BY <2>1, <2>2 DEF OnRecord
  <1>9. ASSUME NEW p, NEW d, Pending(r, p, d), d.by = r
        PROVE  OnRecord(n.writes, p, d)
    <2>1. st.do = "insert" /\ st.row = Consent(r, i) /\ st.set.choice = Made(p, d)
      BY <1>1, <1>4, <1>9 DEF Pending
    <2>2. c = st.set
      BY <1>1, <2>1 DEF PutsAs
    <2>3. st.row \in Entries(n.writes) /\ st.row[2] = r
      BY <1>3, <2>1 DEF Entries, Consent
    <2>4. n.writes[st.row].choice = Made(p, d)
      BY <1>3, <2>1, <2>2
    <2> QED BY <1>9, <2>3, <2>4 DEF OnRecord
  <1>10. ASSUME IsChoice(st.row)
         PROVE  c.by = r /\ Pending(r, st.row, c)'
    <2>1. PICK next : /\ next = Program(r, op, seen)[i + 1]
                      /\ i + 1 <= Len(Program(r, op, seen))
                      /\ st.do = "upsert" /\ st.set.by = r
                      /\ next.do = "insert" /\ next.row = Consent(r, i + 1)
                      /\ next.set.choice = Made(st.row, st.set)
      <3>1. Sendable(r, op, seen, i) /\ st = Program(r, op, seen)[i] /\ st.do # "select"
        BY <1>1, <1>4 DEF PutsAs
      <3> QED BY <1>6, <1>10, <3>1, ChoiceStatement
    <2>2. c = st.set
      BY <1>1, <2>1 DEF PutsAs
    <2>3. Statements(r)' = Program(r, op, seen)
      BY <1>1, <1>2 DEF Statements
    <2>4. InStatement(r)' /\ Current(r)' = next
      BY <1>2, <2>1, <2>3 DEF InStatement, Current, At
    <2> QED BY <1>2, <2>1, <2>2, <2>4 DEF Pending, Made
  <1>11. ASSUME NEW p \in DOMAIN n.writes, IsChoice(p)
         PROVE  /\ n.writes[p].by = r
                /\ OnRecord(n.writes, p, n.writes[p]) \/ Pending(r, p, n.writes[p])'
    <2>1. CASE p = st.row
      BY <1>2, <1>3, <1>10, <1>11, <2>1
    <2>2. CASE p # st.row
      <3>1. /\ p \in DOMAIN request[r].writes /\ n.writes[p] = request[r].writes[p]
            /\ request[r].writes[p].by = r
        BY <1>3, <1>5, <1>11, <2>2
      <3> QED BY <1>5, <1>8, <1>9, <1>11, <3>1
    <2> QED BY <2>1, <2>2
  <1> QED BY <1>2, <1>11 DEF ConsentFits, OnRecord, Entries, IsChoice, Made

\* What r has written stays backed when it writes nothing more.
LEMMA ConsentKept ==
  ASSUME Base, NEW r \in Sent, ConsentFits(r), NEW n, Step(r, n),
         n.writes = request[r].writes,
         request[r].pc \in {"run", "settle"}, request[r].status = "ok", ~request[r].aborted,
         \/ ~InStatement(r) \/ Current(r).do # "insert"
         \/ Leaves(r, n)
  PROVE  ConsentFits(r)'
  <1>1. request'[r] = n /\ api' = api
    BY StepFacts DEF Sent
  <1>2. \A p \in DOMAIN n.writes : IsChoice(p) =>
          /\ n.writes[p].by = r
          /\ OnRecord(n.writes, p, n.writes[p]) \/ Pending(r, p, n.writes[p])
    BY DEF ConsentFits
  <1>3. CASE ~InStatement(r) \/ Current(r).do # "insert"
    BY <1>1, <1>2, <1>3 DEF Pending, ConsentFits, OnRecord, Entries, IsChoice, Made
  <1>4. CASE Leaves(r, n)
    <2>1. /\ n.pc = request[r].pc /\ n.at = request[r].at /\ n.seen = request[r].seen
          /\ n.op = request[r].op
      BY <1>4 DEF Leaves, SameData, Same
    <2>2. Statements(r)' = Statements(r)
      BY <1>1, <2>1 DEF Statements
    <2>3. (InStatement(r)' <=> InStatement(r)) /\ Current(r)' = Current(r)
      BY <1>1, <2>1, <2>2 DEF InStatement, Current, At
    <2>4. \A p : Pending(r, p, n.writes[p])' <=> Pending(r, p, n.writes[p])
      BY <1>1, <2>1, <2>3 DEF Pending, Made
    <2> QED BY <1>1, <1>2, <2>4 DEF ConsentFits, OnRecord, Entries, IsChoice, Made
  <1> QED BY <1>3, <1>4

LEMMA SubscriberLength ==
  ASSUME api = "subscribers", NEW r, NEW op \in Operations[api], NEW seen
  PROVE  Len(Program(r, op, seen)) \in Nat
  <1>1. CASE op.name \in {"GetPreferences", "ListSubscribers", "GetSubscriber",
                          "ExportSubscriberData", "CreateSubscriber", "UpdateSubscriber",
                          "DeleteSubscriber", "Unsubscribe"}
    BY <1>1 DEF Program, GetPreferences, ListSubscribers, GetSubscriber, ExportSubscriberData,
                CreateSubscriber, UpdateSubscriber, EraseSubscriber, Unsubscribe
  <1>2. CASE op.name = "UpdatePreferences"
    <2>1. PICK c1 \in {EmailOn, AllOff}, c2 \in {EmailOn, AllOff} : op.arg = <<c1, c2>>
      BY <1>2, SubscriberOperations
    <2>2. Len(Program(r, op, seen)) = 4
      BY <1>2, <2>1 DEF Program, UpdatePreferences
    <2> QED BY <2>2
  <1> QED BY <1>1, <1>2, SubscriberOperations

LEMMA ConsentOwn ==
  ASSUME Base, GoodInv, EntryInv, ConsentInv, NEW r \in Requests, NEW n, Step(r, n)
  PROVE  ConsentFits(r)'
  <1>1. request'[r] = n
    BY StepFacts
  <1>2. CASE n.writes = None
    BY <1>1, <1>2, NoRows DEF ConsentFits
  <1>3. CASE Refuses(r, n) \/ Skips(r, n)
    BY <1>1, <1>3 DEF Refuses, Skips, ConsentFits
  <1>4. CASE Puts(r, n)
    BY <1>4, ConsentPut DEF ConsentInv, Puts, CanRun, InStatement, At, Sent
  <1>5. CASE Passes(r, n) \/ Reads(r, n)
    <2>1. /\ r \in Sent /\ n.writes = request[r].writes /\ Current(r).do # "insert"
          /\ request[r].pc = "run" /\ ~request[r].aborted
      BY <1>5 DEF Passes, Reads, SameData, CanRun, InStatement, At, Sent
    <2>2. request[r].status = "ok"
      BY <2>1, SentFacts DEF Shape
    <2> QED BY <2>1, <2>2, ConsentKept DEF ConsentInv
  <1>6. CASE Returns(r, n)
    <2>1. /\ r \in Sent /\ n.writes = request[r].writes /\ request[r].pc = "run"
          /\ n.aborted = request[r].aborted
      BY <1>6 DEF Returns, SameData, At, Sent
    <2>2. request[r].status = "ok" /\ request[r].at \in Nat
      BY <2>1, SentFacts DEF Shape
    <2>3. api = "subscribers" => ~InStatement(r)
      <3>1. request[r].at > Len(Statements(r))
        BY <1>6 DEF Returns
      <3>2. api = "subscribers" => Len(Statements(r)) \in Nat
        BY <2>1, SentFacts, SubscriberLength DEF Statements, Shape
      <3> QED BY <2>2, <3>1, <3>2 DEF InStatement
    <2>6. CASE api # "subscribers"
      <3>1. \A p \in DOMAIN n.writes : ~IsChoice(p)
        BY <2>1, <2>6 DEF GoodInv, AllGood, Good, Tables, IsChoice, Base, Seed
      <3> QED BY <1>1, <3>1 DEF ConsentFits, IsChoice
    <2>4. CASE request[r].aborted
      BY <1>1, <2>1, <2>4 DEF ConsentFits
    <2>5. CASE ~request[r].aborted /\ api = "subscribers"
      BY <2>1, <2>2, <2>3, <2>5, ConsentKept DEF ConsentInv
    <2> QED BY <2>4, <2>5, <2>6
  <1>7. CASE Leaves(r, n)
    <2>1. r \in Sent /\ n.writes = request[r].writes /\ n.pc = request[r].pc
          /\ n.status = request[r].status /\ n.aborted = request[r].aborted
      BY <1>7 DEF Leaves, SameData, InProgress
    <2>2. CASE request[r].pc \in {"run", "settle"} /\ request[r].status = "ok"
               /\ ~request[r].aborted
      BY <1>7, <2>1, <2>2, ConsentKept DEF ConsentInv
    <2>3. CASE ~(request[r].pc \in {"run", "settle"} /\ request[r].status = "ok"
                 /\ ~request[r].aborted)
      BY <1>1, <2>1, <2>3 DEF ConsentFits
    <2> QED BY <2>2, <2>3
  <1>8. CASE Arrives(r, n) \/ Commits(r, n) \/ Drops(r, n) \/ Audits(r, n) \/ Ends(r, n)
    BY <1>2, <1>8 DEF Arrives, Commits, Drops, Audits, Ends
  <1> QED BY <1>3, <1>4, <1>5, <1>6, <1>7, <1>8 DEF Step, Moves

LEMMA ConsentStep ==
  ASSUME Base, GoodInv, EntryInv, ConsentInv, NEW r \in Requests, NEW n, Step(r, n)
  PROVE  ConsentInv'
  <1>1. ASSUME NEW s \in Sent', s # r PROVE ConsentFits(s)'
    <2>1. s \in Sent /\ request'[s] = request[s] /\ api' = api /\ ConsentFits(s)
      BY <1>1, StepFacts DEF Sent, ConsentInv
    <2>2. Statements(s)' = Statements(s)
      BY <2>1 DEF Statements
    <2>3. \A p, d : Pending(s, p, d)' <=> Pending(s, p, d)
      BY <2>1, <2>2 DEF Pending, InStatement, Current, At, Made
    <2> QED BY <2>1, <2>3 DEF ConsentFits, OnRecord, Entries, IsChoice, Made
  <1>2. ASSUME NEW p \in DOMAIN db', IsChoice(p), db'[p].by # 0
        PROVE  OnRecord(db', p, db'[p])
    <2>1. CASE p \in DOMAIN db /\ db'[p] = db[p]
      <3>1. PICK e \in Entries(db) : e[2] = db[p].by /\ db[e].choice = Made(p, db[p])
        BY <1>2, <2>1 DEF ConsentInv, OnRecord
      <3>2. e \in Entries(db') /\ db'[e] = db[e]
        BY <3>1, EntriesStay
      <3> QED BY <2>1, <3>1, <3>2 DEF OnRecord
    <2>2. CASE Commits(r, n) /\ db' = Over(request[r].writes, db) /\ p \in DOMAIN request[r].writes
      <3>1. /\ r \in Sent /\ request[r].pc = "settle" /\ request[r].status = "ok"
            /\ ~request[r].aborted
        BY <2>2 DEF Commits, Sent, At
      <3>2. ~Pending(r, p, request[r].writes[p])
        BY <3>1 DEF Pending, InStatement, At
      <3>3. OnRecord(request[r].writes, p, request[r].writes[p])
        BY <1>2, <2>2, <3>1, <3>2 DEF ConsentInv, ConsentFits
      <3>4. PICK e \in Entries(request[r].writes) :
              /\ e[2] = request[r].writes[p].by
              /\ request[r].writes[e].choice = Made(p, request[r].writes[p])
        BY <3>3 DEF OnRecord
      <3>5. e \in Entries(db') /\ db'[e] = request[r].writes[e]
            /\ db'[p] = request[r].writes[p]
        BY <2>2, <3>4 DEF Entries, Over
      <3> QED BY <3>4, <3>5 DEF OnRecord
    <2> QED BY <1>2, <2>1, <2>2, TableFacts DEF Over
  <1>3. ConsentFits(r)'
    BY ConsentOwn
  <1> QED BY <1>1, <1>2, <1>3 DEF ConsentInv, OnRecord, Entries, IsChoice, Made

\* An export has read the preferences before the history.
Exports(r) ==
  /\ request[r].op.name = "ExportSubscriberData" /\ request[r].pc = "run"
  /\ ~request[r].aborted

HasEntry(view, p, c) == \E e \in Entries(view) : view[e].choice = Made(p, c)

ExportFits(r) ==
  Exports(r) =>
    /\ request[r].writes = None
    /\ request[r].at <= 2 => \A p \in DOMAIN request[r].seen : ~IsChoice(p)
    /\ request[r].at = 3 =>
         \A p \in DOMAIN request[r].seen : IsChoice(p) /\ request[r].seen[p].by # 0 =>
           HasEntry(db, p, request[r].seen[p])
    /\ request[r].at > 3 =>
         \A p \in DOMAIN request[r].seen : IsChoice(p) /\ request[r].seen[p].by # 0 =>
           HasEntry(request[r].seen, p, request[r].seen[p])

ExportInv == \A r \in Sent : ExportFits(r)

LEMMA ExportProgram ==
  ASSUME NEW r, NEW op, NEW seen, op.name = "ExportSubscriberData"
  PROVE  LET P == Program(r, op, seen)
         IN  /\ Len(P) = 3 /\ P[1].row[1] = "subscribers" /\ P[2].row[1] = "preferences"
             /\ P[3].row[1] = "consent_ledger"
             /\ P[1].do = "select" /\ P[2].do = "select" /\ P[3].do = "select"
  BY DEF Program, ExportSubscriberData, Select, Statement, Subscriber, Preference, Consent

\* A statement of an export.
LEMMA ExportRead ==
  ASSUME Base, GoodInv, ConsentInv, ExportInv, NEW r \in Requests, NEW n, Step(r, n), Reads(r, n),
         Exports(r)
  PROVE  ExportFits(r)'
  <1>1. /\ r \in Sent /\ InStatement(r) /\ ExportFits(r) /\ Shape(request[r])
        /\ request[r].pc = "run" /\ ~request[r].aborted
    BY SentFacts DEF Reads, CanRun, InStatement, At, Sent, ExportInv
  <1>2. /\ request[r].at \in {1, 2, 3} /\ Current(r) = Statements(r)[request[r].at]
    <2>1. request[r].at \in Nat \ {0} /\ request[r].at <= Len(Statements(r))
      BY <1>1 DEF InStatement, Shape
    <2>2. Len(Statements(r)) = 3
      BY ExportProgram DEF Exports, Statements
    <2> QED BY <2>1, <2>2 DEF Current
  <1>3. /\ request[r].at = 1 => Current(r).row[1] = "subscribers"
        /\ request[r].at = 2 => Current(r).row[1] = "preferences"
        /\ request[r].at = 3 => Current(r).row[1] = "consent_ledger"
    BY <1>2, ExportProgram DEF Exports, Statements
  <1>4. request'[r] = n /\ n.at = request[r].at + 1 /\ n.writes = None
    BY <1>1, StepFacts DEF Reads, SameData, ExportFits, Exports
  <1> DEFINE rows == {row \in DOMAIN View(r) : row[1] = Current(r).row[1] /\ Exists(View(r), row)}
  <1>5. /\ DOMAIN n.seen = rows \cup DOMAIN request[r].seen
        /\ \A row \in rows : n.seen[row] = View(r)[row]
        /\ \A row \in DOMAIN request[r].seen : row \notin rows => n.seen[row] = request[r].seen[row]
    BY DEF Reads, Over
  <1>6. /\ \A row \in DOMAIN db : row \in DOMAIN View(r) /\ View(r)[row] = db[row]
        /\ DOMAIN View(r) = DOMAIN db
    BY <1>1, NoRows DEF View, Over, ExportFits, Exports
  <1>7. db' = db
    BY DEF Reads
  <1>8. CASE request[r].at = 1
    <2>1. \A p \in DOMAIN n.seen : ~IsChoice(p)
      BY <1>1, <1>3, <1>5, <1>8 DEF ExportFits, Exports, IsChoice
    <2>2. n.at = 2
      BY <1>4, <1>8
    <2> QED BY <1>4, <2>1, <2>2 DEF ExportFits, IsChoice
  <1>9. CASE request[r].at = 2
    <2>1. ASSUME NEW p \in DOMAIN n.seen, IsChoice(p), n.seen[p].by # 0
          PROVE  HasEntry(db, p, n.seen[p])
      <3>1. p \in rows /\ p \in DOMAIN db /\ n.seen[p] = db[p]
        BY <1>1, <1>3, <1>5, <1>6, <1>9, <2>1 DEF ExportFits, Exports, IsChoice
      <3> QED BY <2>1, <3>1 DEF ConsentInv, OnRecord, HasEntry
    <2>2. n.at = 3
      BY <1>4, <1>9
    <2> QED BY <1>4, <1>7, <2>1, <2>2 DEF ExportFits, IsChoice, HasEntry, Entries, Made
  <1>10. CASE request[r].at = 3
    <2>1. ASSUME NEW p \in DOMAIN n.seen, IsChoice(p), n.seen[p].by # 0
          PROVE  HasEntry(n.seen, p, n.seen[p])
      <3>1. p \notin rows
        BY <1>3, <1>10, <2>1 DEF IsChoice
      <3>2. p \in DOMAIN request[r].seen /\ n.seen[p] = request[r].seen[p]
        BY <1>5, <2>1, <3>1
      <3>3. PICK e \in Entries(db) : db[e].choice = Made(p, n.seen[p])
        BY <1>1, <1>10, <2>1, <3>2 DEF ExportFits, Exports, HasEntry
      <3>4. db[e] # Deleted
        <4>1. e \in DOMAIN db /\ e[1] = "consent_ledger"
          BY DEF Entries
        <4>2. EntryColumns(db[e])
          BY <4>1 DEF GoodInv, AllGood, Good
        <4>3. DOMAIN Deleted = {"deleted"}
          BY DEF Deleted
        <4> QED BY <4>2, <4>3 DEF EntryColumns
      <3>5. e \in rows /\ n.seen[e] = db[e]
        BY <1>3, <1>5, <1>6, <1>10, <3>4 DEF Entries, Exists
      <3>6. e \in Entries(n.seen)
        BY <1>5, <3>5 DEF Entries
      <3> QED BY <3>3, <3>5, <3>6 DEF HasEntry
    <2>2. n.at = 4
      BY <1>4, <1>10
    <2> QED BY <1>4, <2>1, <2>2 DEF ExportFits, IsChoice, HasEntry, Entries, Made
  <1> QED BY <1>2, <1>8, <1>9, <1>10

LEMMA ExportStep ==
  ASSUME Base, GoodInv, EntryInv, ConsentInv, ExportInv, NEW r \in Requests, NEW n, Step(r, n)
  PROVE  ExportInv'
  <1>1. \A p, c : HasEntry(db, p, c) => HasEntry(db', p, c)
    BY EntriesStay DEF HasEntry
  <1>2. ASSUME NEW s \in Sent, request'[s].op = request[s].op, request'[s].pc = request[s].pc,
               request'[s].aborted = request[s].aborted, request'[s].writes = request[s].writes,
               request'[s].seen = request[s].seen, request'[s].at = request[s].at
        PROVE  ExportFits(s)'
    <2>1. ExportFits(s) /\ (Exports(s)' <=> Exports(s))
      BY <1>2 DEF ExportInv, Exports
    <2>2. /\ \A p, c : HasEntry(db, p, c)' <=> HasEntry(db', p, c)
          /\ \A p, c : HasEntry(request[s].seen, p, c)' <=> HasEntry(request[s].seen, p, c)
      BY <1>2 DEF HasEntry, Entries, Made
    <2> QED BY <1>1, <1>2, <2>1, <2>2 DEF ExportFits, IsChoice
  <1>3. ASSUME NEW s \in Sent', s # r PROVE ExportFits(s)'
    BY <1>2, <1>3, StepFacts DEF Sent
  <1>4. request'[r] = n
    BY StepFacts
  <1>5. ExportFits(r)'
    <2>1. CASE n.pc # "run" \/ n.aborted
      BY <1>4, <2>1 DEF ExportFits, Exports
    <2>2. CASE Arrives(r, n)
      <3>1. n.at = 1 /\ n.writes = None /\ n.seen = None
        BY <2>2 DEF Arrives
      <3> QED BY <1>4, <3>1, NoRows DEF ExportFits
    <2>3. CASE Passes(r, n) \/ Puts(r, n)
      <3>1. InStatement(r) /\ n.op = request[r].op /\ Current(r).do # "select"
            /\ r \in Sent
        BY <2>3 DEF Passes, Puts, CanRun, SameData, Same, InStatement, At, Sent
      <3>2. n.op.name # "ExportSubscriberData"
        <4>1. SUFFICES ASSUME request[r].op.name = "ExportSubscriberData" PROVE FALSE
          BY <3>1
        <4>2. Len(Statements(r)) = 3 /\ Statements(r)[1].do = "select"
              /\ Statements(r)[2].do = "select" /\ Statements(r)[3].do = "select"
          BY <4>1, ExportProgram DEF Statements
        <4>3. request[r].at \in Nat \ {0} /\ request[r].at <= 3
          BY <3>1, <4>2, SentFacts DEF InStatement, At, Shape
        <4>4. request[r].at \in {1, 2, 3}
          BY <4>3
        <4> QED BY <3>1, <4>2, <4>4 DEF Current
      <3> QED BY <1>4, <3>2 DEF ExportFits, Exports
    <2>4. CASE Reads(r, n)
      <3>1. n.op = request[r].op /\ request[r].pc = "run" /\ ~request[r].aborted
        BY <2>4 DEF Reads, SameData, Same, CanRun, InStatement, At
      <3>2. CASE Exports(r)
        BY <2>4, <3>2, ExportRead
      <3>3. CASE ~Exports(r)
        BY <1>4, <3>1, <3>3 DEF ExportFits, Exports
      <3> QED BY <3>2, <3>3
    <2>5. CASE Leaves(r, n)
      BY <1>2, <1>4, <2>5 DEF Leaves, SameData, Same, InProgress
    <2>6. CASE Refuses(r, n) \/ Skips(r, n) \/ Returns(r, n) \/ Commits(r, n) \/ Drops(r, n)
               \/ Audits(r, n) \/ Ends(r, n)
      BY <2>1, <2>6 DEF Refuses, Skips, Returns, Commits, Drops, Audits, Ends
    <2> QED BY <2>2, <2>3, <2>4, <2>5, <2>6 DEF Step, Moves
  <1> QED BY <1>3, <1>5 DEF ExportInv, ExportFits

LEMMA ConsentInit ==
  ASSUME Init
  PROVE  ConsentInv /\ ExportInv
  <1>1. Sent = {}
    BY DEF Init, NotSent, Sent, At
  <1>2. ASSUME NEW p \in DOMAIN db, IsChoice(p) PROVE db[p].by = 0
    <2>1. api \in DOMAIN Seed /\ db = Seed[api]
      BY DEF Init
    <2>2. CASE api = "subscribers"
      BY <1>2, <2>1, <2>2 DEF Seed, Over, Row, Subscriber, Preference, IsChoice
    <2>3. CASE api # "subscribers"
      <3>1. Good(p, db[p])
        BY <2>1, SeedGood DEF AllGood
      <3> QED BY <1>2, <2>1, <2>3, <3>1 DEF Good, Tables, Seed, IsChoice
    <2> QED BY <2>2, <2>3
  <1> QED BY <1>1, <1>2 DEF ConsentInv, ExportInv

LEMMA ExportsAreBacked ==
  ASSUME Base, ExportInv
  PROVE  ExportIsBacked
  <1> SUFFICES ASSUME NEW r \in Sent, At(r, "run"),
                      request[r].op.name = "ExportSubscriberData",
                      request[r].at > Len(Statements(r)), ~request[r].aborted
               PROVE  Backed(request[r].seen)
    BY DEF ExportIsBacked
  <1>1. request[r].at > 3
    BY ExportProgram DEF Statements
  <1>2. \A p \in DOMAIN request[r].seen : IsChoice(p) /\ request[r].seen[p].by # 0 =>
          HasEntry(request[r].seen, p, request[r].seen[p])
    BY <1>1 DEF ExportInv, ExportFits, Exports, At
  <1> QED BY <1>2 DEF Backed, Choices, IsChoice, HasEntry, Made

\* A choice in force is on record with the request that made it, the ledger has
\* only choices that were committed, and an export shows no choice without its
\* history: a transaction that loses an entry is aborted, and an export reads
\* the preferences first and a ledger from which nothing is taken away.
THEOREM ConsentHasItsRecord == Spec => []ConsentIsOnRecord
  <1>1. Base /\ GoodInv /\ EntryInv /\ ConsentInv /\ ExportInv /\ [Next]_vars
          => ConsentInv' /\ ExportInv'
    <2>1. ASSUME Base, GoodInv, EntryInv, ConsentInv, ExportInv, Next
          PROVE  ConsentInv' /\ ExportInv'
      BY <2>1, NextMoves, ConsentStep, ExportStep
    <2>2. ASSUME Base, GoodInv, EntryInv, ConsentInv, ExportInv, UNCHANGED vars
          PROVE  ConsentInv' /\ ExportInv'
      <3>1. api' = api /\ db' = db /\ request' = request
        BY <2>2 DEF vars
      <3>2. Sent' = Sent /\ \A r : Statements(r)' = Statements(r)
        BY <3>1 DEF Sent, At, Statements
      <3>3. \A r, p, d : Pending(r, p, d)' <=> Pending(r, p, d)
        BY <3>1, <3>2 DEF Pending, InStatement, Current, At, Made
      <3>4. ConsentInv'
        BY <2>2, <3>1, <3>2, <3>3 DEF ConsentInv, ConsentFits, OnRecord, Entries, IsChoice, Made
      <3>5. ExportInv'
        BY <2>2, <3>1, <3>2
           DEF ExportInv, ExportFits, Exports, HasEntry, Entries, IsChoice, Made
      <3> QED BY <3>4, <3>5
    <2> QED BY <2>1, <2>2
  <1>2. Base /\ EntryInv /\ ConsentInv /\ ExportInv => ConsentIsOnRecord
    <2>1. ASSUME Base, EntryInv, ConsentInv, ExportInv PROVE ConsentIsOnRecord
      <3>1. \A e \in Entries(db) : request[e[2]].committed
        BY <2>1 DEF EntryInv, Entries, IsEntry
      <3>2. \A p \in {p \in DOMAIN db : p[1] = "preferences" /\ db[p].by # 0} :
              \E e \in Entries(db) :
                e[2] = db[p].by /\ db[e].choice = Choice(p[2], p[3], db[p].opted)
        BY <2>1 DEF ConsentInv, OnRecord, IsChoice, Made
      <3> QED BY <2>1, <3>1, <3>2, ExportsAreBacked DEF ConsentIsOnRecord
    <2> QED BY <2>1
  <1> QED BY <1>1, <1>2, LedgerHolds, ConsentInit, PTL DEF Spec
=============================================================================
