-------------------------- MODULE TenantHandlers --------------------------
(***************************************************************************)
(* The handlers of the management API (platform/api/handler), each as the  *)
(* statements it sends to Postgres, in order.  A row is named by its table *)
(* and its identity; a column holds the request that wrote it where only   *)
(* that matters.  Validation of a body that needs no row is left out: it   *)
(* refuses the request before its first statement.                         *)
(***************************************************************************)
EXTENDS Naturals, Sequences

\* (Until a handler has read a row, what the later statements make of it does
\* not matter: they are not sent.)

\* A statement matches its row if the row exists and has the columns "where".
\* check: what makes the handler stop and refuse the request:
\*   "found" - an error, or no row;  "error" - an error;  "ignored" - nothing.
\* A select returns its whole table; "found" asks for its row.
Statement(do, row, set, where, check) ==
  [do |-> do, row |-> row, set |-> set, where |-> where, check |-> check]

None == [name \in {} |-> 0]  \* no columns, or no rows

\* One row; and what is on record in f, or else in g.
Row(name, columns) == [x \in {name} |-> columns]
Over(f, g) ==
  [x \in DOMAIN f \cup DOMAIN g |-> IF x \in DOMAIN f THEN f[x] ELSE g[x]]

Select(row, check) == Statement("select", row, None, None, check)
Update(row, set, check) == Statement("update", row, set, None, check)
Insert(row, set, check) == Statement("insert", row, set, None, check)
Upsert(row, set, check) == Statement("upsert", row, set, None, check)
Delete(row, check) == Statement("delete", row, None, None, check)

Subscriber == <<"subscribers", "s">>
Preference(channel, category) == <<"preferences", channel, category>>
Consent(r, i) == <<"consent_ledger", r, i>>
Template == <<"templates", "t">>
Workflow == <<"workflows", "w">>
DLTTemplate == <<"dlt_templates", "d">>
Provider == <<"provider_configs", "p">>
APIKey == <<"api_keys", "k">>

-----------------------------------------------------------------------------
(* subscribers.go, consent.go, preferences.go *)

\* A choice: channel, category, opted in or not.
Choice(channel, category, opted) ==
  [channel |-> channel, category |-> category, opted |-> opted]

\* consent.Record: the i-th entry of request r.  Every caller drops its error.
Record(r, i, c, source) ==
  Insert(Consent(r, i), [choice |-> c, source |-> source], "ignored")

\* Mutant of UpsertPreference: its error is dropped as well.
UpsertUnchecked(r, c) ==
  Upsert(Preference(c.channel, c.category), [opted |-> c.opted, by |-> r], "ignored")

UpsertPreference(r, c) ==
  Upsert(Preference(c.channel, c.category), [opted |-> c.opted, by |-> r], "error")

\* UpdatePreferences: each choice, and its entry in the ledger.
UpdatePreferences(r, choices) ==
  [i \in 1 .. 2 * Len(choices) |->
     LET c == choices[(i + 1) \div 2]
     IN  IF i % 2 = 1 THEN UpsertPreference(r, c) ELSE Record(r, i, c, "api")]

\* The link in every message: the row of the channel and the category 'all'.
Unsubscribe(r, channel) ==
  LET c == Choice(channel, "all", FALSE)
  IN  <<UpsertPreference(r, c), Record(r, 2, c, "unsubscribe_link")>>

GetPreferences == <<Select(Preference("all", "all"), "error")>>

\* preferences.EraseSubscriber: who has been erased, or never existed, gets
\* the same answer.
EraseSubscriber ==
  <<Update(Subscriber, [contact |-> "none", metadata |-> "none", erased |-> TRUE], "error")>>

\* CreateSubscriber: pgp_sym_encrypt runs in Postgres, its error is dropped.
CreateSubscriber(r) ==
  <<Select(<<"no table", "pgp_sym_encrypt">>, "ignored"),
    Insert(<<"subscribers", "new">>,
           [contact |-> "pii", metadata |-> "pii", erased |-> FALSE, by |-> r], "error")>>

ListSubscribers == <<Select(Subscriber, "ignored"), Select(Subscriber, "error")>>
GetSubscriber == <<Select(Subscriber, "found")>>

\* ExportSubscriberData: the profile, the matrix, the history.
ExportSubscriberData ==
  <<Select(Subscriber, "found"), Select(Preference("all", "all"), "ignored"),
    Select(Consent(1, 1), "error")>>

\* Mutant of UpdateSubscriber: the row is written back whole.
UpdateSubscriberWhole(r, seen) ==
  <<Select(Subscriber, "found"),
    Update(Subscriber, [seen[Subscriber] EXCEPT !.by = r], "error")>>

\* UpdateSubscriber: metadata is merged with what the SELECT returned.
UpdateSubscriber(r, seen) ==
  <<Select(Subscriber, "found"),
    Update(Subscriber, [metadata |-> seen[Subscriber].metadata, by |-> r], "error")>>

\* preferences.IsOptedIn, which the engine asks before it queues a message: the
\* row of the channel goes before the one of all channels, then the row of the
\* category before the one of all categories; without a row, yes.
IsOptedIn(view, channel, category) ==
  LET order == <<Preference(channel, category), Preference(channel, "all"),
                 Preference("all", category), Preference("all", "all")>>
      there == {i \in DOMAIN order : order[i] \in DOMAIN view}
  IN  there = {} \/ view[order[CHOOSE i \in there : \A j \in there : i <= j]].opted

-----------------------------------------------------------------------------
(* templates.go.  version and published are keys of the column metadata,    *)
(* which a client may give: the handlers write over its version only.       *)

\* A published_version of the client's own, which no template has had.
Foreign == 99

GetTemplate == <<Select(Template, "found")>>

\* A name, channel and locale can be taken once.
CreateTemplate(r, announce) ==
  <<Insert(<<"templates", "new">>,
           [body |-> r, active |-> TRUE, version |-> 1,
            published |-> IF announce THEN Foreign ELSE 0], "error")>>

\* UpdateTemplate: all columns are written, merged with what was read.  given:
\* active ("on", "off"), a published_version ("announce"), or neither ("keep").
UpdateTemplate(r, given, seen) ==
  LET cur == seen[Template]
  IN  <<Select(Template, "found"),
        Update(Template,
               [body |-> r, version |-> cur.version + 1,
                published |-> IF given = "announce" THEN Foreign ELSE cur.published,
                active |-> IF given \in {"on", "off"} THEN given = "on" ELSE cur.active],
               "error")>>

DeleteTemplate == <<Update(Template, [active |-> FALSE], "found")>>

\* Mutant of PublishTemplate: it announces the version to come.
PublishNextVersion(seen) ==
  LET cur == seen[Template]
  IN  <<Select(Template, "found"),
        Update(Template, [version |-> cur.version, published |-> cur.version + 1], "error")>>

\* PublishTemplate: metadata is written back whole.
PublishTemplate(seen) ==
  LET cur == seen[Template]
  IN  <<Select(Template, "found"),
        Update(Template, [version |-> cur.version, published |-> cur.version], "error")>>

-----------------------------------------------------------------------------
(* workflows.go *)

ListWorkflows == <<Select(Workflow, "error")>>
GetWorkflow == <<Select(Workflow, "found")>>
ListWorkflowRuns == <<Select(<<"workflow_runs", "w">>, "error")>>

\* Nothing makes workflows unique.
CreateWorkflow(r) ==
  <<Insert(<<"workflows", "new", r>>, [steps |-> r, active |-> TRUE], "error")>>

UpdateWorkflow(r, seen) ==
  <<Select(Workflow, "found"), Update(Workflow, [steps |-> r], "error")>>

ActivateWorkflow == <<Update(Workflow, [active |-> TRUE], "found")>>

\* ArchiveWorkflow and PauseWorkflow send the same statement.
DeactivateWorkflow == <<Update(Workflow, [active |-> FALSE], "found")>>

-----------------------------------------------------------------------------
(* dlt.go, providers.go, apikeys.go *)

ListDLTTemplates == <<Select(DLTTemplate, "error")>>

RegisterDLTTemplate(r) ==
  <<Insert(<<"dlt_templates", "new", r>>, [status |-> r, pe_id |-> r, sender_id |-> r], "error")>>

\* UpdateDLTTemplate: the status, when it is given, then the two identifiers.
UpdateDLTTemplate(r, withStatus) ==
  LET ids == <<Update(DLTTemplate, [pe_id |-> r], "ignored"),
               Update(DLTTemplate, [sender_id |-> r], "ignored")>>
  IN  IF withStatus THEN <<Update(DLTTemplate, [status |-> r], "found")>> \o ids ELSE ids

DeleteDLTTemplate == <<Delete(DLTTemplate, "found")>>

ListProviders == <<Select(Provider, "error")>>

\* A tenant has one configuration per channel and provider.  (A priority beyond
\* int4 is refused before the INSERT is sent, as if it were validated.)
CreateProvider(r) ==
  <<Insert(<<"provider_configs", "new">>,
           [config |-> r, priority |-> r, is_active |-> r], "error")>>

ProviderBodies == [config : BOOLEAN, priority : {"int4", "too large"}]

\* UpdateProvider: the configuration, when it is given, then the priority and
\* is_active.  pgx does not send the UPDATE of a priority beyond int4: it fails
\* to encode the argument, and the handler drops this error like any other.
UpdateProvider(r, body) ==
  LET active == Update(Provider, [is_active |-> r], "ignored")
      rest == IF body.priority = "int4"
              THEN <<Update(Provider, [priority |-> r], "ignored"), active>> ELSE <<active>>
  IN  IF body.config THEN <<Update(Provider, [config |-> r], "error")>> \o rest ELSE rest

DeleteProvider == <<Delete(Provider, "found")>>

ListAPIKeys == <<Select(APIKey, "error")>>

CreateAPIKey(r) == <<Insert(<<"api_keys", "new", r>>, [revoked |-> FALSE], "error")>>

RevokeAPIKey ==
  <<Statement("update", APIKey, [revoked |-> TRUE], [revoked |-> FALSE], "found")>>
=============================================================================
