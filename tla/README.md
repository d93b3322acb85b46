# A TLA+ development of qeet-notify

qeet-notify turns events that API clients post into notifications by email, SMS, WhatsApp, webhook
and in-app message. This directory holds TLA+ specifications of the parts of it that have a protocol
of their own, the TLC configurations that check them on small instances, and proofs, checked by
TLAPS, of theorems about them. Paths below are relative to `src/`.

    API --events--> NOTIFY_EVENTS --> workflow engine --jobs--> NOTIFY_<CHANNEL> --> channel worker --> provider
                         ^                |   ^                                        |     |
                         |            workflow_runs                           notifications  NOTIFY_DELIVERY --> analytics
                         +-- scheduler <--+                                            |
                                                                                  NOTIFY_DLQ

## 1. Inventory

| Part | State it keeps | Operations | What makes it correct |
|---|---|---|---|
| **Workflow engine** `domains/workflows/engine/engine.go` | `workflow_runs`, `notifications`; a transaction per message | `ProcessEvent` (start a run), `Resume` (continue a paused one), `executeFrom` (walk the steps), `dispatchChannel`, `failRun` | no accepted event and no run is lost; steps are repeated only by faults; delays are kept; walks end; ended runs stay ended |
| **Scheduler** `domains/scheduler/scheduler.go` | `workflow_runs.resume_at` | `Tick`: select due runs, clear `resume_at`, publish a resume message | every paused run is woken up, once |
| **Condition evaluator** `engine/condition.go` | none | a pure function | its operators agree with one another, whatever is compared |
| **Message bus** `platform/messaging` | work-queue streams, DLQ | publish, deliver, ack, nak, term; `HandleFailure` | at-least-once; poison messages end in the DLQ |
| **Tenant transactions** `platform/database` | PostgreSQL | `RunInTenant` | all or nothing for the database, not for the bus |
| **Channel workers** `domains/channels/*/worker.go` | `notifications.status`; a transaction per job (none in-app) | gates (suppression, DLT, NDNC, window, session), `sendWithFallback`, `recordDelivery`, update | nothing is given up unseen; duplicates only by faults; reports are true; gates hold |
| **Compliance** `domains/compliance` | DLT templates, NDNC registry, the clock | match, registry lookup, promotional window | promotional traffic only in the window and off the registry |
| **Event intake** `platform/api/handler/events.go` | idempotency keys in Redis | claim, publish, cache the response, release | one event per key; a client that retries gets its answer |
| **Workflow management** `handler/workflows.go` | `workflows` | create, update, archive, activate, pause | runs in progress survive edits |
| **Provider webhooks** `handler/webhooks.go` | `delivery_events`, `notifications`, `suppressions` | bounce, complaint, delivery callbacks | a bounce is recorded and suppressed, or neither; outcomes are not overwritten |
| **Analytics** `domains/analytics/aggregator.go` | `delivery_events` | consume `NOTIFY_DELIVERY` | every report is stored, once without faults |
| **Subscribers, preferences, consent** `handler/subscribers.go`, `domains/subscribers` | preferences, suppressions, consent ledger, subscribers | opt in and out, suppress, erase, export | an opt-out and an erasure stay in force; every choice is in the ledger |
| **Templates, DLT templates, providers, API keys** `handler/{templates,dlt,providers,apikeys}.go` | a table each | list, create, update, publish, delete, revoke | what the handlers announce exists; a revoked key stays revoked |
| **Request transaction, audit, auth** `platform/api/middleware` | the request's transaction, the audit log | per request | what was answered was committed; refused requests change nothing; every mutation is audited |
| **Rate limiter** `middleware/ratelimit.go` | a counter and its expiry in Redis | count, let through or refuse | the limit holds; only busy tenants are refused |
| **Push worker, routing, rendering, provider clients, storage, config, crypto, telemetry, SDK, console** | - | - | stubs, data and I/O; see PROJECT.json |

How they interact: only through PostgreSQL (READ COMMITTED, row locks), JetStream (at-least-once,
redelivery after `AckWait`, `Nak` or `NakWithDelay`) and Redis. Nothing is atomic across two of
them: every handler publishes on the bus from inside a transaction that may still roll back, and is
redelivered its message when it dies. That, the overlap of old and new processes while a deployment
rolls over, and operators who edit what runs in progress refer to, are what is hard here.
PROJECT.json lists the hazards at their lines, with the properties that cover them.

## 2. Modules

| Module | Models | Role |
|---|---|---|
| `WorkflowSteps` | `nextIndex`, `idxByID`, condition branches, `maxIterations` | operators on a list of steps |
| `Conditions` | `EvalCondition` and its helpers | operators on texts and payloads |
| `WorkflowWalk` | one call of `executeFrom` with the conditions it evaluates, over arbitrary workflows | the cycle guard and the successor function, against a reference definition (`Reached`, `ExpectedOutcome`) |
| `RunLifecycle` | - | the abstract specification: what events and runs may do |
| `WorkflowRuns` | engine + scheduler + `NOTIFY_EVENTS` + the two tables + operators | the core protocol, which implements `RunLifecycle` |
| `WorkflowStepsProofs` | - | lemmas about a walk through steps: orbits, ends, cycles, successors |
| `WorkflowWalkProofs` (extends it) | - | theorems about `WorkflowWalk` and `Conditions` |
| `WorkflowRunsProofs` (extends `WorkflowStepsProofs`) | - | theorems about `WorkflowRuns` |
| `RunLifecycleProofs` (extends it) | - | `WorkflowRuns` implements `RunLifecycle`; how often events start runs and steps are repeated |
| `ChannelWorker` | the five workers, `HandleFailure`, the DLQ, the engine's open transaction | from a job to its provider |
| `ChannelWorkerProofs` | - | theorems about `ChannelWorker` |
| `DeliveryReports` | the aggregator and the provider's callbacks, against the rows that engine and worker still write | from a provider back to the tables |
| `DeliveryReportsProofs` | - | theorems about `DeliveryReports` |
| `RateLimit` | the middleware | a tenant's counter, its expiry and the clock |
| `EventIntake` (extends `RateLimit`) | `NewTriggerEvent`, Redis, the event stream, a client that retries | one operation of a client, from its first request to its answer |
| `EventIntakeProofs` | - | theorems about `EventIntake` |
| `TenantHandlers` | the management API's handlers | each as the list of SQL statements it sends |
| `TenantRequests` (extends `TenantHandlers`) | `Auth`, `Audit`, `TenantTx`, PostgreSQL's locks, clients and servers | any two of those handlers at a time |
| `TenantRequestsProofs` | - | theorems about `TenantRequests`: its steps as moves, types, rows, audits, what is committed |
| `MCWorkflowWalk`, `MCWorkflowRuns` | - | instances for TLC |

### WorkflowRuns

*State.* `stream` is what of `NOTIFY_EVENTS` is not acknowledged, `inbox[e]` what was delivered to
engine `e` and not taken yet. `engine[e]` is the Go stack of `handle` and its transaction: the step
it is at (`i`), the iteration count (`visited`), the notifications inserted (`sent`) and the last
`UPDATE` of the run (`write`), none of them visible to others until `Commit`. `scheduler[s]` is a
tick and its transaction. `runs`, `notifications`, `lockedBy` are the tables and the row locks.
`jobs` is what was published to the channel streams. Three ghosts (`accepted`, `unmatched`, `lost`)
record what the properties speak of; no guard reads `unmatched` or `lost`.

*Actions.* One per database statement or message that others can see or that can fail on its own:
`StartRun`/`IgnoreEvent` (ProcessEvent), `ResumeRun`/`SkipResume` (Resume),
`Dispatch`/`SkipChannel`/`DispatchFails` (dispatchChannel), `Branch`, `Pause`, `Complete`, `Fail`
(the ends of a walk, each with its `UPDATE`, which waits for the row lock), `Commit`,
`CommitUnknown` (committed, but the reply is lost), `RollBack`, `Ack`, `Nak`, `Crash`; `Scan`,
`Clear`, `Publish`, `PublishFails`, `CommitTick`, `AbortTick`. `Deliver` and `Redeliver` are the
server's.

*Abstractions.* One tenant and one workflow. A payload is the set of conditions that hold of it.
Time is three values of `resume_at` (none, later, due). `IsOptedIn` is a choice (an SQL error in it
counts as opted in, as in the code). Ids that are drawn are numbered.

### ChannelWorker

*State.* `channel` says whose worker it is and never changes; `waiting` and `delivered` are the
stream's record of each job; `worker[w]` is a handler, its delivery number, the provider it is at,
the event and status it is about to record and write; `rows` is the status column, where `open` is a
row whose transaction the engine has not committed yet. `suppressed`, `dnd`, `window` and
`registered` are what the gates ask: the suppression list, the NDNC registry, the clock and the DLT
templates. `accepted` is what providers took (with the delivery it was part of), `events` and `dlq`
the two output streams. The ghost `uncategorized` has the deliveries of promotional jobs that went to
the providers without the worker having learned their category.

*Actions.* `Receive`, `Expire` (AckWait), the gates in the order of the code (`Stop` on the
suppression list, a missing DLT match, the NDNC registry or a missing WhatsApp session; for SMS
`Match`, `LookUpCategory`/`CategoryFails` - whose error the code ignores -, `Scrub` past the registry,
`Hold` and `Defer` before the promotional window; `FailGates`; `Pass`), the providers in turn
(`Accept`, `Reject`, `AcceptUnheard`: taken, but the reply is lost), `Record`/`RecordFails`
(recordDelivery ignores errors), `Commit`/`CommitFails`, and the answer (`Reply`, `Nak`,
`DeadLetter`, `DeadLetterFails`). `CommitRow`/`AbortRow` end the engine's transaction; `Suppress`,
`Register`, `DeleteDLTTemplate`, `OpenWindow`, `CloseWindow` are the world.

*Abstractions.* All jobs go to one subscriber. The webhook and in-app workers have one destination,
the others `Providers`. The `UPDATE` of a row and the commit are one step (the comment at `Commit`
says why no behaviour is lost). The consumer outlives its workers: a consumer that the server
deletes because no worker is connected, and its reset delivery counts, are not modelled. WhatsApp
jobs start behind the schema's foreign key (section 5): the handler is modelled as it is.

### RunLifecycle and the refinement

Six variables say what a tenant sees: events accepted, still pending, or wanted by no workflow;
each run's status and the event it belongs to; and whether the workflow was ever `changed`. A run
appears in one step with all it did until its first delay, ends once, keeps its event, and an event
leaves the pipeline only when a run of it is on record or nothing wanted it. Once the workflow has
been changed a run that has ended may be recorded as ended otherwise (section 5), but it is never
running again. `WorkflowRuns!Lifecycle` maps the stream to `pending` and the
committed tables to `status` and `event`, and any edit to `changed`: every statement, publish, crash, redelivery and rollback
must be a stutter and only a commit or an acknowledgement a step.

### WorkflowWalk and Conditions

`WorkflowWalk` draws a call (steps, payload, start index) and walks it; `holding` is the set of
conditions that `EvalCondition` finds true of the payload. A workflow is any list of steps and a
payload any document whose fields are JSON values (`CallsAssumption`). What the walk must come to is
decided without walking: `Reached` is the least set of indexes that has the first one and is closed
under the successor of every step but a delay. `Conditions` is `condition.go` on
tokenised texts: the operators and the quote are tokens, all else is a word, and no token is a
prefix of another, so the order of texts is Go's. Numbers are integers and NaN; literals other than
the listed numerals do not parse.

### DeliveryReports

*State.* One notification: its row as committed (`row`: status and `provider_message_id`), the
worker's position in its current delivery, `report[s]` on `NOTIFY_DELIVERY` for each delivery `s`,
`callback[c]` for each callback (kind and message id): its goroutine's position, whether its
transaction is aborted, what it has written and the address it has read. `stored` counts rows of
`delivery_events`, `address` is the subscriber's e-mail address or none, `suppressed` the addresses
on the suppression list.

*Actions.* `EngineCommits`/`EngineRollsBack` (the row may be younger than the callback), the worker
(`Send`, `FetchFails` without an address, `MarkSuppressed`, `RecordDelivery`, `WriteSent`, its
failures), the callback (`LookUp`, then the four statements `ReadAddress`, `RecordEvent`, `Suppress`
- of a bounce whose address is known - and `UpdateStatus`, whose errors the code drops while
PostgreSQL aborts the transaction, and `Commit`), the aggregator (`Handle`, `Acknowledge`,
`ReportComesBack`), and the subscriber (`ChangeAddress`: `EraseSubscriber`, or an update from Qeet
ID that replaces the address).

*Abstractions.* E-mail only. A complaint carries no message id (`webhooks.go:69-70`) and ends in
`LookUp`. A callback is delivered once. The worker's gates are in `ChannelWorker`.

### RateLimit and EventIntake

*State.* The limiter's counter and its time to live in ticks; as ghosts, how many requests came and
how many were let through in the last `t` ticks, for every `t` up to the window. `attempt[a]` is the handler of one of the overlapping requests of one operation: the
early return it is on its way to, whether `redisKey` is set (`holds`) and whether its client is
still there. `key` is the Redis key (`none`, `pending`, `answered`), `client` what the client knows.

*Actions.* `Send` through the limiter, `Claim`/`ClaimTaken`/`ClaimFails` (SETNX),
`AnswerFromKey`/`LookFails` (GET), `Check`, `Publish`/`PublishFails`, `Cache`/`CacheFails`,
`Release`/`ReleaseFails` (both on the context of the request, so without effect when the client has
gone), `Answer`, `Disconnect`, `Crash`, and Redis' expiries.

### TenantHandlers and TenantRequests

*State.* `db` is what is committed, row by row (a tuple of table and key), with the columns the
properties read. `request[r]` is a request: the statement it is at, what it has read (`seen`), its
transaction's writes (which are its row locks), whether its client has gone, whether its transaction
is aborted, and the response it has buffered.

*Actions.* `TenantHandlers` turns each handler into a sequence of statements `[do, row, where, set,
check]`, computed from what it has read; `check` says what the handler does with an error (`error`:
4xx or 5xx, `found`: 404 also for no row, `ignored`: nothing). `TenantRequests` runs them: `Read`,
`Write` (waits for the row lock and looks at the row again, as READ COMMITTED does),
`StatementFails`, `Useless` (a statement of an aborted or cancelled transaction),
`DeadlockDetected`, then `Commit`/`CommitFails`/`Rollback`, `Audit` and `Answer` in the order of the
middleware, with `Disconnect` and `Crash` anywhere.

*Abstractions.* The six groups of endpoints share no table, so a behaviour draws one (`api`). One
row of each kind exists at the start and each `Create` adds its own; list handlers read the rows of
a table in one statement. Versions of a template are counted, and a `published_version` that a client
gives itself is `Foreign`; a provider's priority fits an `int4` or is too large to be sent; bodies,
names and settings are numbers or flags.

## 3. Runs

All bounds are constants with a comment in the module. `CHECK_DEADLOCK FALSE` wherever everything
may have been handled and all faults used up: then the system rests. `WorkflowWalk` has no such
state before `outcome` is set, and is checked for deadlock.

| Run | Instance | Shows |
|---|---|---|
| `walk` | all workflows of two steps with arbitrary (also equal or missing) ids and of three with distinct ids, all targets and types, payloads that their condition holds of or not, three start indexes (also beyond the end, as after an edit); one condition step for each of 122 expressions on each of 16 values and on a missing field | the guard fails exactly the walks that cycle, no step twice otherwise, every call returns; the six operators are consistent and quotation is exact |
| `runs_safety` | 2 engines, 1 scheduler, 1 event, 2 runs, workflow delay-channel-delay-channel, 2 faults | types, no row without its job, no step dispatched twice without a fault, runs of an event and messages of a run bounded by the faults, delays kept, and the refinement of `RunLifecycle`, under crashes, rollbacks, refused publishes, lost commits and redeliveries anywhere |
| `runs_edited` | 2 engines, 2 schedulers, 1 event, 1 run, batches of 2, 3 texts of the workflow, 2 edits, 1 fault | overlapping schedulers and edited, paused or archived workflows strand no run, lose no event and keep the refinement |
| `runs_live` | 2 engines, 1 event, 1 fault, fair | every event gets handled and every run ends |
| `runs_stranded` | as `runs_safety`, 1 fault | violation: a refused resume message strands its run (section 5) |
| `worker_safety` | all 5 channels, 2 workers, 1 job, 2 providers, 3 deliveries, 2 faults, the window opens once | the safety properties of the workers |
| `worker_settles` | all 5 channels, 2 workers, 1 provider, 2 deliveries, 1 fault, the window opens and closes, fair | without a fault every job (but of SMS) is acknowledged or dead-lettered; suppression, the registry and the window hold for later deliveries |
| `intake` | 2 overlapping requests of an operation, limit 2 in 2 ticks, 1 other request, 1 expiry, 2 faults | accepted means queued, duplicates bounded, claims resolved, the limit, and that a client that retries gets its answer |
| `limit_window` | limit 2 in 2 ticks | violation: a tenant within the limit is refused (section 5) |
| `requests` | 6 groups of endpoints, any 3 requests, 2 of them at a time, requests and faults together at most 3 | atomicity, answers, the ledger, published versions, audit, what ended stays ended, every request ends |
| `requests_unsubscribe` | the same | violation: an opt-in outlives the unsubscription (section 5) |
| `reports` | 2 deliveries of the job, 2 callbacks of 3 kinds, 2 addresses and none, 1 change, 1 fault | bounces are whole, reports stored once, outcomes kept, reports and callbacks arrive |

*Why the bounds are enough.* Two engines, schedulers or workers give every overlap of an old and a
new process and of a redelivery with a slow handler; two runs let one event start a second run after
one fault; a workflow with two delays is the shortest in which a late resume message can meet a run
in another delay, and in which the row of a run is written by two walks; three deliveries have a
first, a middle and a last one; two providers have a fallback. Two requests of an operation claim,
look and release against each other; the third request of a tenant reads what two concurrent ones
left behind; a deadlock needs two requests with two rows. Two callbacks of one message race for the
row, the third is of the other delivery. Two faults are the least that can undo each other's repair
(a redelivery, then a failed commit). What the proofs cover needs no bounds.

*Fairness.* `runs_live`: weak fairness of each engine's `Handle` and `Work` and of each scheduler's
`Tick` (the loops of `Run` are restarted by Kubernetes and block only on a row lock, which ends with
its transaction), of delivery (JetStream redelivers what is not acknowledged) and of the clock.
Operators and clients owe nothing, faults are finitely many. `DuplicatesBounded` and `RunsEnd` are
for acyclic workflows. `worker_settles`: weak fairness of `Work`, `Receive`, `Expire` and of the end
of the engine's transaction; nothing is assumed of the providers, which may reject for ever, or of
the window. `intake`: the handlers run, the clock goes on, Redis drops what has expired, and the
client tries again until it has an answer (`OperationsEnd` is a promise to such a client).
`requests`: as long as some handler can go on, one does; no handler is promised a lock. `reports`:
the same of the engine, the worker, the callbacks and the aggregator; the provider owes no callback.

Each property of a passing run has a mutant in PROJECT.json, a plausible bug of the code that TLC
finds with it.

## 4. Proofs

Every invariant and every action property that a passing run checks, and the refinement, is also a
theorem; what is left to TLC alone is liveness.

`WorkflowWalkProofs` proves of one call of `executeFrom`, for every list of steps (ids shared,
missing or unknown), every payload and every index to start from:

* `WalksAreExact`: `Spec => []OutcomeIsExact`;
* `StepsAreExecutedOnce`: `Spec => []NoStepTwiceUnlessFailing`;
* `OperatorsAlwaysAgree`: `Spec => []ComparisonsAgree`.

`WalkInv` makes the first two inductive. `Goes` is the walk as a function that a delay step leaves;
a walk from an index ends or it does not (`Ends`), and every step keeps to that. While a walk that
ends is under way, its orbit is disjoint from what it has executed, and both together are no more
steps than there are, so the guard's count is not reached (`GuardIsExact`). A walk that is stopped
by the guard does not end, and the indexes from which none ends are closed: neither a delay nor the
end of the steps can be reached (`CyclesAreFailed`). In the other direction, every closed set has
the index the walk is at, so the delay or the end it comes to is reached, and what it has left behind
is closed but for that index, so no other end is (`DelayIsReached`, `EndIsReached`).

`OperatorsAlwaysAgree` is about `Conditions` alone: no step changes the arguments (`Arguments`).
That `splitExpr` reads back what was written is the delicate part: `PlacesBetween` says that between
a plain path and a plain literal an operator is found where it stands, and none that is looked for
before it anywhere (`>` in `>=` is not looked for first), and `EqualityIsFirst` that after `==`
anything may follow. `TextsInOrder` shows that texts are in a strict linear order by their first
difference, and `ComparisonsInOrder` that exactly one of less, equal and greater holds of a value
and a literal, by number or by text, but for NaN. `QuotationIsRead` says that `unquote` undoes a
quotation, which parses as no number.

`WorkflowRunsProofs` proves for every workflow, any number of engines, schedulers, events, runs and
faults, from the assumptions on the constants alone:

* `TypeCorrect`: `Spec => []TypeOK`;
* `RunsWake`: `Spec => []RunningRunsWake`;
* `QueuedHaveJobs`: `Spec => []QueuedNotificationsHaveJobs`;
* `EventsKept`: `Spec => []AcceptedEventsKept`.

`RunningRunsWake` is not inductive: a tick that commits a cleared `resume_at` needs to know that its
resume message is still pending. `WakeInv` adds why it is. The row a transaction has updated is
locked by it (`UpdatesAreLocked`), so between the tick's publish and its commit no engine can commit
a walk of that run (`PendingStaysPending`); an engine acknowledges a resume message without having
written its run only if the run has ended (`SkippedRunsHaveEnded`), and an ended run does not become
running again: a pending walk writes `completed` or `failed` or leaves the status alone, and a tick
writes no status at all (`EndedStaysEnded`; the `UPDATE`s of the code do not test the status, so
this needs a proof). Hence what was cleared and published is pending until the tick ends
(`ClearedRunsWake`). The proof goes one action at a time (`WakeNext`). `TypeCorrect` carries along
which messages and runs a transaction can refer to (`StructInv`): a run that does not exist is never
resumed.

`RunLifecycleProofs` proves on top of these, for any number of edits too, that the protocol
implements its abstract specification:

* `RunsImplementLifecycle`: `Spec => ImplementsLifecycle`;
* `RunsEndAsDecided`: `Spec => []FateInv`.

The step that needs an argument is the commit of a walk of a run that another engine has ended in
the meantime: the code's `UPDATE` overwrites the status. As long as nobody has edited the workflow,
the walk is a function of the event: `Fate` is what a walk from the first step comes to, and every
place that a run, a resume message or an engine remembers is on the way to it (`FateInv`); an engine
that fails its walk at the cycle guard is on a cycle, because the steps still ahead of a walk that
ends fit under the guard with those it has done (`Remaining`). So both engines write the same status
and the second commit is a stutter. `WorkflowStepsProofs` has the facts about orbits in a finite
list this rests on: the orbit of a successor is what is left of the orbit, it shrinks by one on a
way that ends, and contains no end on a cycle.

The second part of the module is an account of what may still bring a run, or an event, to an
engine:

* `EventsStartFewRuns`: an event has at most one run more than there have been faults;
* `RepeatsAreBounded`: `Spec => []DuplicatesBounded`;
* `DelaysKept`: `Spec => DelaysAreKept`.

`RunTokens(r)` has a token for every copy of a resume message of `r` (in the stream, delivered, or
worked on), for the transaction that creates `r`, and for a `resume_at` that no tick has published
for (`Owed`); `EventTokens` has the copies of an event's message and its runs. There is at most one
token more than faults (`RunsCounted`, `EventsCounted`): every step hands a token on (`HandedOn`,
with a crash as a renaming of what the process held), a commit exchanges the message for a
`resume_at` and a publish the `resume_at` for a message, and only a fault adds one. That needs to
know that a run selected by a tick still has its `resume_at` (`TickInv`), and that needs the count:
to pause such a run an engine would have to hold a second token. Without a fault the one token gives
`DelaysKept`, since a run whose message is at an engine has no `resume_at`, and makes the engine that
walks a run its only one; so every step dispatched lies behind it on the way of the run (`StepsInv`,
`Past`) and is not dispatched again.

`RepeatsAreBounded` and `DelaysKept` assume `OneScheduler`, `RepeatsAreBounded` also `NoCycle`: the
walk of the workflow's first text ends for every event. Both are needed. Two schedulers select the
same due run and both publish for it; the repository deploys one (`deployments/k8s/scheduler/deployment.yaml:9`), and two overlap only
while they roll over (section 5). On a cycle the guard of `executeFrom` lets a step be dispatched
many times before it fails the run. `EventsStartFewRuns` assumes neither.

`ChannelWorkerProofs` proves for any number of workers, jobs, providers, deliveries and faults, and
for each of the five channels:

* `WorkerTypeCorrect`: `Spec => []TypeOK`, and with it that `MaxDeliver` bounds the deliveries of a
  job;
* `JobsAreDone`: `Spec => []AcknowledgedJobsAreDone`;
* `ReportsTrue`: `Spec => []ReportsAreTrue`;
* `JobsLeaveATrace`: `Spec => []FinishedJobsLeaveATrace`;
* `SendsAreBounded`: `Spec => []DuplicateSendsBounded`;
* `SuppressedAreSpared`: `Spec => SuppressionHolds`;
* `PromotionalsScreened`: `Spec => PromotionalsAreScreened`.

None of the invariants is inductive: each depends on the local state in which a worker reaches its
`Ack`, its event or its `UPDATE`. `Inv` adds what that state promises (`Promises`): a worker about
to acknowledge has committed its job or dead-lettered it (`MayAck`) and has left a trace of it
before that (`HasTrace`), and one about to report or to write a success holds a delivery that a
provider took (`MayReport`). Another worker that has the same job after an expired AckWait cannot
break a promise, because what promises refer to only grows (`Grows`). `StepKeeps` says what a step
owes for that; one lemma per action, or per group of actions of the same shape, pays it, and
`InvNext` collects them. For SMS the trace is proved until the window first moves (`WindowInv`),
since the code does lose a job then (section 5).

`AllSendsInv` is an account of each job: the sends there have been, the handlers that may still send
it or have it sent by the next delivery (`MayStill`), and the delivery that is due, are together at
most one more than the faults. A send, a `Nak`, a deferral and a new delivery move one unit from one
entry to another, and only a fault adds one (`Balance`). A handler that sends in a transaction which
the failed category query has aborted counts twice (`Torn`): its job may be sent now and will be
delivered again; the fault that the query was pays for the second. For `SuppressedAreSpared` a
delivery that began after the suppression is `Barred`, and stays so: no handler of it is past the
gates (`DeliveriesInv` says that no delivery is under way, or taken, before the stream has made it).
`PromotionalsScreened` does the same for the registry (`Scrubbed`) and for one closing of the window
(`HeldBack`, until the window turns), from the order in which a worker comes to the gates
(`InOrder`): only past the registry it looks at the clock, and only past an open window, or
uncategorized, it sends.

`EventIntakeProofs` proves for every limit and window and any number of overlapping requests,
expiries and faults:

* `IntakeTypeCorrect`: `Spec => []TypeOK`;
* `AcceptedIsQueued`: `Spec => []AcceptedMeansQueued`;
* `ClaimsResolved`: `Spec => []ClaimsAreResolved`;
* `LimitIsKept`: `Spec => []LimitHolds`;
* `DuplicatesAreBounded`: `Spec => []DuplicatesBounded`.

`Inv` says what a handler's position promises: past the checks the body is valid, past the publish
the event is on the stream (`Fits`), and, as long as there was no fault, a pending key has a request
in progress that claimed it and will answer under it or release it (`ClaimIsCovered`; another
request may take the key away from it, never the other way round). `Owes` is what a step of a
handler has to show for that; each action has a lemma that names the state it gets to. `LimitInv`
relates the counter to the ghosts: it has counted what the last ticks let through, however many of
them one looks back, and the time to live bounds how long nothing has been.

`DuplicatesAreBounded` rests on a `Potential`: how often the event may still be queued without
another fault or expiry. While the key is settled (answered, or held by a request that will settle
it) that is once for each handler past it; while it is not, anybody may still claim it. `Within`
adds what was queued and compares with the budget that faults and expiries have given; each action
pays for what it queues from the potential (`Accounts`), and each fault or expiry brings as much as
there are requests. It needs that `Attempts` is finite (`AttemptsAssumption`).

`DeliveryReportsProofs` proves for any number of deliveries, callbacks and faults:

* `ReportsTypeCorrect`: `Spec => []TypeOK`;
* `BouncesWhole`: `Spec => []BouncesAreWhole`;
* `ReportsOnce`: `Spec => []ReportsAreStoredOnce`;
* `OutcomeKept`: `Spec => OutcomeIsKept`.

`Progress` says that a callback's transaction is aborted or has written all it has come past, so
that what is committed of a bounce is the event with the suppression of the address read, or
nothing; `Reached` that the address read is the subscriber's as long as that has not changed; `Copies` bounds how
often a report is stored by where its message is (once more each time it comes back, which takes a
fault); `OfARow` and `Unreported` are what the types need: a callback goes on only for a row that
exists, and a delivery is reported once. `Handled` is what keeps an outcome: without a fault a
callback finds its row, and so can write to it, only after the worker's commit.

`TenantRequestsProofs` proves for any number of requests, in progress at a
time or not, and of faults, and for each group of endpoints:

* `RequestsTypeCorrect`: `Spec => []TypeOK`;
* `MutationsHaveAudits`: `Spec => []MutationsAreAudited`;
* `PublishedVersionsExist`: `Spec => []PublishedVersionExists`;
* `EndedStays`: `Spec => EndedStaysEnded`;
* `RequestsCommitWhole`: `Spec => []RequestsAreAtomic`;
* `SuccessIsCommitted`: `Spec => []AnsweredMeansCommitted`;
* `ConsentHasItsRecord`: `Spec => []ConsentIsOnRecord`.

Every step is one of a dozen moves of its request (`Moves`, `NextMoves`: a refusal, a dropped error,
a statement that reads, writes or has no effect, a commit ...), and the invariants are proved of the
moves. One lemma per group (`SubscriberStatements` ...) lists the statements its handlers may send.
`Base` has the shape of a request at each place and that no two open transactions have written one
row (`Apart`), which is what the row locks are for: whoever has written a row finds it in `db` as it
was when he wrote it (`Untouched`). `GoodInv` has the columns of the rows. On top of these:

* `LockInv`: what a transaction has made of an erased subscriber or an archived workflow still is
  erased, or comes from an activation; `KeyInv`: who has revoked the key and not committed yet sees
  it unrevoked in `db`, so nobody else has committed a revocation.
* `PairInv`: a DLT template or provider configuration of which an update has written one of two
  columns has the other to be sent next, or is gone, or had a priority that is not sent; an update
  whose row is gone never finds it again.
* `EntryInv`: the ledger's rows carry the request that wrote them and are inserted once;
  with it `NoDroppedError`: the statements whose errors are dropped neither find their row there nor
  wait for a transaction that waits for theirs, so without a fault no transaction is aborted that
  would still be answered with success (`CleanInv`).
* `ConsentInv`: a choice that a transaction has written is in its ledger, or the entry is its next
  statement; `ExportInv`: the choices an export has read were in a ledger that only grows.

Only model-checked: liveness (`Returns`, `RunsEnd`, `EventsGetHandled`, `JobsSettle`,
`OperationsEnd`, `RequestsEnd`, `ReportsArrive`, `CallbacksArrive`), which, like `ENABLED`, is beyond
the prover. No module declares a recursive operator: orbits and what a walk reaches are least sets,
and a path is looked up by a fold, of which the proofs need nothing but that it finds a value.

## 5. Known behaviour

The violation runs show where the code does not do what a comment beside it says:

* `runs_stranded`: `scheduler.go:103-105` logs a refused publish and commits the cleared
  `resume_at`; the run sleeps for ever.
* `limit_window`: every request renews the counter's expiry, a refused one too (`ratelimit.go:27`);
  the window does not slide, and a tenant that never pauses for a whole window is refused in the
  end, however few requests it sends.
* `requests_unsubscribe`: `Unsubscribe` writes the row ('all', 'all') (`preferences.go:64`), which
  `IsOptedIn` looks at last.

What else the models contain, and their properties except or do not promise:

*Engine and scheduler*
* A resume message that is delivered twice ends the next delay of the run at once
  (`engine.go:112-146` looks only at `status = 'running'`): `DelaysAreKept` is checked up to the
  first fault.
* The job is published before its row is committed (`engine.go:295-323`); a fast worker updates no
  row and the notification stays `queued`.
* Two engines that handle the same resume message read the workflow at different times. When an edit
  lies between, the one may complete the run and the other fail it, and the `UPDATE` that commits
  last stays (`engine.go` tests no status when it writes one): the record of an ended run changes.
* A tick that fails to commit after its publish is repeated (`scheduler.go:93-94` says otherwise).
* The cycle guard counts the steps of one call (`engine.go:201-208`): a cycle through a delay step
  goes on for ever.
* While the scheduler's deployment rolls over, two schedulers may select the same due run and both
  publish for it: without any fault two engines may walk it, and `DuplicatesBounded` is of one
  scheduler.
* A fault may repeat a step more than once. Two engines hold a run after a redelivery; the slow one
  commits its pause after the other and after the next tick, and so sets `current_step_index` back
  under a resume message that is yet to come (`engine.go:117` reads the index when it comes). In a
  workflow with three delays one redelivery dispatches a step three times. What the faults do bound
  is how many runs an event has and how many resume messages a run has.
* Operators are looked for in the whole expression (`condition.go:34-36`): `p != "x==y"` splits at
  `==` and is always false. A quoted number compares as text, so `n > "9"` is true of no two-digit
  number; `nan` parses as a number that compares with nothing.

*Workers*
* `NakWithDelay` uses up deliveries (`sms/worker.go:106`); a promotional SMS deferred on its last
  one is neither redelivered nor dead-lettered.
* The error of the category lookup is ignored (`sms/worker.go:155`). When the query fails, or the
  template was deleted after the match, a promotional SMS is taken for transactional and sent past the
  NDNC and window gates; `PromotionalsAreScreened` excepts these deliveries. When the query failed
  the transaction is aborted too: the `UPDATE` fails, and the message that was sent is delivered again.
* When the window opens between `IsPromotionalWindowOpen` and `time.Until`, the delay is not
  positive and the message is acknowledged unsent (`sms/worker.go:101-109`): `Defer` answers `ack`.
* The in-app worker writes `sent` before it publishes to Redis (`inapp/worker.go:75-90`), and the row
  says so even when the publish fails for good and the job ends in the DLQ; `ReportsAreTrue` leaves
  this row out.
* The `Nak` after a refused DLQ publish (`consume.go:42-44`) comes on the last delivery and has no
  effect.
* `template_id` has a foreign key to `templates`, and the WhatsApp worker looks the id up in
  `dlt_templates` (`whatsapp/worker.go:112`): only an id that is in both tables passes. The model
  starts behind that.

*Callbacks and reports*
* A callback that arrives before the worker has committed `provider_message_id` is dropped after a
  200.
* `opened` and `clicked` are not statuses the CHECK of the column allows: the `UPDATE` aborts the
  transaction, and the event row is rolled back with it; opens are never counted.
* A bounce suppresses the address that the subscriber has when the callback comes
  (`webhooks.go:115-139`). After an erasure in between that is none, and the bounce is stored without
  a suppression; after a change it is the new address, and the one that bounced is not suppressed.
  `BouncesAreWhole` therefore speaks of the address that was read, and of the one mailed only as long
  as it stays.
* SES complaints are parsed without a message id (`webhooks.go:69-70`) and find no notification.
* A report of a notification that was rolled back is refused by the foreign key and Nak'ed for ever.

*Intake*
* After a crash, or a disconnect, between the claim and its release, retries get 409 until the key
  expires a day later (`events.go:27`); `OperationsEnd` holds because it does expire.
* `releaseIdem` deletes the key whoever has claimed it; a request whose claim expired or whose GET
  failed may release another's.

*Requests*
* The errors of `consent.Record` (`subscribers.go:464`) and of the commit (`tenant_tx.go:50`) are
  dropped: after an error in them the client is told 200 although everything was rolled back.
  Without faults it cannot happen (`AnsweredMeansCommitted`).
* An `UpdateSubscriber` that has read the row before an erasure writes the old metadata back (the
  contact data stays erased).
* `UpdateTemplate` writes `is_active` and the version it has read: it undoes a concurrent
  `DeleteTemplate`, and two updates make one version.
* The ledger is ordered by the transactions' start times: `History` may list two overlapping choices
  in the order opposite to the one in force.
* `UpdateDLTTemplate` and `UpdateProvider` answer 200 for rows that do not exist.
* A `priority` that does not fit an `int4` fails in pgx, before anything is sent; the error is dropped
  (`providers.go:132-137`), the transaction is whole, `is_active` commits alone and the client gets 200.
  `RequestsAreAtomic` excepts this.
* `published_version` is a key of the metadata that clients may give (`templates.go:144-148`,
  `218-222`): a template can be made to announce a version it never had. `PublishedVersionExists` is
  about what the handlers announce.
* A `PublishTemplate` that read the template before an update writes all the metadata back, the older
  version number with it.
* The `external_id` of an erased subscriber cannot be created again.

## 6. Not modelled, and the plan

Left to do: `DltWindow`, the IST arithmetic of `IsPromotionalWindowOpen` and `ResumeAtNextWindow`
against a reference.

Out of scope for good: provider clients, storage, rendering, configuration, encryption, telemetry,
the SDKs and the console apps (data and I/O), the push worker (a stub), row-level security (a
property of SQL policies; one tenant is modelled), `ScopeGuard` and OIDC (pure checks of a request),
the read-only notifications API and its SSE stream. `federation.Federate`,
`preferences.AddSuppression`, `ndnc.Register` and `database.WithTenant` have no caller in the
repository.
