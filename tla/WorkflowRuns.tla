---------------------------- MODULE WorkflowRuns ----------------------------
(***************************************************************************)
(* Workflow runs from the trigger event to the channel jobs: the engine    *)
(* (domains/workflows/engine), the scheduler (domains/scheduler), the      *)
(* NOTIFY_EVENTS stream between them and the workflow_runs and             *)
(* notifications tables they share.                                        *)
(*                                                                         *)
(* Every engine and every scheduler works in a database transaction        *)
(* (RunInTenant) that is isolated until it commits; what it publishes on   *)
(* the message bus on the way is visible at once and stays published when  *)
(* the transaction rolls back.  An UPDATE of a run locks its row until the *)
(* end of the transaction, a SELECT neither locks nor waits.               *)
(*                                                                         *)
(* One workflow, which operators edit, pause and activate while its runs   *)
(* are in progress.                                                        *)
(***************************************************************************)
EXTENDS WorkflowSteps, FiniteSets

CONSTANTS
  Engines,     \* workflow processes; two while a deployment rolls over
  Schedulers,  \* scheduler processes; two while a deployment rolls over
  Events,      \* trigger events that API clients may post
  Runs,        \* ids of workflow_runs
  Nobody,      \* the holder of a row lock nobody holds; also "no run"
  Versions, StepsOf, FirstVersion,  \* the texts the workflow is given in time
  PayloadOf,   \* the payload of each event, a set of true conditions
  Batch,       \* the scheduler's LIMIT
  Copies,      \* bound: resume messages for one run that exist at a time
  MaxNotifications,  \* bound: notifications dispatched in a behaviour
  MaxEdits,    \* bound: edits, pauses and activations of the workflow
  MaxFaults    \* bound: crashes, errors and redeliveries in a behaviour

ASSUME ActorsAssumption ==
  /\ Engines \cap Schedulers = {}
  /\ Nobody \notin Engines \cup Schedulers

ASSUME WorkflowAssumption ==
  /\ FirstVersion \in Versions
  /\ \A v \in Versions : StepsOf[v] \in Seq([id : STRING, type : StepTypes,
                           next : STRING, cond : STRING,
                           onTrue : STRING, onFalse : STRING])

ASSUME BoundsAssumption ==
  /\ Batch \in Nat \ {0} /\ Copies \in Nat \ {0}
  /\ MaxNotifications \in Nat /\ MaxEdits \in Nat /\ MaxFaults \in Nat

VARIABLES
  stream,         \* NOTIFY_EVENTS: the messages not acknowledged
  inbox,          \* inbox[e]: delivered to engine e, not yet taken by it
  engine,         \* engine[e]: the message e works on and its transaction
  scheduler,      \* scheduler[s]: the tick s is in and its transaction
  runs,           \* workflow_runs, as committed
  lockedBy,       \* lockedBy[r]: who has updated run r and not committed
  notifications,  \* notifications, as committed
  jobs,           \* the channel jobs published so far, by their notification
  workflow,       \* workflows: its current text and is_active
  accepted,       \* events the API has accepted
  unmatched,      \* events handled while no active workflow matched
  lost,           \* runs whose resume message the bus refused
  faults, edits   \* faults and edits so far

tables == <<runs, lockedBy, notifications>>
ghosts == <<accepted, unmatched, lost>>
vars == <<stream, inbox, engine, scheduler, tables, jobs, workflow, ghosts,
          faults, edits>>

-----------------------------------------------------------------------------
Trigger(ev) == [kind |-> "trigger", event |-> ev]
Resume(r, n) == [kind |-> "resume", run |-> r, copy |-> n]

Triggers == {Trigger(ev) : ev \in Events}
Resumes == {Resume(r, n) : r \in Runs, n \in 1 .. Copies}
Messages == Triggers \cup Resumes

ASSUME NobodyAssumption == Nobody \notin Runs \cup Events \cup Messages

Notifications == [id : 1 .. MaxNotifications, run : Runs, step : Nat]

Statuses == {"absent", "running", "completed", "failed"}
ResumeTimes == {"none", "later", "due"}     \* resume_at: NULL, after, before now

RunRows == [status : Statuses, index : Nat, resume : ResumeTimes,
            event : Events \cup {Nobody}]
NoRow == [status |-> "absent", index |-> 0, resume |-> "none", event |-> Nobody]
NewRow(ev) == [NoRow EXCEPT !.status = "running", !.event = ev]

\* What an engine's transaction has written to the row of its run.
Writes == {"nothing", "pause", "complete", "fail"}

EngineStates == [pc : {"idle", "walk", "commit", "ack", "nak"},
                 msg : Messages \cup {Nobody},
                 run : Runs \cup {Nobody}, created : BOOLEAN,
                 version : Versions, payload : {PayloadOf[ev] : ev \in Events} \cup {{}},
                 i : Nat, visited : Nat,
                 sent : SUBSET Notifications, write : Writes]

Idle == [pc |-> "idle", msg |-> Nobody, run |-> Nobody, created |-> FALSE,
         version |-> FirstVersion, payload |-> {}, i |-> 0, visited |-> 0,
         sent |-> {}, write |-> "nothing"]

\* due: selected and not reached; clearing: cleared, its message not yet
\* published; cleared: updated by the transaction; refused: publish failed.
SchedulerStates == [open : BOOLEAN, due : SUBSET Runs,
                    clearing : Runs \cup {Nobody},
                    cleared : SUBSET Runs, refused : SUBSET Runs]

Asleep == [open |-> FALSE, due |-> {}, clearing |-> Nobody,
           cleared |-> {}, refused |-> {}]

Init ==
  /\ stream = {} /\ inbox = [e \in Engines |-> {}]
  /\ engine = [e \in Engines |-> Idle]
  /\ scheduler = [s \in Schedulers |-> Asleep]
  /\ runs = [r \in Runs |-> NoRow] /\ lockedBy = [r \in Runs |-> Nobody]
  /\ notifications = {} /\ jobs = {}
  /\ workflow = [version |-> FirstVersion, active |-> TRUE]
  /\ accepted = {} /\ unmatched = {} /\ lost = {}
  /\ faults = 0 /\ edits = 0

Fault == faults < MaxFaults /\ faults' = faults + 1

-----------------------------------------------------------------------------
(* The API and the operators. *)

\* NewTriggerEvent publishes the event (events.go).
AcceptEvent(ev) ==
  /\ ev \notin accepted
  /\ accepted' = accepted \cup {ev}
  /\ stream' = stream \cup {Trigger(ev)}
  /\ UNCHANGED <<inbox, engine, scheduler, tables, jobs, workflow, unmatched,
                 lost, faults, edits>>

Edit == edits < MaxEdits /\ edits' = edits + 1

UpdateWorkflow(v) ==
  /\ Edit /\ v # workflow.version
  /\ workflow' = [workflow EXCEPT !.version = v]
  /\ UNCHANGED <<stream, inbox, engine, scheduler, tables, jobs, ghosts, faults>>

\* PauseWorkflow, ArchiveWorkflow and ActivateWorkflow.
SwitchWorkflow ==
  /\ Edit
  /\ workflow' = [workflow EXCEPT !.active = ~@]
  /\ UNCHANGED <<stream, inbox, engine, scheduler, tables, jobs, ghosts, faults>>

\* The clock passes the resume_at of run r.
Elapse(r) ==
  /\ runs[r].resume = "later"
  /\ runs' = [runs EXCEPT ![r].resume = "due"]
  /\ UNCHANGED <<stream, inbox, engine, scheduler, lockedBy, notifications, jobs,
                 workflow, ghosts, faults, edits>>

-----------------------------------------------------------------------------
(* Delivery by JetStream. *)

Outstanding(m) == \E e \in Engines : m \in inbox[e] \/ engine[e].msg = m

\* A message never delivered, refused by a Nak, or outstanding with a process
\* that is gone.
Deliver(e, m) ==
  /\ m \in stream /\ ~Outstanding(m)
  /\ inbox' = [inbox EXCEPT ![e] = @ \cup {m}]
  /\ UNCHANGED <<stream, engine, scheduler, tables, jobs, workflow, ghosts,
                 faults, edits>>

\* AckWait runs out on a message a process is still holding.
Redeliver(e, m) ==
  /\ Fault
  /\ m \in stream /\ Outstanding(m) /\ m \notin inbox[e]
  /\ inbox' = [inbox EXCEPT ![e] = @ \cup {m}]
  /\ UNCHANGED <<stream, engine, scheduler, tables, jobs, workflow, ghosts, edits>>

-----------------------------------------------------------------------------
(* The engine. *)

SetEngine(e, state) == engine' = [engine EXCEPT ![e] = state]
Unlock(p) == [r \in Runs |-> IF lockedBy[r] = p THEN Nobody ELSE lockedBy[r]]

Take(e, m) ==
  /\ engine[e].pc = "idle" /\ m \in inbox[e]
  /\ inbox' = [inbox EXCEPT ![e] = @ \ {m}]

\* ProcessEvent, an active workflow matches: createRun, under a new UUID.
StartRun(e, ev, r) ==
  /\ Take(e, Trigger(ev))
  /\ workflow.active
  /\ runs[r].status = "absent"
  /\ \A f \in Engines : engine[f].run # r
  /\ \A n \in jobs : n.run # r
  /\ SetEngine(e, [Idle EXCEPT !.pc = "walk", !.msg = Trigger(ev), !.run = r,
                     !.created = TRUE, !.version = workflow.version,
                     !.payload = PayloadOf[ev]])
  /\ UNCHANGED <<stream, scheduler, tables, jobs, workflow, ghosts, faults, edits>>

\* ProcessEvent, no active workflow matches.  (An error of the SELECT is taken
\* for no match too, but leaves a transaction that cannot commit.)
IgnoreEvent(e, ev) ==
  /\ Take(e, Trigger(ev))
  /\ ~workflow.active
  /\ SetEngine(e, [Idle EXCEPT !.pc = "commit", !.msg = Trigger(ev)])
  /\ UNCHANGED <<stream, scheduler, tables, jobs, workflow, ghosts, faults, edits>>

\* Resume: the run is read with the text the workflow has now.
ResumeRun(e, m) ==
  /\ m \in Resumes /\ Take(e, m)
  /\ runs[m.run].status = "running"
  /\ SetEngine(e, [Idle EXCEPT !.pc = "walk", !.msg = m, !.run = m.run,
                     !.version = workflow.version, !.i = runs[m.run].index,
                     !.payload = PayloadOf[runs[m.run].event]])
  /\ UNCHANGED <<stream, scheduler, tables, jobs, workflow, ghosts, faults, edits>>

\* Mutants of SkipResume: Resume looks for the run under "AND w.is_active", or
\* under "AND r.resume_at IS NOT NULL".
SkipResumeOfPausedWorkflow(e, m) ==
  /\ m \in Resumes /\ Take(e, m)
  /\ runs[m.run].status # "running" \/ ~workflow.active
  /\ SetEngine(e, [Idle EXCEPT !.pc = "commit", !.msg = m])
  /\ UNCHANGED <<stream, scheduler, tables, jobs, workflow, ghosts, faults, edits>>

SkipResumeOfClearedRun(e, m) ==
  /\ m \in Resumes /\ Take(e, m)
  /\ runs[m.run].status # "running" \/ runs[m.run].resume = "none"
  /\ SetEngine(e, [Idle EXCEPT !.pc = "commit", !.msg = m])
  /\ UNCHANGED <<stream, scheduler, tables, jobs, workflow, ghosts, faults, edits>>

\* Resume, the run is not running any more.
SkipResume(e, m) ==
  /\ m \in Resumes /\ Take(e, m)
  /\ runs[m.run].status # "running"
  /\ SetEngine(e, [Idle EXCEPT !.pc = "commit", !.msg = m])
  /\ UNCHANGED <<stream, scheduler, tables, jobs, workflow, ghosts, faults, edits>>

StepList(e) == StepsOf[engine[e].version]
NextOf(e) == Successor(StepList(e), engine[e].i, engine[e].payload)

AtStep(e, type) ==
  /\ engine[e].pc = "walk"
  /\ engine[e].i < Len(StepList(e))
  /\ engine[e].visited <= MaxIterations(StepList(e))
  /\ StepList(e)[engine[e].i + 1].type = type

Advanced(e) == [engine[e] EXCEPT !.i = NextOf(e), !.visited = @ + 1]
Failed(e) == [Idle EXCEPT !.pc = "nak", !.msg = engine[e].msg]

\* The id of the next notification: a UUID no earlier INSERT drew.
Drawn == {n.id : n \in jobs}
NewNotification(e) ==
  [id |-> Cardinality(Drawn) + 1, run |-> engine[e].run, step |-> engine[e].i]

\* dispatchChannel: preferences allow it, the row is inserted and the job
\* published, ahead of the commit that makes the row visible.
Dispatch(e) ==
  /\ AtStep(e, "channel") /\ Cardinality(Drawn) < MaxNotifications
  /\ jobs' = jobs \cup {NewNotification(e)}
  /\ SetEngine(e, [Advanced(e) EXCEPT !.sent = @ \cup {NewNotification(e)}])
  /\ UNCHANGED <<stream, inbox, scheduler, tables, workflow, ghosts, faults, edits>>

\* dispatchChannel: the subscriber has opted out.
SkipChannel(e) ==
  /\ AtStep(e, "channel")
  /\ SetEngine(e, Advanced(e))
  /\ UNCHANGED <<stream, inbox, scheduler, tables, jobs, workflow, ghosts,
                 faults, edits>>

\* Mutant of DispatchFails: the error is logged and the walk goes on.
DispatchFailsUnnoticed(e) ==
  /\ Fault
  /\ AtStep(e, "channel") /\ Cardinality(Drawn) < MaxNotifications
  /\ SetEngine(e, [Advanced(e) EXCEPT !.sent = @ \cup {NewNotification(e)}])
  /\ UNCHANGED <<stream, inbox, scheduler, tables, jobs, workflow, ghosts, edits>>

\* dispatchChannel: Publish reports an error, whether or not the bus stored
\* the job; the transaction rolls back.
DispatchFails(e) ==
  /\ Fault
  /\ AtStep(e, "channel")
  /\ \/ jobs' = jobs
     \/ /\ Cardinality(Drawn) < MaxNotifications
        /\ jobs' = jobs \cup {NewNotification(e)}
  /\ SetEngine(e, Failed(e))
  /\ lockedBy' = Unlock(e)
  /\ UNCHANGED <<stream, inbox, scheduler, runs, notifications, workflow, ghosts,
                 edits>>

Branch(e) ==
  /\ AtStep(e, "condition") \/ AtStep(e, "other")
  /\ SetEngine(e, Advanced(e))
  /\ UNCHANGED <<stream, inbox, scheduler, tables, jobs, workflow, ghosts,
                 faults, edits>>

\* The UPDATE that ends executeFrom waits for the lock of the row; a run this
\* transaction created has no row anyone else sees.
WriteRun(e, write, index) ==
  /\ lockedBy[engine[e].run] = Nobody
  /\ lockedBy' = [lockedBy EXCEPT ![engine[e].run] = e]
  /\ SetEngine(e, [engine[e] EXCEPT !.pc = "commit", !.write = write, !.i = index])
  /\ UNCHANGED <<stream, inbox, scheduler, runs, notifications, jobs, workflow,
                 ghosts, faults, edits>>

Pause(e) == AtStep(e, "delay") /\ WriteRun(e, "pause", NextOf(e))

Complete(e) ==
  /\ engine[e].pc = "walk" /\ engine[e].i >= Len(StepList(e))
  /\ WriteRun(e, "complete", Len(StepList(e)))

\* failRun
Fail(e) ==
  /\ engine[e].pc = "walk" /\ engine[e].i < Len(StepList(e))
  /\ engine[e].visited > MaxIterations(StepList(e))
  /\ WriteRun(e, "fail", engine[e].i)

\* Mutants of Written: the UPDATE of the delay step sets the status too,
\* or the last one writes a status the CHECK constraint
\* of workflow_runs does not know.
WrittenWithStatus(e) ==
  LET row == IF engine[e].created THEN NewRow(engine[e].msg.event)
             ELSE runs[engine[e].run]
  IN  IF engine[e].write = "pause"
      THEN [row EXCEPT !.status = "running", !.resume = "later", !.index = engine[e].i]
      ELSE [row EXCEPT !.status = "completed"]

WrittenAsDone(e) ==
  LET row == IF engine[e].created THEN NewRow(engine[e].msg.event)
             ELSE runs[engine[e].run]
  IN  IF engine[e].write = "pause"
      THEN [row EXCEPT !.resume = "later", !.index = engine[e].i]
      ELSE [row EXCEPT !.status = "done"]

\* The row a commit of e leaves: its UPDATE sets only the columns it names.
Written(e) ==
  LET r   == engine[e].run
      row == IF engine[e].created THEN NewRow(engine[e].msg.event) ELSE runs[r]
  IN  CASE engine[e].write = "pause" ->
             [row EXCEPT !.resume = "later", !.index = engine[e].i]
        [] engine[e].write = "complete" ->
             [row EXCEPT !.status = "completed", !.index = engine[e].i]
        [] OTHER -> [row EXCEPT !.status = "failed"]

\* The commit of RunInTenant, after which handle returns nil or, when the reply
\* of the database does not arrive, an error.
CommitTo(e, pc) ==
  /\ engine[e].pc = "commit"
  /\ runs' = IF engine[e].run = Nobody THEN runs
             ELSE [runs EXCEPT ![engine[e].run] = Written(e)]
  /\ notifications' = notifications \cup engine[e].sent
  /\ lockedBy' = Unlock(e)
  /\ unmatched' = IF engine[e].run = Nobody /\ engine[e].msg \in Triggers
                  THEN unmatched \cup {engine[e].msg.event} ELSE unmatched
  /\ SetEngine(e, [Idle EXCEPT !.pc = pc, !.msg = engine[e].msg])
  /\ UNCHANGED <<stream, inbox, scheduler, jobs, workflow, accepted, lost, edits>>

\* Mutant of Commit: handle reports an error after every commit.
CommitWithError(e) == CommitTo(e, "nak") /\ UNCHANGED faults

Commit(e) == CommitTo(e, "ack") /\ UNCHANGED faults
CommitUnknown(e) == Fault /\ CommitTo(e, "nak")

\* A statement or the commit fails: the deferred Rollback, and a Nak.
RollBack(e) ==
  /\ Fault
  /\ engine[e].pc \in {"walk", "commit"}
  /\ SetEngine(e, Failed(e))
  /\ lockedBy' = Unlock(e)
  /\ UNCHANGED <<stream, inbox, scheduler, runs, notifications, jobs, workflow,
                 ghosts, edits>>

\* Mutant of Nak: a failed handler acknowledges.
NakAsAck(e) ==
  /\ engine[e].pc = "nak"
  /\ stream' = stream \ {engine[e].msg}
  /\ SetEngine(e, Idle)
  /\ UNCHANGED <<inbox, scheduler, tables, jobs, workflow, ghosts, faults, edits>>

\* Ack and Nak are sent and not confirmed.
Ack(e) ==
  /\ engine[e].pc = "ack"
  /\ stream' = stream \ {engine[e].msg}
  /\ SetEngine(e, Idle)
  /\ UNCHANGED <<inbox, scheduler, tables, jobs, workflow, ghosts, faults, edits>>

Nak(e) ==
  /\ engine[e].pc = "nak"
  /\ SetEngine(e, Idle)
  /\ UNCHANGED <<stream, inbox, scheduler, tables, jobs, workflow, ghosts, faults,
                 edits>>

\* The process dies with its transaction and what was delivered to it.  (With
\* nothing more delivered, this is an Ack lost on its way too.)
Crash(e) ==
  /\ Fault
  /\ engine[e] # Idle \/ inbox[e] # {}
  /\ SetEngine(e, Idle)
  /\ inbox' = [inbox EXCEPT ![e] = {}]
  /\ lockedBy' = Unlock(e)
  /\ UNCHANGED <<stream, scheduler, runs, notifications, jobs, workflow, ghosts,
                 edits>>

-----------------------------------------------------------------------------
(* The scheduler. *)

SetScheduler(s, state) == scheduler' = [scheduler EXCEPT ![s] = state]

\* Mutant of DueRuns: without "resume_at <= NOW()".
DueRunsAtAnyTime == {r \in Runs : runs[r].status = "running" /\ runs[r].resume # "none"}

DueRuns == {r \in Runs : runs[r].status = "running" /\ runs[r].resume = "due"}

\* Tick: BEGIN and SELECT ... LIMIT batch.
Scan(s) ==
  /\ ~scheduler[s].open
  /\ \E due \in SUBSET DueRuns :
       /\ due # {} /\ Cardinality(due) <= Batch
       /\ Cardinality(due) = Batch \/ due = DueRuns
       /\ SetScheduler(s, [Asleep EXCEPT !.open = TRUE, !.due = due])
  /\ UNCHANGED <<stream, inbox, engine, tables, jobs, workflow, ghosts, faults, edits>>

\* The UPDATE of the next run selected, whatever it has become since.
Clear(s, r) ==
  /\ r \in scheduler[s].due /\ scheduler[s].clearing = Nobody
  /\ lockedBy[r] = Nobody
  /\ lockedBy' = [lockedBy EXCEPT ![r] = s]
  /\ SetScheduler(s, [scheduler[s] EXCEPT !.due = @ \ {r}, !.clearing = r,
                        !.cleared = @ \cup {r}])
  /\ UNCHANGED <<stream, inbox, engine, runs, notifications, jobs, workflow, ghosts,
                 faults, edits>>

\* The resume message is published (a reply that gets lost is only logged).
Publish(s) ==
  LET r == scheduler[s].clearing
  IN  /\ r # Nobody
      /\ \E n \in 1 .. Copies :
           /\ Resume(r, n) \notin stream /\ ~Outstanding(Resume(r, n))
           /\ stream' = stream \cup {Resume(r, n)}
      /\ SetScheduler(s, [scheduler[s] EXCEPT !.clearing = Nobody])
      /\ UNCHANGED <<inbox, engine, tables, jobs, workflow, ghosts, faults, edits>>

\* The bus refuses the message: logged, and the tick goes on.
PublishFails(s) ==
  LET r == scheduler[s].clearing
  IN  /\ Fault
      /\ r # Nobody
      /\ SetScheduler(s, [scheduler[s] EXCEPT !.clearing = Nobody,
                            !.refused = @ \cup {r}])
      /\ UNCHANGED <<stream, inbox, engine, tables, jobs, workflow, ghosts, edits>>

\* Mutant of CommitTick: resume_at is not cleared.
CommitTickWithoutClearing(s) ==
  /\ scheduler[s].open /\ scheduler[s].due = {} /\ scheduler[s].clearing = Nobody
  /\ lockedBy' = Unlock(s)
  /\ SetScheduler(s, Asleep)
  /\ UNCHANGED <<stream, inbox, engine, runs, notifications, jobs, workflow, ghosts,
                 faults, edits>>

CommitTick(s) ==
  /\ scheduler[s].open /\ scheduler[s].due = {} /\ scheduler[s].clearing = Nobody
  /\ runs' = [r \in Runs |-> IF r \in scheduler[s].cleared
                             THEN [runs[r] EXCEPT !.resume = "none"] ELSE runs[r]]
  /\ lost' = lost \cup scheduler[s].refused
  /\ lockedBy' = Unlock(s)
  /\ SetScheduler(s, Asleep)
  /\ UNCHANGED <<stream, inbox, engine, notifications, jobs, workflow, accepted,
                 unmatched, faults, edits>>

\* A statement or the commit fails, or the process dies: what it published
\* stays published.
AbortTick(s) ==
  /\ Fault
  /\ scheduler[s].open
  /\ lockedBy' = Unlock(s)
  /\ SetScheduler(s, Asleep)
  /\ UNCHANGED <<stream, inbox, engine, runs, notifications, jobs, workflow, ghosts,
                 edits>>

-----------------------------------------------------------------------------
Handle(e) ==
  \/ \E ev \in Events, r \in Runs : StartRun(e, ev, r)
  \/ \E ev \in Events : IgnoreEvent(e, ev)
  \/ \E m \in Resumes : ResumeRun(e, m) \/ SkipResume(e, m)

Work(e) ==
  \/ Dispatch(e) \/ SkipChannel(e) \/ Branch(e)
  \/ Pause(e) \/ Complete(e) \/ Fail(e)
  \/ Commit(e) \/ Ack(e) \/ Nak(e)

EngineFault(e) ==
  DispatchFails(e) \/ RollBack(e) \/ CommitUnknown(e) \/ Crash(e)

Tick(s) ==
  Scan(s) \/ (\E r \in Runs : Clear(s, r)) \/ Publish(s) \/ CommitTick(s)

SchedulerFault(s) == PublishFails(s) \/ AbortTick(s)

Next ==
  \/ \E ev \in Events : AcceptEvent(ev)
  \/ \E v \in Versions : UpdateWorkflow(v)
  \/ SwitchWorkflow
  \/ \E r \in Runs : Elapse(r)
  \/ \E e \in Engines, m \in Messages : Deliver(e, m) \/ Redeliver(e, m)
  \/ \E e \in Engines : Handle(e) \/ Work(e) \/ EngineFault(e)
  \/ \E s \in Schedulers : Tick(s) \/ SchedulerFault(s)

Spec == Init /\ [][Next]_vars
-----------------------------------------------------------------------------
(* Safety. *)

TypeOK ==
  /\ stream \subseteq Messages
  /\ inbox \in [Engines -> SUBSET Messages]
  /\ engine \in [Engines -> EngineStates]
  /\ scheduler \in [Schedulers -> SchedulerStates]
  /\ runs \in [Runs -> RunRows]
  /\ lockedBy \in [Runs -> Engines \cup Schedulers \cup {Nobody}]
  /\ notifications \subseteq Notifications
  /\ jobs \subseteq Notifications
  /\ workflow \in [version : Versions, active : BOOLEAN]
  /\ accepted \subseteq Events /\ unmatched \subseteq Events
  /\ lost \subseteq Runs
  /\ faults \in 0 .. MaxFaults /\ edits \in 0 .. MaxEdits

\* A resume message for run r that some engine still has to act on.
PendingResumes(r) ==
  {m \in stream : /\ m.kind = "resume" /\ m.run = r
                  /\ \A e \in Engines : engine[e].msg = m => engine[e].pc # "ack"}

\* A run in status running always has something that will bring it to the
\* engine again: a resume_at the scheduler looks for, or a resume message the
\* engine has not finished with.  Neither a crash between publishing a resume
\* message and committing the cleared resume_at, nor the redelivery of an old
\* message, nor an edit of the workflow strands it.  The one exception is a
\* run whose message the bus refused (scheduler.go:103-105).
RunningRunsWake ==
  \A r \in Runs :
    runs[r].status = "running" =>
      runs[r].resume # "none" \/ PendingResumes(r) # {} \/ r \in lost

\* The same without the exception: "the engine pauses a run on a delay step
\* and this binary wakes it back up" (scheduler.go:18-19).
PausedRunsAreWokenUp ==
  \A r \in Runs :
    runs[r].status = "running" =>
      runs[r].resume # "none" \/ PendingResumes(r) # {}

\* An accepted event is not lost between the stream and the database: until it
\* is acknowledged it stays in the stream, and it is acknowledged only after a
\* run of it was committed or no active workflow matched it.
AcceptedEventsKept ==
  \A ev \in accepted :
    \/ Trigger(ev) \in stream
    \/ ev \in unmatched
    \/ \E r \in Runs : runs[r].event = ev

\* A committed notification, shown as queued to the tenant, always has had its
\* channel job published: whatever fails in dispatchChannel, no row stays
\* queued for want of a job.
QueuedNotificationsHaveJobs == notifications \subseteq jobs

\* Without a fault no step of a run is dispatched twice; and each fault starts
\* an event or publishes the resume message of a run at most once more: these
\* duplicates add up with the faults, they do not multiply.  "Clear resume_at
\* before re-enqueueing so a slow engine never gets the same run published
\* twice" (scheduler.go:93-94).  (For workflows without cycles, one scheduler.
\* How often a step is repeated is not bounded by the faults: an engine that
\* commits late sets step_index back under a resume message that follows.)
DuplicatesBounded ==
  /\ faults = 0 /\ edits = 0 =>
       \A n, d \in jobs : n.run = d.run /\ n.step = d.step => n = d
  /\ \A ev \in Events : Cardinality({r \in Runs : runs[r].event = ev}) <= 1 + faults
  /\ \A r \in Runs : Cardinality(PendingResumes(r)) <= 1 + faults

\* Without a fault a run is dispatched from where it stopped and not before its
\* delay is over: "pause execution for N seconds" (types.go:8).  (A message that
\* is delivered again may end the next delay of its run.)
DelaysAreKept ==
  [][faults = 0 =>
     \A e \in Engines, m \in Resumes : ResumeRun(e, m) => runs[m.run].resume # "later"]_vars

\* The tables and the stream, crashes and redeliveries included, implement the
\* life that RunLifecycle promises for events and runs: although the UPDATEs of
\* executeFrom and failRun do not look at the status, no stale transaction sets
\* a run that has ended going again, and as long as nobody edits the workflow
\* none ends it otherwise than it has ended.
Lifecycle ==
  INSTANCE RunLifecycle WITH
    NoEvent <- Nobody,
    pending <- {ev \in Events : Trigger(ev) \in stream},
    ignored <- unmatched,
    status  <- [r \in Runs |-> runs[r].status],
    event   <- [r \in Runs |-> runs[r].event],
    changed <- edits > 0

ImplementsLifecycle == Lifecycle!Spec

-----------------------------------------------------------------------------
(* Liveness.  The processes run, restart and are delivered to, the clock goes *)
(* on, and the faults are finitely many; operators and clients owe nothing.   *)

Fairness ==
  /\ \A e \in Engines : WF_vars(Handle(e)) /\ WF_vars(Work(e))
  /\ \A m \in Messages : WF_vars(\E e \in Engines : Deliver(e, m))
  /\ \A s \in Schedulers : WF_vars(Tick(s))
  /\ \A r \in Runs : WF_vars(Elapse(r))

FairSpec == Spec /\ Fairness

\* Every accepted event is eventually handled.
EventsGetHandled ==
  \A ev \in Events : ev \in accepted ~> Trigger(ev) \notin stream

\* Every run comes to an end (but for one whose resume message was refused).
RunsEnd ==
  \A r \in Runs : runs[r].status = "running" ~> runs[r].status # "running" \/ r \in lost
=============================================================================
