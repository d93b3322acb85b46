------------------------- MODULE WorkflowRunsProofs -------------------------
(***************************************************************************)
(* Theorems about WorkflowRuns for any number of engines, schedulers,      *)
(* events and runs, any workflow and any number of faults.                 *)
(***************************************************************************)
EXTENDS WorkflowRuns, WorkflowStepsProofs

\* Every step has a successor: the walk of executeFrom never leaves Nat.
LEMMA NextIsIndex ==
  ASSUME NEW v \in Versions, NEW i \in Nat, i < Len(StepsOf[v]), NEW p
  PROVE  Successor(StepsOf[v], i, p) \in Nat
<1>1. StepsOf[v] \in Seq([id : STRING, type : StepTypes, next : STRING, cond : STRING,
                           onTrue : STRING, onFalse : STRING])
  BY WorkflowAssumption
<1>2. Len(StepsOf[v]) \in Nat /\ DOMAIN StepsOf[v] = 1 .. Len(StepsOf[v])
  BY <1>1
<1> QED BY <1>2, SuccessorType

-----------------------------------------------------------------------------
(* The parts of the inductive invariant behind the safety properties above.   *)

\* What a row is once it exists, and what it is before.
RowsHaveEvents ==
  \A r \in Runs : IF runs[r].status = "absent" THEN runs[r] = NoRow
                  ELSE runs[r].event \in Events

\* The message an engine works on fits the run of its transaction.
EnginesFitTheirMessages ==
  \A e \in Engines :
    /\ engine[e].pc = "walk" \/ engine[e].created => engine[e].run \in Runs
    /\ engine[e].pc \in {"ack", "nak", "walk", "commit"} => engine[e].msg \in Messages
    /\ engine[e].pc = "commit" /\ engine[e].run # Nobody => engine[e].write # "nothing"
    /\ engine[e].run # Nobody =>
         /\ engine[e].pc \in {"walk", "commit"}
         /\ IF engine[e].created THEN engine[e].msg \in Triggers
            ELSE engine[e].msg \in Resumes /\ engine[e].msg.run = engine[e].run

\* Only runs that were committed are resumed; a run not committed yet belongs
\* to one transaction.
ResumedRunsExist ==
  /\ \A m \in Resumes :
       \/ m \in stream
       \/ \E e \in Engines : m \in inbox[e] \/ engine[e].msg = m
       => runs[m.run].status # "absent"
  /\ \A s \in Schedulers :
       \A r \in scheduler[s].due \cup scheduler[s].cleared : runs[r].status # "absent"
  /\ \A s \in Schedulers : scheduler[s].clearing \in scheduler[s].cleared \cup {Nobody}
  /\ \A e \in Engines :
       engine[e].created =>
         /\ runs[engine[e].run].status = "absent"
         /\ \A f \in Engines : f # e => engine[f].run # engine[e].run

\* A row that a transaction has updated is locked by it.
UpdatesAreLocked ==
  /\ \A e \in Engines : engine[e].pc = "commit" /\ engine[e].run # Nobody =>
                           lockedBy[engine[e].run] = e
  /\ \A s \in Schedulers : \A r \in scheduler[s].cleared : lockedBy[r] = s

\* A resume message is taken for settled without a write only when its run
\* has ended.
SkippedRunsHaveEnded ==
  \A e \in Engines :
    engine[e].pc = "commit" /\ engine[e].run = Nobody /\ engine[e].msg \in Resumes =>
      runs[engine[e].msg.run].status \in {"completed", "failed"}

\* What a scheduler has cleared and is about to commit has a message pending:
\* the engine cannot settle the message while the scheduler locks the row.
ClearedRunsWake ==
  \A s \in Schedulers : \A r \in scheduler[s].cleared \ {scheduler[s].clearing} :
    runs[r].status = "running" =>
      PendingResumes(r) # {} \/ r \in scheduler[s].refused

\* Why a running run is always woken up: the invariant that RunsWake needs.
WakeInv ==
  /\ RowsHaveEvents /\ EnginesFitTheirMessages /\ ResumedRunsExist
  /\ UpdatesAreLocked /\ SkippedRunsHaveEnded /\ ClearedRunsWake /\ RunningRunsWake

\* What a transaction will commit as notifications has its jobs published.
JobsInv ==
  QueuedNotificationsHaveJobs /\ \A e \in Engines : engine[e].sent \subseteq jobs

\* An event that is about to be acknowledged has been handled.
KeptInv ==
  /\ AcceptedEventsKept
  /\ \A e \in Engines, ev \in Events :
       engine[e].pc = "ack" /\ engine[e].msg = Trigger(ev) =>
         ev \in unmatched \/ \E r \in Runs : runs[r].event = ev

-----------------------------------------------------------------------------
(* Type correctness, with what it needs to know of rows and transactions.     *)

\* The part of the invariant that TypeOK needs to be inductive.
StructInv == TypeOK /\ RowsHaveEvents /\ EnginesFitTheirMessages /\ ResumedRunsExist

\* The states that processes and rows begin in are well typed.
LEMMA StatesWellTyped ==
  /\ Idle \in EngineStates /\ Asleep \in SchedulerStates /\ NoRow \in RunRows
  /\ \A ev \in Events : NewRow(ev) \in RunRows /\ Trigger(ev) \in Messages
<1>1. Idle \in EngineStates
  BY WorkflowAssumption DEF Idle, EngineStates, Writes
<1>2. Asleep \in SchedulerStates
  BY DEF Asleep, SchedulerStates
<1>3. NoRow \in RunRows /\ \A ev \in Events : NewRow(ev) \in RunRows
  BY DEF NoRow, NewRow, RunRows, Statuses, ResumeTimes
<1>4. \A ev \in Events : Trigger(ev) \in Messages
  BY DEF Messages, Triggers
<1> QED BY <1>1, <1>2, <1>3, <1>4

\* Init: no run, no message, every engine idle and every scheduler asleep.
LEMMA StructInit == Init => StructInv
<1> SUFFICES ASSUME Init PROVE StructInv
  OBVIOUS
<1>1. TypeOK
  BY StatesWellTyped, WorkflowAssumption, BoundsAssumption DEF Init, TypeOK
<1>2. RowsHaveEvents
  BY DEF Init, RowsHaveEvents, NoRow
<1>3. EnginesFitTheirMessages
  BY DEF Init, EnginesFitTheirMessages, Idle
<1>4. ResumedRunsExist
  <2>1. \A e \in Engines : /\ engine[e].msg = Nobody /\ engine[e].created = FALSE
                           /\ inbox[e] = {}
    BY DEF Init, Idle
  <2>2. \A m \in Resumes : m # Nobody
    BY NobodyAssumption DEF Messages
  <2>3. \A s \in Schedulers : /\ scheduler[s].due \cup scheduler[s].cleared = {}
                              /\ scheduler[s].clearing = Nobody
    BY DEF Init, Asleep
  <2> QED BY <2>1, <2>2, <2>3 DEF Init, ResumedRunsExist
<1> QED BY <1>1, <1>2, <1>3, <1>4 DEF StructInv

\* The lemmas below take the steps that change neither runs nor scheduler: for
\* them it is enough to look at the new state of one engine.
LEMMA StructStepOfEngine ==
  ASSUME StructInv, NEW e \in Engines, NEW new \in EngineStates,
         SetEngine(e, new),
         stream' \subseteq stream,
         inbox' \in [Engines -> SUBSET Messages],
         \A f \in Engines : inbox'[f] \subseteq inbox[f],
         UNCHANGED <<scheduler, runs>>,
         lockedBy' \in [Runs -> Engines \cup Schedulers \cup {Nobody}],
         notifications' = notifications, jobs' \subseteq Notifications,
         workflow' = workflow, UNCHANGED ghosts,
         faults' \in 0 .. MaxFaults, edits' = edits,
         new.pc = "walk" \/ new.created => new.run \in Runs,
         new.pc \in {"ack", "nak", "walk", "commit"} => new.msg \in Messages,
         new.pc = "commit" /\ new.run # Nobody => new.write # "nothing",
         new.run # Nobody =>
           /\ new.pc \in {"walk", "commit"}
           /\ IF new.created THEN new.msg \in Triggers
              ELSE new.msg \in Resumes /\ new.msg.run = new.run,
         new.msg \in Resumes => runs[new.msg.run].status # "absent",
         new.run = engine[e].run \/ new.run = Nobody \/
           \A f \in Engines : engine[f].run = new.run => ~engine[f].created,
         new.created => /\ runs[new.run].status = "absent"
                        /\ \A f \in Engines : f # e => engine[f].run # new.run
  PROVE  StructInv'
<1> USE DEF StructInv, SetEngine
<1>1. engine' \in [Engines -> EngineStates] /\ engine'[e] = new
      /\ \A f \in Engines : f # e => engine'[f] = engine[f]
  BY DEF TypeOK
<1>2. TypeOK'
  BY <1>1 DEF TypeOK, ghosts
<1>3. RowsHaveEvents'
  BY DEF RowsHaveEvents
<1>4. EnginesFitTheirMessages'
  BY <1>1 DEF EnginesFitTheirMessages
<1>5. ResumedRunsExist'
  <2>1. ASSUME NEW m \in Resumes,
               m \in stream' \/ \E f \in Engines : m \in inbox'[f] \/ engine'[f].msg = m
        PROVE  runs'[m.run].status # "absent"
    BY <1>1, <2>1 DEF ResumedRunsExist
  <2>2. ASSUME NEW f \in Engines, engine'[f].created
        PROVE  /\ runs'[engine'[f].run].status = "absent"
               /\ \A g \in Engines : g # f => engine'[g].run # engine'[f].run
    BY <1>1, <2>2, NobodyAssumption DEF ResumedRunsExist, EnginesFitTheirMessages, TypeOK
  <2> QED BY <2>1, <2>2 DEF ResumedRunsExist
<1> QED BY <1>2, <1>3, <1>4, <1>5
\* The ids dispatchChannel has drawn can be counted.
LEMMA DrawnType == TypeOK => Cardinality(Drawn) \in Nat
<1> SUFFICES ASSUME TypeOK PROVE Cardinality(Drawn) \in Nat
  OBVIOUS
<1>1. Drawn \in SUBSET (1 .. MaxNotifications)
  BY DEF TypeOK, Drawn, Notifications
<1>2. IsFiniteSet(1 .. MaxNotifications)
  BY FS_Interval, BoundsAssumption
<1> QED BY <1>1, <1>2, FS_Subset, FS_CardinalityType

\* While MaxNotifications allows one, the next notification is well typed.
LEMMA NewNotificationType ==
  ASSUME StructInv, NEW e \in Engines, engine[e].pc = "walk",
         Cardinality(Drawn) < MaxNotifications
  PROVE  NewNotification(e) \in Notifications
<1>1. Cardinality(Drawn) + 1 \in 1 .. MaxNotifications
  BY DrawnType, BoundsAssumption DEF StructInv
<1>2. engine[e].run \in Runs /\ engine[e].i \in Nat
  BY DEF StructInv, TypeOK, EngineStates, EnginesFitTheirMessages
<1> QED BY <1>1, <1>2 DEF NewNotification, Notifications

\* One round of the loop of executeFrom keeps the engine's state well typed.
LEMMA AdvancedType ==
  ASSUME StructInv, NEW e \in Engines, engine[e].pc = "walk",
         engine[e].i < Len(StepList(e))
  PROVE  /\ Advanced(e) \in EngineStates
         /\ Advanced(e).pc = "walk" /\ Advanced(e).msg = engine[e].msg
         /\ Advanced(e).run = engine[e].run /\ Advanced(e).created = engine[e].created
<1>1. engine[e] \in EngineStates
  BY DEF StructInv, TypeOK
<1>2. NextOf(e) \in Nat
  BY <1>1, NextIsIndex DEF NextOf, StepList, EngineStates
<1> DEFINE moved == [engine[e] EXCEPT !.i = NextOf(e)]
<1>3. moved \in EngineStates
  BY <1>1, <1>2 DEF EngineStates
<1>4. Advanced(e) = [moved EXCEPT !.visited = @ + 1]
  BY <1>1 DEF Advanced, EngineStates
<1>5. /\ moved.pc = engine[e].pc /\ moved.msg = engine[e].msg
      /\ moved.run = engine[e].run /\ moved.created = engine[e].created
  BY <1>1 DEF EngineStates
<1> HIDE DEF moved
<1>6. [moved EXCEPT !.visited = @ + 1] \in EngineStates
  BY <1>3 DEF EngineStates
<1> QED BY <1>3, <1>4, <1>5, <1>6 DEF EngineStates

\* The end of a transaction leaves row locks with their type.
LEMMA UnlockType ==
  ASSUME TypeOK, NEW p
  PROVE  Unlock(p) \in [Runs -> Engines \cup Schedulers \cup {Nobody}]
BY DEF TypeOK, Unlock

\* The facts of StructInv about the engine that moves.
LEMMA EngineFacts ==
  ASSUME StructInv, NEW e \in Engines
  PROVE  /\ engine[e] \in EngineStates
         /\ engine[e].pc # "idle" => engine[e].msg \in Messages
         /\ engine[e].pc = "walk" \/ engine[e].created => engine[e].run \in Runs
         /\ engine[e].run # Nobody =>
              IF engine[e].created THEN engine[e].msg \in Triggers
              ELSE engine[e].msg \in Resumes /\ engine[e].msg.run = engine[e].run
         /\ engine[e].msg \in Resumes => runs[engine[e].msg.run].status # "absent"
         /\ engine[e].created =>
              /\ runs[engine[e].run].status = "absent"
              /\ \A f \in Engines : f # e => engine[f].run # engine[e].run
BY DEF StructInv, TypeOK, EngineStates, EnginesFitTheirMessages, ResumedRunsExist

\* A handler that returned an error leaves a well-typed engine.
LEMMA FailedType ==
  ASSUME StructInv, NEW e \in Engines
  PROVE  /\ Failed(e) \in EngineStates
         /\ Failed(e).pc = "nak" /\ Failed(e).msg = engine[e].msg
         /\ Failed(e).run = Nobody /\ Failed(e).created = FALSE
BY EngineFacts, StatesWellTyped DEF Failed, EngineStates, Idle

\* An idle engine has neither a message nor a transaction.
LEMMA IdleFacts ==
  /\ Idle.pc = "idle" /\ Idle.msg = Nobody /\ Idle.run = Nobody
  /\ Idle.created = FALSE /\ Idle.sent = {} /\ Nobody \notin Resumes
BY NobodyAssumption DEF Idle, Messages

\* A message is an event or a resume signal, not both (the RunID test of handle).
LEMMA TriggersAreNotResumes ==
  /\ \A t \in Triggers : t \notin Resumes
  /\ \A r, n : \A ev : Resume(r, n) # Trigger(ev)
<1>1. \A t \in Triggers : t.kind = "trigger"
  BY DEF Triggers, Trigger
<1>2. \A t \in Resumes : t.kind = "resume"
  BY DEF Resumes, Resume
<1>3. \A r, n, ev : Resume(r, n).kind = "resume" /\ Trigger(ev).kind = "trigger"
  BY DEF Resume, Trigger
<1> QED BY <1>1, <1>2, <1>3

\* handle: ProcessEvent and Resume, up to the first step of the walk.
LEMMA StructHandle ==
  ASSUME StructInv, NEW e \in Engines, Handle(e)
  PROVE  StructInv'
<1>1. TypeOK /\ inbox \in [Engines -> SUBSET Messages] /\ runs \in [Runs -> RunRows]
      /\ faults' = faults /\ faults \in 0 .. MaxFaults
  BY DEF StructInv, TypeOK, Handle, StartRun, IgnoreEvent, ResumeRun, SkipResume
<1>2. ASSUME NEW m, Take(e, m)
      PROVE  /\ m \in inbox[e] /\ m \in Messages
             /\ inbox' \in [Engines -> SUBSET Messages]
             /\ \A f \in Engines : inbox'[f] \subseteq inbox[f]
             /\ m \in Resumes => runs[m.run].status # "absent"
  BY <1>1, <1>2 DEF Take, StructInv, ResumedRunsExist
<1>3. CASE \E ev \in Events, r \in Runs : StartRun(e, ev, r)
  <2> PICK ev \in Events, r \in Runs : StartRun(e, ev, r)
    BY <1>3
  <2> DEFINE new == [Idle EXCEPT !.pc = "walk", !.msg = Trigger(ev), !.run = r,
                       !.created = TRUE, !.version = workflow.version,
                       !.payload = PayloadOf[ev]]
  <2>1. /\ new \in EngineStates /\ new.pc = "walk" /\ new.msg = Trigger(ev)
        /\ new.run = r /\ new.created = TRUE
    BY StatesWellTyped, <1>1 DEF EngineStates, Idle, TypeOK, Statuses
  <2>2. Trigger(ev) \in Triggers /\ Trigger(ev) \notin Resumes
    BY TriggersAreNotResumes DEF Triggers
  <2>3. SetEngine(e, new) /\ runs[r].status = "absent"
        /\ (\A f \in Engines : engine[f].run # r) /\ Take(e, Trigger(ev))
    BY DEF StartRun
  <2>4. UNCHANGED <<stream, scheduler, tables, jobs, workflow, ghosts, faults, edits>>
    BY DEF StartRun
  <2> HIDE DEF new
  <2> QED BY <1>1, <1>2, <2>1, <2>2, <2>3, <2>4, StructStepOfEngine
             DEF TypeOK, tables, ghosts, Messages
<1>4. CASE \E ev \in Events : IgnoreEvent(e, ev)
  <2> PICK ev \in Events : IgnoreEvent(e, ev)
    BY <1>4
  <2> DEFINE new == [Idle EXCEPT !.pc = "commit", !.msg = Trigger(ev)]
  <2>1. /\ new \in EngineStates /\ new.pc = "commit" /\ new.msg = Trigger(ev)
        /\ new.run = Nobody /\ new.created = FALSE
    BY StatesWellTyped DEF EngineStates, Idle
  <2>2. Trigger(ev) \in Triggers /\ Trigger(ev) \notin Resumes
    BY TriggersAreNotResumes DEF Triggers
  <2>3. SetEngine(e, new) /\ Take(e, Trigger(ev))
    BY DEF IgnoreEvent
  <2>4. UNCHANGED <<stream, scheduler, tables, jobs, workflow, ghosts, faults, edits>>
    BY DEF IgnoreEvent
  <2> HIDE DEF new
  <2> QED BY <1>1, <1>2, <2>1, <2>2, <2>3, <2>4, StructStepOfEngine
             DEF TypeOK, tables, ghosts, Messages
<1>5. CASE \E m \in Resumes : ResumeRun(e, m)
  <2> PICK m \in Resumes : ResumeRun(e, m)
    BY <1>5
  <2> DEFINE new == [Idle EXCEPT !.pc = "walk", !.msg = m, !.run = m.run,
                       !.version = workflow.version, !.i = runs[m.run].index,
                       !.payload = PayloadOf[runs[m.run].event]]
  <2>1. m \in Messages /\ m.run \in Runs
    BY DEF Messages, Resumes, Resume
  <2>2. runs[m.run].index \in Nat /\ runs[m.run].event \in Events
        /\ runs[m.run].status = "running"
    BY <2>1 DEF ResumeRun, StructInv, RowsHaveEvents, TypeOK, RunRows
  <2>3. /\ new \in EngineStates /\ new.pc = "walk" /\ new.msg = m
        /\ new.run = m.run /\ new.created = FALSE
    BY StatesWellTyped, <1>1, <2>1, <2>2 DEF EngineStates, Idle, TypeOK
  <2>4. \A f \in Engines : engine[f].run = m.run => ~engine[f].created
    BY <2>2, EngineFacts
  <2>5. SetEngine(e, new) /\ Take(e, m)
    BY DEF ResumeRun
  <2>6. UNCHANGED <<stream, scheduler, tables, jobs, workflow, ghosts, faults, edits>>
    BY DEF ResumeRun
  <2> HIDE DEF new
  <2> QED BY <1>1, <1>2, <2>1, <2>2, <2>3, <2>4, <2>5, <2>6, StructStepOfEngine
             DEF TypeOK, tables, ghosts
<1>6. CASE \E m \in Resumes : SkipResume(e, m)
  <2> PICK m \in Resumes : SkipResume(e, m)
    BY <1>6
  <2> DEFINE new == [Idle EXCEPT !.pc = "commit", !.msg = m]
  <2>1. /\ new \in EngineStates /\ new.pc = "commit" /\ new.msg = m
        /\ new.run = Nobody /\ new.created = FALSE
    BY StatesWellTyped DEF EngineStates, Idle, Messages
  <2>2. SetEngine(e, new) /\ Take(e, m)
    BY DEF SkipResume
  <2>3. UNCHANGED <<stream, scheduler, tables, jobs, workflow, ghosts, faults, edits>>
    BY DEF SkipResume
  <2> HIDE DEF new
  <2> QED BY <1>1, <1>2, <2>1, <2>2, <2>3, StructStepOfEngine
             DEF TypeOK, tables, ghosts, Messages
<1> QED BY <1>3, <1>4, <1>5, <1>6 DEF Handle
\* The steps of a walk, and every way a transaction ends but the commit.
LEMMA StructWalk ==
  ASSUME StructInv, NEW e \in Engines,
         Dispatch(e) \/ SkipChannel(e) \/ Branch(e)
  PROVE  StructInv'
<1>1. TypeOK /\ faults \in 0 .. MaxFaults /\ jobs \subseteq Notifications
  BY DEF StructInv, TypeOK
<1>2. engine[e].pc = "walk" /\ engine[e].i < Len(StepList(e))
  BY DEF Dispatch, SkipChannel, Branch, AtStep
<1>3. CASE Dispatch(e)
  <2> DEFINE new == [Advanced(e) EXCEPT !.sent = @ \cup {NewNotification(e)}]
  <2>1. NewNotification(e) \in Notifications
    BY <1>2, <1>3, NewNotificationType DEF Dispatch
  <2>2. /\ new \in EngineStates /\ new.pc = "walk" /\ new.msg = engine[e].msg
        /\ new.run = engine[e].run /\ new.created = engine[e].created
    <3> HIDE DEF NewNotification
    <3> QED BY <1>2, <2>1, AdvancedType DEF EngineStates
  <2>3. SetEngine(e, new) /\ jobs' \subseteq Notifications
    BY <1>1, <1>3, <2>1 DEF Dispatch
  <2>4. UNCHANGED <<stream, inbox, scheduler, tables, workflow, ghosts, faults, edits>>
    BY <1>3 DEF Dispatch
  <2> HIDE DEF new
  <2> QED BY <1>1, <1>2, <2>2, <2>3, <2>4, EngineFacts, StructStepOfEngine
             DEF TypeOK, tables, ghosts
<1>4. CASE SkipChannel(e) \/ Branch(e)
  <2>1. SetEngine(e, Advanced(e))
    BY <1>4 DEF SkipChannel, Branch
  <2>2. UNCHANGED <<stream, inbox, scheduler, tables, jobs, workflow, ghosts, faults,
                    edits>>
    BY <1>4 DEF SkipChannel, Branch
  <2> QED BY <1>1, <1>2, <2>1, <2>2, AdvancedType, EngineFacts, StructStepOfEngine
             DEF TypeOK, tables, ghosts
<1> QED BY <1>3, <1>4

\* The write at the end of a walk (delay, completed, failRun).
LEMMA StructWrite ==
  ASSUME StructInv, NEW e \in Engines, Pause(e) \/ Complete(e) \/ Fail(e)
  PROVE  StructInv'
<1>1. PICK write \in Writes \ {"nothing"}, index \in Nat :
        engine[e].pc = "walk" /\ WriteRun(e, write, index)
  <2>1. engine[e] \in EngineStates
    BY EngineFacts
  <2>2. StepsOf[engine[e].version] \in Seq([id : STRING, type : StepTypes,
             next : STRING, cond : STRING, onTrue : STRING, onFalse : STRING])
    BY <2>1, WorkflowAssumption DEF EngineStates
  <2>3. Len(StepList(e)) \in Nat /\ engine[e].i \in Nat
    BY <2>1, <2>2 DEF StepList, EngineStates
  <2>4. Pause(e) => NextOf(e) \in Nat
    BY <2>1, NextIsIndex DEF Pause, AtStep, NextOf, StepList, EngineStates
  <2> QED BY <2>3, <2>4 DEF Pause, Complete, Fail, AtStep, Writes
<1> DEFINE new == [engine[e] EXCEPT !.pc = "commit", !.write = write, !.i = index]
<1>2. /\ new \in EngineStates /\ new.pc = "commit" /\ new.msg = engine[e].msg
      /\ new.run = engine[e].run /\ new.created = engine[e].created
      /\ new.write = write
  <2> DEFINE x == [engine[e] EXCEPT !.pc = "commit"]
             y == [x EXCEPT !.write = write]
  <2>1. /\ x \in EngineStates /\ x.pc = "commit" /\ x.msg = engine[e].msg
        /\ x.run = engine[e].run /\ x.created = engine[e].created
    BY EngineFacts DEF EngineStates
  <2> HIDE DEF x
  <2>2. /\ y \in EngineStates /\ y.pc = "commit" /\ y.msg = engine[e].msg
        /\ y.run = engine[e].run /\ y.created = engine[e].created /\ y.write = write
    BY <2>1 DEF EngineStates
  <2>3. new = [y EXCEPT !.i = index]
    BY EngineFacts DEF EngineStates, x
  <2> HIDE DEF y, new
  <2> QED BY <2>2, <2>3 DEF EngineStates
<1>3. SetEngine(e, new)
      /\ lockedBy' \in [Runs -> Engines \cup Schedulers \cup {Nobody}]
  BY <1>1 DEF WriteRun, StructInv, TypeOK
<1>4. UNCHANGED <<stream, inbox, scheduler, runs, notifications, jobs, workflow,
                  ghosts, faults, edits>>
  BY <1>1 DEF WriteRun
<1>5. TypeOK /\ inbox \in [Engines -> SUBSET Messages] /\ jobs \subseteq Notifications
      /\ faults \in 0 .. MaxFaults
  BY DEF StructInv, TypeOK
<1> HIDE DEF new
<1> QED BY <1>1, <1>2, <1>3, <1>4, <1>5, EngineFacts, StructStepOfEngine DEF ghosts

\* Rollback, Ack, Nak and crash change no row.
LEMMA StructReply ==
  ASSUME StructInv, NEW e \in Engines,
         Ack(e) \/ Nak(e) \/ Crash(e) \/ RollBack(e) \/ DispatchFails(e)
  PROVE  StructInv'
<1>1. /\ TypeOK /\ inbox \in [Engines -> SUBSET Messages]
      /\ faults \in 0 .. MaxFaults /\ jobs \subseteq Notifications
      /\ lockedBy \in [Runs -> Engines \cup Schedulers \cup {Nobody}]
      /\ Unlock(e) \in [Runs -> Engines \cup Schedulers \cup {Nobody}]
  BY UnlockType DEF StructInv, TypeOK
<1>2. Fault => faults' \in 0 .. MaxFaults
  BY <1>1, BoundsAssumption DEF Fault
<1>3. CASE Ack(e) \/ Nak(e)
  <2>1. SetEngine(e, Idle) /\ stream' \subseteq stream
    BY <1>3 DEF Ack, Nak
  <2>2. UNCHANGED <<inbox, scheduler, tables, jobs, workflow, ghosts, faults, edits>>
    BY <1>3 DEF Ack, Nak
  <2> QED BY <1>1, <2>1, <2>2, IdleFacts, StatesWellTyped, StructStepOfEngine
             DEF tables, ghosts
<1>4. CASE Crash(e)
  <2>1. /\ inbox' \in [Engines -> SUBSET Messages]
        /\ \A f \in Engines : inbox'[f] \subseteq inbox[f]
    BY <1>1, <1>4 DEF Crash
  <2>2. SetEngine(e, Idle) /\ lockedBy' = Unlock(e) /\ Fault
    BY <1>4 DEF Crash
  <2>3. UNCHANGED <<stream, scheduler, runs, notifications, jobs, workflow, ghosts, edits>>
    BY <1>4 DEF Crash
  <2> QED BY <1>1, <1>2, <2>1, <2>2, <2>3, IdleFacts, StatesWellTyped,
             StructStepOfEngine DEF ghosts
<1>5. CASE RollBack(e) \/ DispatchFails(e)
  <2>1. jobs' \subseteq Notifications
    <3>1. CASE RollBack(e)
      BY <1>1, <3>1 DEF RollBack
    <3>2. CASE DispatchFails(e)
      BY <1>1, <3>2, NewNotificationType DEF DispatchFails, AtStep
    <3> QED BY <1>5, <3>1, <3>2
  <2>2. SetEngine(e, Failed(e)) /\ lockedBy' = Unlock(e) /\ Fault
        /\ engine[e].pc # "idle"
    BY <1>5 DEF RollBack, DispatchFails, AtStep
  <2>3. UNCHANGED <<stream, inbox, scheduler, runs, notifications, workflow, ghosts, edits>>
    BY <1>5 DEF RollBack, DispatchFails
  <2> QED BY <1>1, <1>2, <2>1, <2>2, <2>3, FailedType, EngineFacts,
             StructStepOfEngine DEF ghosts
<1> QED BY <1>3, <1>4, <1>5

\* What a commit of e makes of the rows: it writes the row of its own run.
LEMMA CommittedRows ==
  ASSUME StructInv, NEW e \in Engines, NEW pc \in {"ack", "nak"}, CommitTo(e, pc)
  PROVE  /\ runs' \in [Runs -> RunRows]
         /\ \A r \in Runs : r # engine[e].run => runs'[r] = runs[r]
         /\ \A r \in Runs : r = engine[e].run =>
              /\ runs'[r] = Written(e)
              /\ runs'[r].status \in {"completed", "failed"}
                 \/ /\ engine[e].write = "pause" /\ runs'[r].resume = "later"
                    /\ ~engine[e].created => runs'[r].status = runs[r].status
              /\ runs'[r].status # "absent"
              /\ runs'[r].event = IF engine[e].created THEN engine[e].msg.event
                                  ELSE runs[r].event
              /\ runs'[r].event \in Events
<1>1. runs \in [Runs -> RunRows] /\ engine[e] \in EngineStates
  BY DEF StructInv, TypeOK
<1>2. CASE engine[e].run = Nobody
  <2>1. runs' = runs
    BY <1>2 DEF CommitTo
  <2> QED BY <1>1, <1>2, <2>1, NobodyAssumption
<1>3. CASE engine[e].run # Nobody
  <2> DEFINE r == engine[e].run
             row == IF engine[e].created THEN NewRow(engine[e].msg.event) ELSE runs[r]
  <2>1. r \in Runs /\ runs' = [runs EXCEPT ![r] = Written(e)]
    BY <1>1, <1>3 DEF CommitTo, EngineStates
  <2>2. row \in RunRows /\ row.status # "absent" /\ row.event \in Events
        /\ row.event = IF engine[e].created THEN engine[e].msg.event ELSE runs[r].event
    <3>1. CASE engine[e].created
      <4>1. engine[e].msg.event \in Events
        BY <1>3, <3>1, EngineFacts DEF Triggers, Trigger
      <4> QED BY <3>1, <4>1, StatesWellTyped DEF NewRow, NoRow
    <3>2. CASE ~engine[e].created
      BY <1>1, <1>3, <2>1, <3>2, EngineFacts DEF StructInv, RowsHaveEvents
    <3> QED BY <3>1, <3>2
  <2>3. engine[e].write \in {"pause", "complete", "fail"} /\ engine[e].i \in Nat
    BY <1>1, <1>3 DEF StructInv, EnginesFitTheirMessages, EngineStates, Writes, CommitTo
  <2>4. /\ Written(e) \in RunRows /\ Written(e).event = row.event
        /\ \/ Written(e).status \in {"completed", "failed"}
           \/ /\ engine[e].write = "pause" /\ Written(e).resume = "later"
              /\ Written(e).status = row.status
    <3>1. Written(e) = CASE engine[e].write = "pause" ->
                              [row EXCEPT !.resume = "later", !.index = engine[e].i]
                         [] engine[e].write = "complete" ->
                              [row EXCEPT !.status = "completed", !.index = engine[e].i]
                         [] OTHER -> [row EXCEPT !.status = "failed"]
      BY DEF Written
    <3> HIDE DEF row
    <3> QED BY <2>2, <2>3, <3>1 DEF RunRows, Statuses, ResumeTimes
  <2>5. ~engine[e].created => row = runs[r]
    OBVIOUS
  <2> HIDE DEF row
  <2> QED BY <1>1, <2>1, <2>2, <2>4, <2>5
<1> QED BY <1>2, <1>3

\* The commit of an engine's transaction.
LEMMA StructCommit ==
  ASSUME StructInv, NEW e \in Engines, NEW pc \in {"ack", "nak"}, CommitTo(e, pc),
         faults' \in 0 .. MaxFaults
  PROVE  StructInv'
<1> DEFINE new == [Idle EXCEPT !.pc = pc, !.msg = engine[e].msg]
<1>1. /\ new \in EngineStates /\ new.pc = pc /\ new.msg = engine[e].msg
      /\ new.run = Nobody /\ new.created = FALSE
  BY StatesWellTyped, EngineFacts DEF EngineStates, Idle
<1>2. /\ engine' \in [Engines -> EngineStates] /\ engine'[e] = new
      /\ \A f \in Engines : f # e => engine'[f] = engine[f]
  BY <1>1 DEF CommitTo, SetEngine, StructInv, TypeOK
<1>3. engine[e].msg \in Messages /\ engine[e].pc = "commit"
  BY EngineFacts DEF CommitTo
<1>4. UNCHANGED <<stream, inbox, scheduler, jobs, workflow, accepted, lost, edits>>
  BY DEF CommitTo
<1> HIDE DEF new
<1>5. TypeOK'
  <2>1. lockedBy' \in [Runs -> Engines \cup Schedulers \cup {Nobody}]
    BY UnlockType DEF CommitTo, StructInv
  <2>2. notifications' \subseteq Notifications
    BY EngineFacts DEF CommitTo, StructInv, TypeOK, EngineStates
  <2>3. unmatched' \subseteq Events
    <3>1. engine[e].msg \in Triggers => engine[e].msg.event \in Events
      BY DEF Triggers, Trigger
    <3> QED BY <3>1 DEF CommitTo, StructInv, TypeOK
  <2> QED BY <1>2, <1>4, <2>1, <2>2, <2>3, CommittedRows DEF StructInv, TypeOK
<1>6. RowsHaveEvents'
  BY CommittedRows DEF StructInv, RowsHaveEvents
<1>7. EnginesFitTheirMessages'
  BY <1>1, <1>2, <1>3 DEF StructInv, EnginesFitTheirMessages
<1>8. \A r \in Runs : runs[r].status # "absent" => runs'[r].status # "absent"
  BY CommittedRows
<1>9. \A m \in Resumes : m.run \in Runs
  BY DEF Resumes, Resume
<1>10. ResumedRunsExist'
  <2>1. ASSUME NEW m \in Resumes,
               m \in stream' \/ \E f \in Engines : m \in inbox'[f] \/ engine'[f].msg = m
        PROVE  runs'[m.run].status # "absent"
    BY <1>1, <1>2, <1>4, <1>8, <1>9, <2>1 DEF StructInv, ResumedRunsExist
  <2>2. ASSUME NEW s \in Schedulers
        PROVE  /\ \A r \in scheduler'[s].due \cup scheduler'[s].cleared :
                    runs'[r].status # "absent"
               /\ scheduler'[s].clearing \in scheduler'[s].cleared \cup {Nobody}
    BY <1>4, <1>8 DEF StructInv, ResumedRunsExist, TypeOK, SchedulerStates
  <2>3. ASSUME NEW f \in Engines, engine'[f].created
        PROVE  /\ runs'[engine'[f].run].status = "absent"
               /\ \A g \in Engines : g # f => engine'[g].run # engine'[f].run
    <3>1. f # e /\ engine'[f] = engine[f] /\ engine[f].run \in Runs
          /\ engine[f].run # engine[e].run /\ runs[engine[f].run].status = "absent"
      BY <1>1, <1>2, <2>3, EngineFacts
    <3> QED BY <1>1, <1>2, <3>1, CommittedRows, EngineFacts, NobodyAssumption
  <2> QED BY <2>1, <2>2, <2>3 DEF ResumedRunsExist
<1> QED BY <1>5, <1>6, <1>7, <1>10 DEF StructInv
\* The steps of the API, the operators, the clock and the stream.
LEMMA StructOutside ==
  ASSUME StructInv,
         \/ \E ev \in Events : AcceptEvent(ev)
         \/ \E v \in Versions : UpdateWorkflow(v)
         \/ SwitchWorkflow
         \/ \E r \in Runs : Elapse(r)
         \/ \E e \in Engines, m \in Messages : Deliver(e, m) \/ Redeliver(e, m)
  PROVE  StructInv'
<1> USE DEF StructInv
<1>1. CASE \E ev \in Events : AcceptEvent(ev)
  <2> PICK ev \in Events : AcceptEvent(ev)
    BY <1>1
  <2>1. UNCHANGED <<inbox, engine, scheduler, runs, lockedBy, notifications, jobs,
                    workflow, unmatched, lost, faults, edits>>
    BY DEF AcceptEvent, tables
  <2>2. TypeOK'
    BY <2>1, StatesWellTyped DEF AcceptEvent, TypeOK
  <2>3. \A m \in Resumes : m \in stream' => m \in stream
    BY TriggersAreNotResumes DEF AcceptEvent, Triggers
  <2>4. ResumedRunsExist'
    BY <2>1, <2>3 DEF ResumedRunsExist
  <2> QED BY <2>1, <2>2, <2>4 DEF RowsHaveEvents, EnginesFitTheirMessages
<1>2. CASE SwitchWorkflow \/ \E v \in Versions : UpdateWorkflow(v)
  <2>1. UNCHANGED <<stream, inbox, engine, scheduler, runs, lockedBy, notifications,
                    jobs, accepted, unmatched, lost, faults>>
    BY <1>2 DEF SwitchWorkflow, UpdateWorkflow, tables, ghosts
  <2>2. workflow' \in [version : Versions, active : BOOLEAN] /\ edits' \in 0 .. MaxEdits
    <3>1. Edit => edits' \in 0 .. MaxEdits
      BY BoundsAssumption DEF Edit, TypeOK
    <3>2. CASE SwitchWorkflow
      BY <3>1, <3>2 DEF SwitchWorkflow, TypeOK
    <3>3. CASE \E v \in Versions : UpdateWorkflow(v)
      BY <3>1, <3>3 DEF UpdateWorkflow, TypeOK
    <3> QED BY <1>2, <3>2, <3>3
  <2>3. TypeOK'
    BY <2>1, <2>2 DEF TypeOK
  <2> QED BY <2>1, <2>3 DEF RowsHaveEvents, EnginesFitTheirMessages, ResumedRunsExist
<1>3. CASE \E r \in Runs : Elapse(r)
  <2> PICK r \in Runs : Elapse(r)
    BY <1>3
  <2>1. UNCHANGED <<stream, inbox, engine, scheduler, lockedBy, notifications, jobs,
                    workflow, accepted, unmatched, lost, faults, edits>>
    BY DEF Elapse, ghosts
  <2>2. /\ runs' \in [Runs -> RunRows]
        /\ \A q \in Runs : /\ runs'[q].status = runs[q].status
                           /\ runs'[q].event = runs[q].event
        /\ \A q \in Runs : q # r => runs'[q] = runs[q]
        /\ runs[r].status # "absent"
    <3>1. runs' = [runs EXCEPT ![r].resume = "due"] /\ runs[r].resume = "later"
      BY DEF Elapse
    <3>2. runs[r] \in RunRows /\ [runs[r] EXCEPT !.resume = "due"] \in RunRows
      BY DEF TypeOK, RunRows, ResumeTimes
    <3>3. runs[r].status # "absent"
      BY <3>1 DEF RowsHaveEvents, NoRow
    <3> QED BY <3>1, <3>2, <3>3 DEF TypeOK, RunRows
  <2>3. TypeOK'
    BY <2>1, <2>2 DEF TypeOK
  <2>4. RowsHaveEvents'
    BY <2>2 DEF RowsHaveEvents
  <2>5. EnginesFitTheirMessages'
    BY <2>1 DEF EnginesFitTheirMessages
  <2>6. ResumedRunsExist'
    <3>1. \A m \in Resumes : m.run \in Runs
      BY DEF Resumes, Resume
    <3>2. \A s \in Schedulers : /\ scheduler[s].due \subseteq Runs
                                /\ scheduler[s].cleared \subseteq Runs
      BY DEF TypeOK, SchedulerStates
    <3>3. \A e \in Engines : engine[e].created => engine[e].run \in Runs
      BY EngineFacts
    <3> QED BY <2>1, <2>2, <3>1, <3>2, <3>3 DEF ResumedRunsExist
  <2> QED BY <2>3, <2>4, <2>5, <2>6
<1>4. CASE \E e \in Engines, m \in Messages : Deliver(e, m) \/ Redeliver(e, m)
  <2> PICK e \in Engines, m \in Messages : Deliver(e, m) \/ Redeliver(e, m)
    BY <1>4
  <2>1. UNCHANGED <<stream, engine, scheduler, runs, lockedBy, notifications, jobs,
                    workflow, accepted, unmatched, lost, edits>>
        /\ m \in stream /\ inbox' = [inbox EXCEPT ![e] = @ \cup {m}]
    BY DEF Deliver, Redeliver, tables, ghosts
  <2>2. faults' \in 0 .. MaxFaults
    BY BoundsAssumption DEF Deliver, Redeliver, Fault, TypeOK
  <2>3. TypeOK'
    BY <2>1, <2>2 DEF TypeOK
  <2>4. \A f \in Engines : \A n : n \in inbox'[f] => n \in inbox[f] \/ n \in stream
    BY <2>1 DEF TypeOK
  <2>5. ResumedRunsExist'
    BY <2>1, <2>4 DEF ResumedRunsExist
  <2> QED BY <2>1, <2>3, <2>5 DEF RowsHaveEvents, EnginesFitTheirMessages
<1> QED BY <1>1, <1>2, <1>3, <1>4

\* A scheduler's step that leaves the rows alone: its new state is enough.
LEMMA StructStepOfScheduler ==
  ASSUME StructInv, NEW s \in Schedulers, NEW new \in SchedulerStates,
         SetScheduler(s, new),
         \A r \in new.due \cup new.cleared : runs[r].status # "absent",
         new.clearing \in new.cleared \cup {Nobody},
         stream' \subseteq Messages,
         \A m \in Resumes : m \in stream' => m \in stream \/ runs[m.run].status # "absent",
         UNCHANGED <<inbox, engine, runs>>,
         lockedBy' \in [Runs -> Engines \cup Schedulers \cup {Nobody}],
         UNCHANGED <<notifications, jobs, workflow, ghosts, edits>>,
         faults' \in 0 .. MaxFaults
  PROVE  StructInv'
<1> USE DEF StructInv
<1>1. /\ scheduler' \in [Schedulers -> SchedulerStates] /\ scheduler'[s] = new
      /\ \A t \in Schedulers : t # s => scheduler'[t] = scheduler[t]
  BY DEF TypeOK, SetScheduler
<1>2. TypeOK'
  BY <1>1 DEF TypeOK, ghosts
<1>3. ResumedRunsExist'
  BY <1>1 DEF ResumedRunsExist
<1> QED BY <1>2, <1>3 DEF RowsHaveEvents, EnginesFitTheirMessages
\* Every step of a tick.
LEMMA StructScheduler ==
  ASSUME StructInv, NEW s \in Schedulers, Tick(s) \/ SchedulerFault(s)
  PROVE  StructInv'
<1> DEFINE old == scheduler[s]
<1>1. /\ TypeOK /\ old \in SchedulerStates /\ stream \subseteq Messages
      /\ faults \in 0 .. MaxFaults
      /\ lockedBy \in [Runs -> Engines \cup Schedulers \cup {Nobody}]
      /\ Unlock(s) \in [Runs -> Engines \cup Schedulers \cup {Nobody}]
  BY UnlockType DEF StructInv, TypeOK
<1>2. /\ \A r \in old.due \cup old.cleared : runs[r].status # "absent"
      /\ old.clearing \in old.cleared \cup {Nobody}
      /\ old.due \subseteq Runs /\ old.cleared \subseteq Runs /\ old.refused \subseteq Runs
  BY <1>1 DEF StructInv, ResumedRunsExist, SchedulerStates
<1>3. Fault => faults' \in 0 .. MaxFaults
  BY <1>1, BoundsAssumption DEF Fault
<1>4. /\ Asleep \in SchedulerStates /\ Asleep.due = {} /\ Asleep.cleared = {}
      /\ Asleep.clearing = Nobody
  BY StatesWellTyped DEF Asleep
<1>5. CASE Scan(s)
  <2> PICK due \in SUBSET DueRuns :
             SetScheduler(s, [Asleep EXCEPT !.open = TRUE, !.due = due])
    BY <1>5 DEF Scan
  <2> DEFINE new == [Asleep EXCEPT !.open = TRUE, !.due = due]
  <2>1. /\ new \in SchedulerStates /\ new.due = due /\ new.cleared = {}
        /\ new.clearing = Nobody
    BY DEF Asleep, SchedulerStates, DueRuns
  <2>2. \A r \in due : runs[r].status # "absent"
    BY DEF DueRuns
  <2>3. UNCHANGED <<stream, inbox, engine, tables, jobs, workflow, ghosts, faults, edits>>
    BY <1>5 DEF Scan
  <2> HIDE DEF new
  <2> QED BY <1>1, <2>1, <2>2, <2>3, StructStepOfScheduler DEF tables, new
<1>6. CASE \E r \in Runs : Clear(s, r)
  <2> PICK r \in Runs : Clear(s, r)
    BY <1>6
  <2> DEFINE new == [scheduler[s] EXCEPT !.due = @ \ {r}, !.clearing = r,
                       !.cleared = @ \cup {r}]
  <2> DEFINE x == [old EXCEPT !.due = @ \ {r}]
               y == [x EXCEPT !.clearing = r]
  <2>10. /\ x \in SchedulerStates /\ x.due = old.due \ {r} /\ x.cleared = old.cleared
    BY <1>1, <1>2 DEF SchedulerStates
  <2> HIDE DEF x
  <2>11. /\ y \in SchedulerStates /\ y.due = old.due \ {r} /\ y.cleared = old.cleared
        /\ y.clearing = r
    BY <2>10 DEF SchedulerStates
  <2>12. new = [y EXCEPT !.cleared = @ \cup {r}]
    BY <1>1 DEF SchedulerStates, x
  <2> HIDE DEF y, new
  <2>2. /\ new \in SchedulerStates /\ new.due = old.due \ {r}
        /\ new.cleared = old.cleared \cup {r} /\ new.clearing = r
    BY <2>11, <2>12, <1>2 DEF SchedulerStates
  <2> USE DEF new
  <2>3. SetScheduler(s, new) /\ r \in old.due
        /\ lockedBy' = [lockedBy EXCEPT ![r] = s]
    BY DEF Clear
  <2>4. UNCHANGED <<stream, inbox, engine, runs, notifications, jobs, workflow, ghosts,
                    faults, edits>>
    BY DEF Clear
  <2> HIDE DEF new
  <2> QED BY <1>1, <1>2, <2>2, <2>3, <2>4, StructStepOfScheduler
<1>7. CASE Publish(s)
  <2> DEFINE new == [scheduler[s] EXCEPT !.clearing = Nobody]
  <2>1. /\ new \in SchedulerStates /\ new.due = old.due
        /\ new.cleared = old.cleared /\ new.clearing = Nobody
    BY <1>1 DEF SchedulerStates
  <2>2. PICK n \in 1 .. Copies : stream' = stream \cup {Resume(old.clearing, n)}
    BY <1>7 DEF Publish
  <2>3. old.clearing \in old.cleared /\ old.clearing \in Runs
    BY <1>2, <1>7 DEF Publish
  <2>4. Resume(old.clearing, n) \in Messages /\ Resume(old.clearing, n).run = old.clearing
    BY <2>3 DEF Messages, Resumes, Resume
  <2>5. SetScheduler(s, new)
        /\ UNCHANGED <<inbox, engine, tables, jobs, workflow, ghosts, faults, edits>>
    BY <1>7 DEF Publish
  <2> HIDE DEF new
  <2> QED BY <1>1, <1>2, <2>1, <2>2, <2>3, <2>4, <2>5, StructStepOfScheduler DEF tables
<1>8. CASE PublishFails(s)
  <2> DEFINE new == [scheduler[s] EXCEPT !.clearing = Nobody,
                       !.refused = @ \cup {old.clearing}]
  <2> DEFINE x == [old EXCEPT !.clearing = Nobody]
  <2>1. x \in SchedulerStates /\ x.due = old.due /\ x.cleared = old.cleared
        /\ x.clearing = Nobody
    BY <1>1 DEF SchedulerStates
  <2>2. new = [x EXCEPT !.refused = @ \cup {old.clearing}] /\ old.clearing \in Runs
    BY <1>1, <1>2, <1>8 DEF PublishFails, SchedulerStates
  <2> HIDE DEF x, new
  <2>3. /\ new \in SchedulerStates /\ new.due = old.due
        /\ new.cleared = old.cleared /\ new.clearing = Nobody
    BY <2>1, <2>2 DEF SchedulerStates
  <2> USE DEF new
  <2>4. SetScheduler(s, new) /\ Fault
        /\ UNCHANGED <<stream, inbox, engine, tables, jobs, workflow, ghosts, edits>>
    BY <1>8 DEF PublishFails
  <2> HIDE DEF new
  <2> QED BY <1>1, <1>2, <1>3, <2>3, <2>4, StructStepOfScheduler DEF tables
<1>9. CASE AbortTick(s)
  <2>1. SetScheduler(s, Asleep) /\ Fault /\ lockedBy' = Unlock(s)
        /\ UNCHANGED <<stream, inbox, engine, runs, notifications, jobs, workflow,
                       ghosts, edits>>
    BY <1>9 DEF AbortTick
  <2> QED BY <1>1, <1>3, <1>4, <2>1, StructStepOfScheduler
<1>10. CASE CommitTick(s)
  <2>1. /\ scheduler' = [scheduler EXCEPT ![s] = Asleep]
        /\ lockedBy' = Unlock(s) /\ lost' = lost \cup old.refused
        /\ UNCHANGED <<stream, inbox, engine, notifications, jobs, workflow, accepted,
                       unmatched, faults, edits>>
    BY <1>10 DEF CommitTick, SetScheduler
  <2>2. /\ runs' \in [Runs -> RunRows]
        /\ \A r \in Runs : /\ runs'[r].status = runs[r].status
                           /\ runs'[r].event = runs[r].event
        /\ \A r \in Runs : runs[r].status = "absent" => runs'[r] = runs[r]
    <3>1. \A r \in Runs : /\ runs[r] \in RunRows
                          /\ [runs[r] EXCEPT !.resume = "none"] \in RunRows
      BY <1>1 DEF TypeOK, RunRows, ResumeTimes
    <3>2. runs' = [r \in Runs |-> IF r \in old.cleared
                               THEN [runs[r] EXCEPT !.resume = "none"] ELSE runs[r]]
      BY <1>10 DEF CommitTick
    <3> QED BY <1>2, <3>1, <3>2 DEF RunRows
  <2>3. TypeOK'
    BY <1>1, <1>2, <1>4, <2>1, <2>2 DEF TypeOK
  <2>4. RowsHaveEvents'
    BY <2>2 DEF StructInv, RowsHaveEvents
  <2>5. EnginesFitTheirMessages'
    BY <2>1 DEF StructInv, EnginesFitTheirMessages
  <2>6. ResumedRunsExist'
    <3>1. \A m \in Resumes : m.run \in Runs
      BY DEF Resumes, Resume
    <3>2. \A t \in Schedulers :
            /\ scheduler'[t].due \subseteq scheduler[t].due
            /\ scheduler'[t].cleared \subseteq scheduler[t].cleared
            /\ scheduler'[t].clearing \in scheduler'[t].cleared \cup {Nobody}
            /\ scheduler[t].due \subseteq Runs /\ scheduler[t].cleared \subseteq Runs
      BY <1>1, <1>4, <2>1 DEF TypeOK, SchedulerStates, StructInv, ResumedRunsExist
    <3>3. \A e \in Engines : engine[e].created => engine[e].run \in Runs
      BY EngineFacts
    <3> QED BY <2>1, <2>2, <3>1, <3>2, <3>3 DEF StructInv, ResumedRunsExist
  <2> QED BY <2>3, <2>4, <2>5, <2>6 DEF StructInv
<1> QED BY <1>5, <1>6, <1>7, <1>8, <1>9, <1>10 DEF Tick, SchedulerFault

\* StructInv is inductive.
LEMMA StructNext == StructInv /\ [Next]_vars => StructInv'
<1> SUFFICES ASSUME StructInv, [Next]_vars PROVE StructInv'
  OBVIOUS
<1>1. CASE \E e \in Engines : Handle(e) \/ Work(e) \/ EngineFault(e)
  <2> PICK e \in Engines : Handle(e) \/ Work(e) \/ EngineFault(e)
    BY <1>1
  <2>1. faults \in 0 .. MaxFaults /\ (Fault => faults' \in 0 .. MaxFaults)
    BY BoundsAssumption DEF StructInv, TypeOK, Fault
  <2>2. CASE Commit(e)
    BY <2>1, <2>2, StructCommit DEF Commit
  <2>3. CASE CommitUnknown(e)
    BY <2>1, <2>3, StructCommit DEF CommitUnknown
  <2> QED BY <2>2, <2>3, StructHandle, StructWalk, StructWrite, StructReply
             DEF Work, EngineFault
<1>2. CASE \E s \in Schedulers : Tick(s) \/ SchedulerFault(s)
  BY <1>2, StructScheduler
<1>3. CASE UNCHANGED vars
  BY <1>3 DEF vars, tables, ghosts, StructInv, TypeOK, RowsHaveEvents,
              EnginesFitTheirMessages, ResumedRunsExist
<1> QED BY <1>1, <1>2, <1>3, StructOutside DEF Next

\* Runs, messages and transactions fit together at all times.
LEMMA StructInvariant == Spec => []StructInv
<1>1. Init => StructInv
  BY StructInit
<1>2. StructInv /\ [Next]_vars => StructInv'
  BY StructNext
<1> QED BY <1>1, <1>2, PTL DEF Spec

\* Type correctness: the tables, the stream and the transaction of every
\* process stay what they are declared to be.
THEOREM TypeCorrect == Spec => []TypeOK
<1>1. StructInv => TypeOK
  BY DEF StructInv
<1> QED BY <1>1, StructInvariant, PTL

-----------------------------------------------------------------------------
(* Row locks.                                                                 *)

\* A row that was updated stays locked until the transaction ends (RunInTenant).
LEMMA LocksNext ==
  ASSUME StructInv, UpdatesAreLocked, [Next]_vars
  PROVE  UpdatesAreLocked'
<1> USE DEF UpdatesAreLocked
<1>1. /\ engine \in [Engines -> EngineStates] /\ scheduler \in [Schedulers -> SchedulerStates]
      /\ lockedBy \in [Runs -> Engines \cup Schedulers \cup {Nobody}]
      /\ \A s \in Schedulers : scheduler[s].cleared \subseteq Runs
      /\ \A e \in Engines : engine[e].run \in Runs \cup {Nobody}
  BY DEF StructInv, TypeOK, EngineStates, SchedulerStates
<1>2. Engines \cap Schedulers = {} /\ Nobody \notin Engines \cup Schedulers
  BY ActorsAssumption
\* Most steps of an engine leave the locks alone or give its own back, and
\* leave it without an UPDATE to commit.
<1> DEFINE Harmless(e) ==
      /\ scheduler' = scheduler
      /\ \A f \in Engines : f # e => engine'[f] = engine[f]
      /\ engine'[e].pc # "commit" \/ engine'[e].run = Nobody
      /\ lockedBy' = lockedBy \/ lockedBy' = Unlock(e)
<1>3. ASSUME NEW e \in Engines, Harmless(e) PROVE UpdatesAreLocked'
  <2>1. \A r \in Runs : lockedBy[r] # e => lockedBy'[r] = lockedBy[r]
    BY <1>3 DEF Unlock
  <2> QED BY <1>1, <1>2, <1>3, <2>1
<1>4. CASE \E e \in Engines : Handle(e) \/ Dispatch(e) \/ SkipChannel(e) \/ Branch(e)
                               \/ Ack(e) \/ Nak(e) \/ EngineFault(e) \/ Commit(e)
  <2> PICK e \in Engines : Handle(e) \/ Dispatch(e) \/ SkipChannel(e) \/ Branch(e)
                           \/ Ack(e) \/ Nak(e) \/ EngineFault(e) \/ Commit(e)
    BY <1>4
  <2> USE <1>1 DEF SetEngine, tables
  <2>1. ASSUME NEW ev \in Events, NEW r \in Runs, StartRun(e, ev, r) PROVE Harmless(e)
    BY <2>1 DEF StartRun, Idle
  <2>2. ASSUME NEW ev \in Events, IgnoreEvent(e, ev) PROVE Harmless(e)
    BY <2>2 DEF IgnoreEvent, Idle
  <2>3. ASSUME NEW m \in Resumes, ResumeRun(e, m) PROVE Harmless(e)
    BY <2>3 DEF ResumeRun, Idle
  <2>4. ASSUME NEW m \in Resumes, SkipResume(e, m) PROVE Harmless(e)
    BY <2>4 DEF SkipResume, Idle
  <2>5. ASSUME SkipChannel(e) \/ Branch(e) PROVE Harmless(e)
    BY <2>5, AdvancedType DEF SkipChannel, Branch, AtStep
  <2>6. ASSUME Dispatch(e) PROVE Harmless(e)
    BY <2>6, AdvancedType DEF Dispatch, AtStep, EngineStates
  <2>7. ASSUME Ack(e) \/ Nak(e) \/ Crash(e) PROVE Harmless(e)
    BY <2>7, IdleFacts DEF Ack, Nak, Crash
  <2>8. ASSUME RollBack(e) \/ DispatchFails(e) PROVE Harmless(e)
    BY <2>8, FailedType DEF RollBack, DispatchFails
  <2>9. ASSUME Commit(e) \/ CommitUnknown(e) PROVE Harmless(e)
    BY <2>9 DEF Commit, CommitUnknown, CommitTo, Idle
  <2>10. Harmless(e)
    BY <2>1, <2>2, <2>3, <2>4, <2>5, <2>6, <2>7, <2>8, <2>9 DEF Handle, EngineFault
  <2> QED BY <1>3, <2>10
<1>5. CASE \E e \in Engines : Pause(e) \/ Complete(e) \/ Fail(e)
  <2> PICK e \in Engines : Pause(e) \/ Complete(e) \/ Fail(e)
    BY <1>5
  <2>1. PICK write, index : WriteRun(e, write, index) /\ engine[e].pc = "walk"
    BY DEF Pause, Complete, Fail, AtStep
  <2>2. /\ engine'[e].run = engine[e].run
        /\ \A f \in Engines : f # e => engine'[f] = engine[f]
    BY <1>1, <2>1 DEF WriteRun, SetEngine, EngineStates
  <2>3. /\ engine[e].run \in Runs
        /\ lockedBy[engine[e].run] = Nobody /\ scheduler' = scheduler
        /\ lockedBy' = [lockedBy EXCEPT ![engine[e].run] = e]
    BY <2>1, EngineFacts DEF WriteRun
  <2> QED BY <1>1, <1>2, <2>2, <2>3
<1>6. CASE \E s \in Schedulers, r \in Runs : Clear(s, r)
  <2> PICK s \in Schedulers, r \in Runs : Clear(s, r)
    BY <1>6
  <2>1. /\ engine' = engine /\ lockedBy[r] = Nobody
        /\ lockedBy' = [lockedBy EXCEPT ![r] = s]
    BY DEF Clear
  <2>2. /\ scheduler'[s].cleared = scheduler[s].cleared \cup {r}
        /\ \A t \in Schedulers : t # s => scheduler'[t] = scheduler[t]
    BY <1>1 DEF Clear, SetScheduler, SchedulerStates
  <2> QED BY <1>1, <1>2, <2>1, <2>2
<1>7. CASE \E s \in Schedulers : Scan(s) \/ Publish(s) \/ PublishFails(s)
  <2> PICK s \in Schedulers : Scan(s) \/ Publish(s) \/ PublishFails(s)
    BY <1>7
  <2>1. engine' = engine /\ lockedBy' = lockedBy
    BY DEF Scan, Publish, PublishFails, tables
  <2>2. scheduler'[s].cleared \subseteq scheduler[s].cleared
    <3>1. CASE Scan(s)
      BY <1>1, <3>1 DEF Scan, SetScheduler, Asleep
    <3>2. CASE Publish(s)
      BY <1>1, <3>2 DEF Publish, SetScheduler, SchedulerStates
    <3>3. CASE PublishFails(s)
      BY <1>1, <3>3 DEF PublishFails, SetScheduler, SchedulerStates
    <3> QED BY <3>1, <3>2, <3>3
  <2>3. \A t \in Schedulers : t # s => scheduler'[t] = scheduler[t]
    BY <1>1 DEF Scan, Publish, PublishFails, SetScheduler
  <2> QED BY <1>1, <2>1, <2>2, <2>3
<1>8. CASE \E s \in Schedulers : CommitTick(s) \/ AbortTick(s)
  <2> PICK s \in Schedulers : CommitTick(s) \/ AbortTick(s)
    BY <1>8
  <2>1. /\ engine' = engine /\ lockedBy' = Unlock(s)
        /\ scheduler' = [scheduler EXCEPT ![s] = Asleep]
    BY DEF CommitTick, AbortTick, SetScheduler
  <2>2. /\ scheduler'[s].cleared = {}
        /\ \A t \in Schedulers : t # s => scheduler'[t] = scheduler[t]
    BY <1>1, <2>1 DEF Asleep
  <2>3. \A r \in Runs : lockedBy[r] # s => lockedBy'[r] = lockedBy[r]
    BY <2>1 DEF Unlock
  <2> QED BY <1>1, <1>2, <2>1, <2>2, <2>3
<1>9. CASE engine' = engine /\ scheduler' = scheduler /\ lockedBy' = lockedBy
  BY <1>9
<1> QED
  BY <1>4, <1>5, <1>6, <1>7, <1>8, <1>9
  DEF Next, vars, tables, Work, Tick, SchedulerFault, AcceptEvent, UpdateWorkflow,
      SwitchWorkflow, Elapse, Deliver, Redeliver

-----------------------------------------------------------------------------
(* Wake-up: what keeps a running run within the engine's reach.               *)

\* The committed rows change by a commit, or as the clock goes on.
LEMMA RowsChange ==
  ASSUME [Next]_vars
  PROVE  \/ runs' = runs
         \/ \E e \in Engines : CommitTo(e, "ack") \/ CommitTo(e, "nak")
         \/ \E q \in Runs : Elapse(q)
         \/ \E s \in Schedulers : CommitTick(s)
BY DEF Next, vars, tables, AcceptEvent, UpdateWorkflow, SwitchWorkflow, Deliver,
       Redeliver, Handle, StartRun, IgnoreEvent, ResumeRun, SkipResume, Work,
       Dispatch, SkipChannel, Branch, Pause, Complete, Fail, WriteRun, Commit, Ack,
       Nak, EngineFault, DispatchFails, RollBack, CommitUnknown, Crash, Tick, Scan,
       Clear, Publish, SchedulerFault, PublishFails, AbortTick

\* A committed status never becomes running again, nor an ended one another.
LEMMA EndedStaysEnded ==
  ASSUME StructInv, [Next]_vars, NEW r \in Runs,
         runs[r].status \in {"completed", "failed"}
  PROVE  runs'[r].status \in {"completed", "failed"}
<1>1. ASSUME NEW e \in Engines, NEW pc \in {"ack", "nak"}, CommitTo(e, pc)
      PROVE  runs'[r].status \in {"completed", "failed"}
  <2>1. r = engine[e].run => ~engine[e].created
    BY EngineFacts
  <2> QED BY <1>1, <2>1, CommittedRows
<1>2. ASSUME NEW q \in Runs, Elapse(q) PROVE runs'[r].status = runs[r].status
  BY <1>2 DEF Elapse, StructInv, TypeOK, RunRows
<1>3. ASSUME NEW s \in Schedulers, CommitTick(s) PROVE runs'[r].status = runs[r].status
  BY <1>3 DEF CommitTick, StructInv, TypeOK, RunRows
<1> QED BY <1>1, <1>2, <1>3, RowsChange

\* A row keeps its event from its INSERT on.
LEMMA EventsStay ==
  ASSUME StructInv, [Next]_vars, NEW r \in Runs, runs[r].event # Nobody
  PROVE  runs'[r].event = runs[r].event
<1>1. ASSUME NEW e \in Engines, NEW pc \in {"ack", "nak"}, CommitTo(e, pc)
      PROVE  runs'[r].event = runs[r].event
  <2>1. runs[r].status # "absent"
    BY DEF StructInv, RowsHaveEvents, NoRow
  <2>2. r = engine[e].run => ~engine[e].created
    BY <2>1, EngineFacts
  <2> QED BY <1>1, <2>2, CommittedRows
<1>2. ASSUME NEW q \in Runs, Elapse(q) PROVE runs'[r].event = runs[r].event
  BY <1>2 DEF Elapse, StructInv, TypeOK, RunRows
<1>3. ASSUME NEW s \in Schedulers, CommitTick(s) PROVE runs'[r].event = runs[r].event
  BY <1>3 DEF CommitTick, StructInv, TypeOK, RunRows
<1> QED BY <1>1, <1>2, <1>3, RowsChange

\* An engine's state changes by a step of that engine.
LEMMA EngineMoves ==
  ASSUME StructInv, [Next]_vars, NEW e \in Engines
  PROVE  engine'[e] = engine[e] \/ Handle(e) \/ Work(e) \/ EngineFault(e)
<1>1. ASSUME NEW f \in Engines, Handle(f) \/ Work(f) \/ EngineFault(f), f # e
      PROVE  engine'[e] = engine[e]
  <2>1. engine \in [Engines -> EngineStates]
    BY DEF StructInv, TypeOK
  <2> QED
    BY <1>1, <2>1
    DEF SetEngine, Handle, StartRun, IgnoreEvent, ResumeRun, SkipResume, Work, Dispatch,
        SkipChannel, Branch, Pause, Complete, Fail, WriteRun, Commit, CommitTo, Ack, Nak,
        EngineFault, DispatchFails, RollBack, CommitUnknown, Crash
<1>2. ASSUME ~ \E f \in Engines : Handle(f) \/ Work(f) \/ EngineFault(f)
      PROVE  engine' = engine
  BY <1>2
  DEF Next, vars, AcceptEvent, UpdateWorkflow, SwitchWorkflow, Elapse, Deliver,
      Redeliver, Tick, Scan, Clear, Publish, CommitTick, SchedulerFault,
      PublishFails, AbortTick
<1> QED BY <1>1, <1>2

\* Resume drops a message without a write only for a run that has ended.
LEMMA SkippedNext ==
  ASSUME StructInv, SkippedRunsHaveEnded, [Next]_vars
  PROVE  SkippedRunsHaveEnded'
<1> SUFFICES ASSUME NEW e \in Engines, engine'[e].pc = "commit",
                    engine'[e].run = Nobody, engine'[e].msg \in Resumes
             PROVE  runs'[engine'[e].msg.run].status \in {"completed", "failed"}
  BY DEF SkippedRunsHaveEnded
<1>1. \A m \in Resumes : m.run \in Runs /\ m \in Messages
  BY DEF Resumes, Resume, Messages
<1>2. CASE engine'[e] = engine[e]
  BY <1>1, <1>2, EndedStaysEnded DEF SkippedRunsHaveEnded
<1>3. CASE \E m \in Resumes : SkipResume(e, m)
  <2> PICK m \in Resumes : SkipResume(e, m)
    BY <1>3
  <2>1. engine'[e].msg = m /\ runs' = runs /\ runs[m.run].status # "running"
    BY DEF SkipResume, SetEngine, StructInv, TypeOK, Idle, tables
  <2>2. m \in inbox[e] /\ runs[m.run] \in RunRows
    BY <1>1 DEF SkipResume, Take, StructInv, TypeOK
  <2>3. runs[m.run].status # "absent"
    BY <2>2 DEF StructInv, ResumedRunsExist
  <2> QED BY <2>1, <2>2, <2>3 DEF RunRows, Statuses
<1>4. engine'[e] = engine[e] \/ \E m \in Resumes : SkipResume(e, m)
  <2>9. engine \in [Engines -> EngineStates]
    BY DEF StructInv, TypeOK
  <2> USE <2>9 DEF SetEngine
  <2>2. ASSUME Handle(e) PROVE \E m \in Resumes : SkipResume(e, m)
    <3>1. ASSUME NEW ev \in Events, NEW r \in Runs, StartRun(e, ev, r) PROVE FALSE
      <4>1. engine'[e].pc = "walk"
        BY <3>1 DEF StartRun, Idle
      <4> QED BY <4>1
    <3>2. ASSUME NEW ev \in Events, IgnoreEvent(e, ev) PROVE FALSE
      <4>1. engine'[e].msg = Trigger(ev)
        BY <3>2 DEF IgnoreEvent, Idle
      <4> QED BY <4>1, TriggersAreNotResumes DEF Triggers
    <3>3. ASSUME NEW m \in Resumes, ResumeRun(e, m) PROVE FALSE
      <4>1. engine'[e].pc = "walk"
        BY <3>3 DEF ResumeRun, Idle
      <4> QED BY <4>1
    <3> QED BY <2>2, <3>1, <3>2, <3>3 DEF Handle
  <2>3. ~ (SkipChannel(e) \/ Branch(e) \/ Dispatch(e))
    BY AdvancedType DEF SkipChannel, Branch, Dispatch, AtStep, EngineStates
  <2>4. ~ (Pause(e) \/ Complete(e) \/ Fail(e))
    <3>1. ASSUME NEW write, NEW index, WriteRun(e, write, index), engine[e].pc = "walk"
          PROVE  engine'[e].run # Nobody
      BY <3>1, EngineFacts, NobodyAssumption DEF WriteRun, EngineStates
    <3> QED BY <3>1 DEF Pause, Complete, Fail, AtStep
  <2>5. ASSUME Commit(e) \/ CommitUnknown(e) \/ Ack(e) \/ Nak(e) \/ Crash(e) PROVE FALSE
    <3>1. ASSUME NEW pc, CommitTo(e, pc) PROVE engine'[e].pc = pc
      BY <3>1 DEF CommitTo, Idle
    <3>2. Ack(e) \/ Nak(e) \/ Crash(e) => engine'[e] = Idle
      BY DEF Ack, Nak, Crash
    <3> QED BY <2>5, <3>1, <3>2, IdleFacts DEF Commit, CommitUnknown
  <2>6. ~ (RollBack(e) \/ DispatchFails(e))
    BY FailedType DEF RollBack, DispatchFails
  <2> QED BY <2>2, <2>3, <2>4, <2>5, <2>6, EngineMoves DEF Work, EngineFault
<1> QED BY <1>2, <1>3, <1>4

\* Only a commit brings an engine to acknowledge its message.
LEMMA AckAfterCommit ==
  ASSUME StructInv, [Next]_vars, NEW e \in Engines,
         engine'[e] # engine[e], engine'[e].pc = "ack"
  PROVE  Commit(e)
<1>1. engine \in [Engines -> EngineStates]
  BY DEF StructInv, TypeOK
<1> USE <1>1 DEF SetEngine
<1>2. ~Handle(e)
  <2>1. ASSUME NEW ev \in Events, NEW r \in Runs, StartRun(e, ev, r)
        PROVE  engine'[e].pc = "walk"
    BY <2>1 DEF StartRun, Idle
  <2>2. ASSUME NEW ev \in Events, IgnoreEvent(e, ev) PROVE engine'[e].pc = "commit"
    BY <2>2 DEF IgnoreEvent, Idle
  <2>3. ASSUME NEW m \in Resumes, ResumeRun(e, m) PROVE engine'[e].pc = "walk"
    BY <2>3 DEF ResumeRun, Idle
  <2>4. ASSUME NEW m \in Resumes, SkipResume(e, m) PROVE engine'[e].pc = "commit"
    BY <2>4 DEF SkipResume, Idle
  <2> QED BY <2>1, <2>2, <2>3, <2>4 DEF Handle
<1>3. ~ (SkipChannel(e) \/ Branch(e) \/ Dispatch(e))
  BY AdvancedType DEF SkipChannel, Branch, Dispatch, AtStep, EngineStates
<1>4. ~ (Pause(e) \/ Complete(e) \/ Fail(e))
  <2>1. ASSUME NEW write, NEW index, WriteRun(e, write, index) PROVE engine'[e].pc = "commit"
    BY <2>1 DEF WriteRun, EngineStates
  <2> QED BY <2>1 DEF Pause, Complete, Fail
<1>5. ~ (Ack(e) \/ Nak(e) \/ Crash(e))
  BY IdleFacts DEF Ack, Nak, Crash
<1>6. ~ (RollBack(e) \/ DispatchFails(e))
  BY FailedType DEF RollBack, DispatchFails
<1>7. ~CommitUnknown(e)
  BY DEF CommitUnknown, CommitTo, Idle
<1> QED BY <1>2, <1>3, <1>4, <1>5, <1>6, <1>7, EngineMoves DEF Work, EngineFault

\* A resume message stays pending until the engine that handles it commits.
LEMMA PendingStaysPending ==
  ASSUME StructInv, [Next]_vars, NEW r \in Runs, NEW m \in PendingResumes(r),
         \A e \in Engines : Commit(e) => engine[e].msg # m
  PROVE  m \in PendingResumes(r)'
<1>1. /\ m \in stream /\ m.kind = "resume" /\ m.run = r
      /\ \A e \in Engines : engine[e].msg = m => engine[e].pc # "ack"
  BY DEF PendingResumes
<1>2. m \in stream'
  <2>1. ASSUME NEW e \in Engines, Ack(e) PROVE m \in stream'
    BY <1>1, <2>1 DEF Ack
  <2>2. ASSUME ~ \E e \in Engines : Ack(e) PROVE stream \subseteq stream'
    BY <2>2
    DEF Next, vars, AcceptEvent, UpdateWorkflow, SwitchWorkflow, Elapse, Deliver,
        Redeliver, Handle, StartRun, IgnoreEvent, ResumeRun, SkipResume, Work, Dispatch,
        SkipChannel, Branch, Pause, Complete, Fail, WriteRun, Commit, CommitTo, Nak,
        EngineFault, DispatchFails, RollBack, CommitUnknown, Crash, Tick, Scan, Clear,
        Publish, CommitTick, SchedulerFault, PublishFails, AbortTick
  <2> QED BY <1>1, <2>1, <2>2
<1>3. ASSUME NEW e \in Engines, engine'[e].msg = m PROVE engine'[e].pc # "ack"
  <2>1. CASE engine'[e] = engine[e]
    BY <1>1, <1>3, <2>1
  <2>2. CASE engine'[e] # engine[e] /\ engine'[e].pc = "ack"
    <3>1. Commit(e)
      BY <2>2, AckAfterCommit
    <3>2. engine'[e].msg = engine[e].msg
      BY <3>1 DEF Commit, CommitTo, SetEngine, StructInv, TypeOK, Idle
    <3> QED BY <1>3, <3>1, <3>2
  <2> QED BY <2>1, <2>2
<1> QED BY <1>1, <1>2, <1>3 DEF PendingResumes

\* A commit settles the message of its own run and of no other running run.
LEMMA CommitLeavesOthersPending ==
  ASSUME StructInv, SkippedRunsHaveEnded, [Next]_vars,
         NEW e \in Engines, Commit(e) \/ CommitUnknown(e),
         NEW q \in Runs, runs[q].status = "running", q # engine[e].run
  PROVE  PendingResumes(q) \subseteq PendingResumes(q)'
<1> SUFFICES ASSUME NEW m \in PendingResumes(q) PROVE m \in PendingResumes(q)'
  OBVIOUS
<1>1. m \in Resumes /\ m.run = q
  <2>1. m \in Messages /\ m.kind = "resume" /\ m.run = q
    BY DEF PendingResumes, StructInv, TypeOK
  <2>2. \A t \in Triggers : t.kind = "trigger"
    BY DEF Triggers, Trigger
  <2> QED BY <2>1, <2>2 DEF Messages
<1>2. engine[e].msg # m
  BY <1>1, EngineFacts, TriggersAreNotResumes
  DEF SkippedRunsHaveEnded, Commit, CommitUnknown, CommitTo
<1>3. ASSUME NEW f \in Engines, Commit(f) PROVE f = e
  <2>1. engine[f].pc = "commit" /\ engine'[f].pc = "ack"
    BY <1>3 DEF Commit, CommitTo, SetEngine, StructInv, TypeOK, Idle
  <2>2. f # e => engine'[f] = engine[f]
    BY DEF Commit, CommitUnknown, CommitTo, SetEngine, StructInv, TypeOK
  <2> QED BY <2>1, <2>2
<1> QED BY <1>2, <1>3, PendingStaysPending

\* ClearedRunsWake, of one scheduler.
ClearedWake(s) ==
  \A q \in scheduler[s].cleared \ {scheduler[s].clearing} :
    runs[q].status = "running" => PendingResumes(q) # {} \/ q \in scheduler[s].refused

\* No step leaves a running run without a resume_at or a pending message.
LEMMA WakeNext ==
  ASSUME StructInv, UpdatesAreLocked, SkippedRunsHaveEnded, ClearedRunsWake,
         RunningRunsWake, [Next]_vars
  PROVE  ClearedRunsWake' /\ RunningRunsWake'
<1>1. /\ runs \in [Runs -> RunRows] /\ engine \in [Engines -> EngineStates]
      /\ scheduler \in [Schedulers -> SchedulerStates]
      /\ \A s \in Schedulers : /\ scheduler[s].cleared \subseteq Runs
                               /\ scheduler[s].refused \subseteq Runs
  BY DEF StructInv, TypeOK, SchedulerStates
<1>2. CASE \E e \in Engines : Commit(e) \/ CommitUnknown(e)
  <2> PICK e \in Engines : Commit(e) \/ CommitUnknown(e)
    BY <1>2
  <2>1. PICK pc \in {"ack", "nak"} : CommitTo(e, pc)
    BY DEF Commit, CommitUnknown
  <2>2. scheduler' = scheduler /\ lost' = lost /\ engine[e].pc = "commit"
    BY <2>1 DEF CommitTo
  <2>3. \A q \in Runs : q # engine[e].run => runs'[q] = runs[q]
    BY <2>1, CommittedRows
  <2>4. RunningRunsWake'
    <3> SUFFICES ASSUME NEW q \in Runs, runs'[q].status = "running"
                 PROVE  runs'[q].resume # "none" \/ PendingResumes(q)' # {} \/ q \in lost'
      BY DEF RunningRunsWake
    <3>1. CASE q = engine[e].run
      BY <2>1, <3>1, CommittedRows
    <3>2. CASE q # engine[e].run
      BY <2>2, <2>3, <3>2, CommitLeavesOthersPending DEF RunningRunsWake
    <3> QED BY <3>1, <3>2
  <2>5. ClearedRunsWake'
    <3> SUFFICES ASSUME NEW s \in Schedulers,
                        NEW q \in scheduler'[s].cleared \ {scheduler'[s].clearing},
                        runs'[q].status = "running"
                 PROVE  PendingResumes(q)' # {} \/ q \in scheduler'[s].refused
      BY DEF ClearedRunsWake
    <3>1. q \in Runs /\ lockedBy[q] = s /\ s # e
      BY <1>1, <2>2, ActorsAssumption DEF UpdatesAreLocked
    <3>2. q # engine[e].run
      BY <2>2, <3>1, NobodyAssumption DEF UpdatesAreLocked
    <3> QED BY <2>2, <2>3, <3>1, <3>2, CommitLeavesOthersPending DEF ClearedRunsWake
  <2> QED BY <2>4, <2>5
<1>3. CASE ~ \E e \in Engines : Commit(e) \/ CommitUnknown(e)
  <2>1. \A q \in Runs : PendingResumes(q) \subseteq PendingResumes(q)'
    BY <1>3, PendingStaysPending
  <2>10. ASSUME NEW s \in Schedulers, scheduler'[s] = scheduler[s],
                \A q \in Runs : runs'[q].status = runs[q].status
         PROVE  ClearedWake(s)'
    BY <1>1, <2>1, <2>10 DEF ClearedRunsWake, ClearedWake
  <2>11. ASSUME runs' = runs, lost' = lost PROVE RunningRunsWake'
    BY <2>1, <2>11 DEF RunningRunsWake
  <2>12. ASSUME \A s \in Schedulers : ClearedWake(s)' PROVE ClearedRunsWake'
    BY <2>12 DEF ClearedRunsWake, ClearedWake
  <2>2. CASE UNCHANGED <<runs, scheduler, lost>>
    BY <1>1, <2>1, <2>2 DEF RunningRunsWake, ClearedRunsWake
  <2>3. CASE \E r \in Runs : Elapse(r)
    <3>1. /\ scheduler' = scheduler /\ lost' = lost
          /\ \A q \in Runs : /\ runs'[q].status = runs[q].status
                             /\ runs'[q].resume = "none" => runs[q].resume = "none"
      BY <1>1, <2>3 DEF Elapse, RunRows, ghosts
    <3> QED BY <1>1, <2>1, <3>1 DEF RunningRunsWake, ClearedRunsWake
  <2>4. CASE \E s \in Schedulers : Scan(s) \/ AbortTick(s)
    <3> PICK s \in Schedulers : Scan(s) \/ AbortTick(s)
      BY <2>4
    <3>1. /\ runs' = runs /\ lost' = lost /\ scheduler'[s].cleared = {}
          /\ \A t \in Schedulers : t # s => scheduler'[t] = scheduler[t]
      <4>1. CASE Scan(s)
        <5>1. PICK due : scheduler' = [scheduler EXCEPT
                           ![s] = [Asleep EXCEPT !.open = TRUE, !.due = due]]
          BY <4>1 DEF Scan, SetScheduler
        <5> QED BY <1>1, <4>1, <5>1 DEF Scan, Asleep, tables, ghosts
      <4>2. CASE AbortTick(s)
        BY <1>1, <4>2 DEF AbortTick, SetScheduler, Asleep, ghosts
      <4> QED BY <4>1, <4>2
    <3>2. ClearedWake(s)'
      BY <3>1 DEF ClearedWake
    <3> QED BY <2>10, <2>11, <2>12, <3>1, <3>2
  <2>5. CASE \E s \in Schedulers, r \in Runs : Clear(s, r)
    <3> PICK s \in Schedulers, r \in Runs : Clear(s, r)
      BY <2>5
    <3>1. /\ runs' = runs /\ lost' = lost
          /\ \A t \in Schedulers : t # s => scheduler'[t] = scheduler[t]
          /\ scheduler'[s].cleared = scheduler[s].cleared \cup {r}
          /\ scheduler'[s].clearing = r /\ scheduler[s].clearing = Nobody
          /\ scheduler'[s].refused = scheduler[s].refused
      BY <1>1 DEF Clear, SetScheduler, SchedulerStates, ghosts
    <3>2. ASSUME NEW q \in scheduler'[s].cleared \ {scheduler'[s].clearing}
          PROVE  q \in scheduler[s].cleared \ {scheduler[s].clearing} /\ q \in Runs
      BY <1>1, <3>1, <3>2, NobodyAssumption
    <3>3. ClearedWake(s)'
      BY <2>1, <3>1, <3>2 DEF ClearedRunsWake, ClearedWake
    <3> QED BY <2>10, <2>11, <2>12, <3>1, <3>3
  <2>6. CASE \E s \in Schedulers : Publish(s)
    <3> PICK s \in Schedulers : Publish(s)
      BY <2>6
    <3>1. PICK r \in Runs : scheduler[s].clearing = r
      BY <1>1, NobodyAssumption DEF Publish, SchedulerStates
    <3>2. /\ runs' = runs /\ lost' = lost
          /\ \A t \in Schedulers : t # s => scheduler'[t] = scheduler[t]
          /\ scheduler'[s].cleared = scheduler[s].cleared
          /\ scheduler'[s].clearing = Nobody
          /\ scheduler'[s].refused = scheduler[s].refused
      BY <1>1 DEF Publish, SetScheduler, SchedulerStates, ghosts, tables
    <3>3. PendingResumes(r)' # {}
      <4>1. PICK n \in 1 .. Copies : /\ ~Outstanding(Resume(r, n))
                                    /\ stream' = stream \cup {Resume(r, n)}
        BY <3>1 DEF Publish
      <4>2. engine' = engine
        BY DEF Publish
      <4>3. Resume(r, n).kind = "resume" /\ Resume(r, n).run = r
        BY DEF Resume
      <4>4. Resume(r, n) \in stream' /\ \A e \in Engines : engine'[e].msg # Resume(r, n)
        BY <4>1, <4>2 DEF Outstanding
      <4>5. Resume(r, n) \in PendingResumes(r)'
        BY <4>3, <4>4 DEF PendingResumes
      <4> QED BY <4>5
    <3>4. \A q \in scheduler'[s].cleared : q \in scheduler[s].cleared /\ q \in Runs
      BY <1>1, <3>2
    <3>5. ASSUME NEW q \in scheduler'[s].cleared, q # r, runs'[q].status = "running"
          PROVE  PendingResumes(q)' # {} \/ q \in scheduler'[s].refused
      BY <2>1, <3>1, <3>2, <3>4, <3>5 DEF ClearedRunsWake
    <3>6. ClearedWake(s)'
      BY <3>3, <3>5 DEF ClearedWake
    <3> QED BY <2>10, <2>11, <2>12, <3>2, <3>6
  <2>7. CASE \E s \in Schedulers : PublishFails(s)
    <3> PICK s \in Schedulers : PublishFails(s)
      BY <2>7
    <3>1. /\ runs' = runs /\ lost' = lost
          /\ \A t \in Schedulers : t # s => scheduler'[t] = scheduler[t]
          /\ scheduler'[s].cleared = scheduler[s].cleared
          /\ scheduler'[s].refused = scheduler[s].refused \cup {scheduler[s].clearing}
      BY <1>1 DEF PublishFails, SetScheduler, SchedulerStates, ghosts, tables
    <3>2. ClearedWake(s)'
      BY <1>1, <2>1, <3>1 DEF ClearedRunsWake, ClearedWake
    <3> QED BY <2>10, <2>11, <2>12, <3>1, <3>2
  <2>8. CASE \E s \in Schedulers : CommitTick(s)
    <3> PICK s \in Schedulers : CommitTick(s)
      BY <2>8
    <3>1. /\ lost' = lost \cup scheduler[s].refused
          /\ scheduler' = [scheduler EXCEPT ![s] = Asleep]
          /\ scheduler[s].clearing = Nobody
      BY DEF CommitTick, SetScheduler
    <3>2. /\ scheduler'[s].cleared = {}
          /\ \A t \in Schedulers : t # s => scheduler'[t] = scheduler[t]
      BY <1>1, <3>1 DEF Asleep
    <3>3. \A q \in Runs : /\ runs'[q].status = runs[q].status
                          /\ q \notin scheduler[s].cleared => runs'[q] = runs[q]
      BY <1>1 DEF CommitTick, RunRows
    <3>4. RunningRunsWake'
      <4> SUFFICES ASSUME NEW q \in Runs, runs'[q].status = "running"
                   PROVE  runs'[q].resume # "none" \/ PendingResumes(q)' # {} \/ q \in lost'
        BY DEF RunningRunsWake
      <4>1. CASE q \in scheduler[s].cleared
        <5>1. q # scheduler[s].clearing /\ runs[q].status = "running"
          BY <3>1, <3>3, NobodyAssumption
        <5>2. PendingResumes(q) # {} \/ q \in scheduler[s].refused
          BY <4>1, <5>1 DEF ClearedRunsWake
        <5>3. PendingResumes(q) # {} => PendingResumes(q)' # {}
          BY <2>1
        <5> QED BY <3>1, <5>2, <5>3
      <4>2. CASE q \notin scheduler[s].cleared
        <5>1. runs'[q] = runs[q]
          BY <3>3, <4>2
        <5>2. runs[q].resume # "none" \/ PendingResumes(q) # {} \/ q \in lost
          BY <5>1 DEF RunningRunsWake
        <5>3. PendingResumes(q) # {} => PendingResumes(q)' # {}
          BY <2>1
        <5> QED BY <3>1, <5>1, <5>2, <5>3
      <4> QED BY <4>1, <4>2
    <3>5. ClearedWake(s)'
      BY <3>2 DEF ClearedWake
    <3> QED BY <2>10, <2>12, <3>2, <3>3, <3>4, <3>5
  <2>9. \/ UNCHANGED <<runs, scheduler, lost>>
        \/ \E r \in Runs : Elapse(r)
        \/ \E s \in Schedulers : Tick(s) \/ SchedulerFault(s)
    BY <1>3
    DEF Next, vars, tables, ghosts, AcceptEvent, UpdateWorkflow, SwitchWorkflow,
        Deliver, Redeliver, Handle, StartRun, IgnoreEvent, ResumeRun, SkipResume, Work,
        Dispatch, SkipChannel, Branch, Pause, Complete, Fail, WriteRun, Ack, Nak,
        EngineFault, DispatchFails, RollBack, Crash
  <2> QED BY <2>2, <2>3, <2>4, <2>5, <2>6, <2>7, <2>8, <2>9 DEF Tick, SchedulerFault
<1> QED BY <1>2, <1>3

\* However many engines, schedulers, faults and edits: a running run keeps a
\* resume_at or a resume message that is still to be handled, unless the bus
\* refused its message and the scheduler committed all the same.
THEOREM RunsWake == Spec => []RunningRunsWake
<1> DEFINE Inv == /\ StructInv /\ UpdatesAreLocked /\ SkippedRunsHaveEnded
                  /\ ClearedRunsWake /\ RunningRunsWake
<1>1. Init => Inv
  <2> SUFFICES ASSUME Init PROVE Inv
    OBVIOUS
  <2>1. StructInv
    BY StructInit
  <2>2. \A e \in Engines : engine[e].pc = "idle"
    BY DEF Init, Idle
  <2>3. \A s \in Schedulers : scheduler[s].cleared = {}
    BY DEF Init, Asleep
  <2>4. \A r \in Runs : runs[r].status = "absent"
    BY DEF Init, NoRow
  <2> QED BY <2>1, <2>2, <2>3, <2>4
          DEF UpdatesAreLocked, SkippedRunsHaveEnded, ClearedRunsWake, RunningRunsWake
<1>2. Inv /\ [Next]_vars => Inv'
  BY StructNext, LocksNext, SkippedNext, WakeNext
<1>3. Inv => RunningRunsWake
  OBVIOUS
<1> QED BY <1>1, <1>2, <1>3, PTL DEF Spec

-----------------------------------------------------------------------------
(* Notifications and their jobs: the job is published before the row commits. *)

\* JobsInv is inductive: dispatchChannel publishes before anything commits.
LEMMA JobsNext ==
  ASSUME StructInv, JobsInv, [Next]_vars
  PROVE  JobsInv'
<1>1. engine \in [Engines -> EngineStates]
  BY DEF StructInv, TypeOK
<1>2. jobs \subseteq jobs'
  BY DEF Next, vars, tables, AcceptEvent, UpdateWorkflow, SwitchWorkflow, Elapse, Deliver,
         Redeliver, Handle, StartRun, IgnoreEvent, ResumeRun, SkipResume, Work,
         Dispatch, SkipChannel, Branch, Pause, Complete, Fail, WriteRun, Commit,
         CommitTo, Ack, Nak, EngineFault, DispatchFails, RollBack, CommitUnknown, Crash,
         Tick, Scan, Clear, Publish, CommitTick, SchedulerFault, PublishFails, AbortTick
<1>3. notifications' \subseteq jobs'
  <2>1. \/ notifications' = notifications
        \/ \E e \in Engines : notifications' = notifications \cup engine[e].sent
    BY DEF Next, vars, tables, AcceptEvent, UpdateWorkflow, SwitchWorkflow, Elapse, Deliver,
           Redeliver, Handle, StartRun, IgnoreEvent, ResumeRun, SkipResume, Work,
           Dispatch, SkipChannel, Branch, Pause, Complete, Fail, WriteRun, Commit,
           CommitTo, Ack, Nak, EngineFault, DispatchFails, RollBack, CommitUnknown, Crash,
           Tick, Scan, Clear, Publish, CommitTick, SchedulerFault, PublishFails, AbortTick
  <2> QED BY <1>2, <2>1 DEF JobsInv, QueuedNotificationsHaveJobs
<1>4. ASSUME NEW e \in Engines PROVE engine'[e].sent \subseteq jobs'
  <2> USE <1>1 DEF SetEngine
  <2>1. engine[e] \in EngineStates /\ engine[e].sent \subseteq jobs
    BY DEF JobsInv
  <2>2. ASSUME Handle(e) PROVE engine'[e].sent = {}
    <3>1. ASSUME NEW ev \in Events, NEW r \in Runs, StartRun(e, ev, r)
          PROVE  engine'[e].sent = {}
      BY <3>1 DEF StartRun, Idle
    <3>2. ASSUME NEW ev \in Events, IgnoreEvent(e, ev) PROVE engine'[e].sent = {}
      BY <3>2 DEF IgnoreEvent, Idle
    <3>3. ASSUME NEW m \in Resumes, ResumeRun(e, m) PROVE engine'[e].sent = {}
      BY <3>3 DEF ResumeRun, Idle
    <3>4. ASSUME NEW m \in Resumes, SkipResume(e, m) PROVE engine'[e].sent = {}
      BY <3>4 DEF SkipResume, Idle
    <3> QED BY <2>2, <3>1, <3>2, <3>3, <3>4 DEF Handle
  <2>3. ASSUME SkipChannel(e) \/ Branch(e) PROVE engine'[e].sent = engine[e].sent
    <3>1. engine'[e] = Advanced(e)
      BY <2>3 DEF SkipChannel, Branch
    <3>2. Advanced(e).sent = engine[e].sent
      BY <2>1 DEF Advanced, EngineStates
    <3> QED BY <3>1, <3>2
  <2>4. ASSUME Dispatch(e)
        PROVE  engine'[e].sent = engine[e].sent \cup {NewNotification(e)}
    <3>1. engine[e].pc = "walk" /\ engine[e].i < Len(StepList(e))
      BY <2>4 DEF Dispatch, AtStep
    <3>2. Advanced(e) \in EngineStates /\ Advanced(e).sent = engine[e].sent
      <4>1. Advanced(e) \in EngineStates
        BY <3>1, AdvancedType
      <4>2. Advanced(e).sent = engine[e].sent
        BY <2>1 DEF Advanced, EngineStates
      <4> QED BY <4>1, <4>2
    <3>3. engine'[e] = [Advanced(e) EXCEPT !.sent = @ \cup {NewNotification(e)}]
      BY <2>4 DEF Dispatch
    <3> QED BY <3>2, <3>3 DEF EngineStates
  <2>5. ASSUME Pause(e) \/ Complete(e) \/ Fail(e) PROVE engine'[e].sent = engine[e].sent
    <3>1. ASSUME NEW write, NEW index, WriteRun(e, write, index)
          PROVE  engine'[e].sent = engine[e].sent
      BY <2>1, <3>1 DEF WriteRun, EngineStates
    <3> QED BY <2>5, <3>1 DEF Pause, Complete, Fail
  <2>6. ASSUME Commit(e) \/ CommitUnknown(e) PROVE engine'[e].sent = {}
    <3>1. PICK pc : CommitTo(e, pc)
      BY <2>6 DEF Commit, CommitUnknown
    <3> QED BY <3>1 DEF CommitTo, Idle
  <2>7. ASSUME Ack(e) \/ Nak(e) \/ Crash(e) PROVE engine'[e].sent = {}
    BY <2>7, IdleFacts DEF Ack, Nak, Crash
  <2>8. ASSUME RollBack(e) \/ DispatchFails(e) PROVE engine'[e].sent = {}
    <3>1. engine'[e] = Failed(e)
      BY <2>8 DEF RollBack, DispatchFails
    <3> QED BY <3>1 DEF Failed, Idle
  <2>9. Dispatch(e) => jobs' = jobs \cup {NewNotification(e)}
    BY DEF Dispatch
  <2> QED BY <1>2, <2>1, <2>2, <2>3, <2>4, <2>5, <2>6, <2>7, <2>8, <2>9, EngineMoves
          DEF Work, EngineFault
<1> QED BY <1>3, <1>4 DEF JobsInv, QueuedNotificationsHaveJobs

\* Whatever fails between the INSERT, the publication and the commit, a
\* notification that shows as queued has had its job published.
THEOREM QueuedHaveJobs == Spec => []QueuedNotificationsHaveJobs
<1>1. Init => StructInv /\ JobsInv
  <2> SUFFICES ASSUME Init PROVE JobsInv
    BY StructInit
  <2>1. notifications = {} /\ \A e \in Engines : engine[e].sent = {}
    BY DEF Init, Idle
  <2> QED BY <2>1 DEF JobsInv, QueuedNotificationsHaveJobs
<1>2. StructInv /\ JobsInv /\ [Next]_vars => (StructInv /\ JobsInv)'
  BY StructNext, JobsNext
<1>3. JobsInv => QueuedNotificationsHaveJobs
  BY DEF JobsInv
<1> QED BY <1>1, <1>2, <1>3, PTL DEF Spec

-----------------------------------------------------------------------------
(* Events: nothing acknowledges one before its transaction has committed.     *)

\* KeptInv is inductive: Run acknowledges after the commit only.
LEMMA KeptNext ==
  ASSUME StructInv, KeptInv, [Next]_vars
  PROVE  KeptInv'
<1> DEFINE Handled(ev) == ev \in unmatched \/ \E r \in Runs : runs[r].event = ev
<1>1. engine \in [Engines -> EngineStates] /\ accepted \subseteq Events
  BY DEF StructInv, TypeOK
<1>2. ASSUME NEW ev \in Events, Handled(ev) PROVE Handled(ev)'
  <2>1. unmatched \subseteq unmatched'
    BY DEF Next, vars, ghosts, AcceptEvent, UpdateWorkflow, SwitchWorkflow, Elapse, Deliver,
           Redeliver, Handle, StartRun, IgnoreEvent, ResumeRun, SkipResume, Work,
           Dispatch, SkipChannel, Branch, Pause, Complete, Fail, WriteRun, Commit,
           CommitTo, Ack, Nak, EngineFault, DispatchFails, RollBack, CommitUnknown, Crash,
           Tick, Scan, Clear, Publish, CommitTick, SchedulerFault, PublishFails, AbortTick
  <2>2. ASSUME NEW r \in Runs, runs[r].event = ev PROVE runs'[r].event = ev
    BY <2>2, EventsStay, NobodyAssumption
  <2> QED BY <1>2, <2>1, <2>2
<1>3. ASSUME NEW e \in Engines, NEW ev \in Events, Commit(e), engine[e].msg = Trigger(ev)
      PROVE  Handled(ev)'
  <2>1. CommitTo(e, "ack") /\ Trigger(ev).event = ev /\ Trigger(ev) \in Triggers
    BY <1>3 DEF Commit, Trigger, Triggers
  <2>2. CASE engine[e].run = Nobody
    <3>1. unmatched' = unmatched \cup {ev}
      BY <1>3, <2>1, <2>2 DEF CommitTo
    <3> QED BY <3>1
  <2>3. CASE engine[e].run # Nobody
    <3>1. engine[e].created /\ engine[e].run \in Runs
      BY <1>3, <2>1, <2>3, EngineFacts, TriggersAreNotResumes
      DEF StructInv, EnginesFitTheirMessages
    <3>2. runs'[engine[e].run].event = ev
      BY <1>3, <2>1, <3>1, CommittedRows
    <3> QED BY <3>1, <3>2
  <2> QED BY <2>2, <2>3
<1>4. ASSUME NEW e \in Engines, NEW ev \in Events,
             engine'[e].pc = "ack", engine'[e].msg = Trigger(ev)
      PROVE  Handled(ev)'
  <2>1. CASE engine'[e] = engine[e]
    BY <1>2, <1>4, <2>1 DEF KeptInv
  <2>2. CASE engine'[e] # engine[e]
    <3>1. Commit(e)
      BY <1>4, <2>2, AckAfterCommit
    <3>2. engine'[e].msg = engine[e].msg
      BY <1>1, <3>1 DEF Commit, CommitTo, SetEngine, Idle
    <3> QED BY <1>3, <1>4, <3>1, <3>2
  <2> QED BY <2>1, <2>2
<1>5. ASSUME NEW ev \in accepted' PROVE Trigger(ev) \in stream' \/ Handled(ev)'
  <2>1. CASE \E e \in Engines : Ack(e) /\ engine[e].msg = Trigger(ev)
    <3>1. ev \in Events /\ Handled(ev)
      BY <1>1, <2>1 DEF Ack, KeptInv, ghosts
    <3> QED BY <1>2, <3>1
  <2>2. CASE \E x \in Events : AcceptEvent(x)
    <3>1. stream \subseteq stream' /\ unmatched' = unmatched /\ runs' = runs
          /\ (ev \in accepted \/ Trigger(ev) \in stream')
      BY <2>2 DEF AcceptEvent, tables
    <3> QED BY <3>1 DEF KeptInv, AcceptedEventsKept
  <2>3. CASE ~ (\E e \in Engines : Ack(e) /\ engine[e].msg = Trigger(ev))
             /\ ~ (\E x \in Events : AcceptEvent(x))
    <3>1. accepted' = accepted
      BY <2>3
      DEF Next, vars, ghosts, UpdateWorkflow, SwitchWorkflow, Elapse, Deliver,
          Redeliver, Handle, StartRun, IgnoreEvent, ResumeRun, SkipResume, Work,
          Dispatch, SkipChannel, Branch, Pause, Complete, Fail, WriteRun, Commit,
          CommitTo, Ack, Nak, EngineFault, DispatchFails, RollBack, CommitUnknown, Crash,
          Tick, Scan, Clear, Publish, CommitTick, SchedulerFault, PublishFails, AbortTick
    <3>2. Trigger(ev) \in stream => Trigger(ev) \in stream'
      <4>1. ASSUME NEW e \in Engines, Ack(e) PROVE stream' = stream \ {engine[e].msg}
        BY <4>1 DEF Ack
      <4>2. (\A e \in Engines : ~Ack(e)) => stream \subseteq stream'
        BY <2>3
        DEF Next, vars, UpdateWorkflow, SwitchWorkflow, Elapse, Deliver,
            Redeliver, Handle, StartRun, IgnoreEvent, ResumeRun, SkipResume, Work,
            Dispatch, SkipChannel, Branch, Pause, Complete, Fail, WriteRun, Commit,
            CommitTo, Nak, EngineFault, DispatchFails, RollBack, CommitUnknown, Crash,
            Tick, Scan, Clear, Publish, CommitTick, SchedulerFault, PublishFails, AbortTick
      <4> QED BY <2>3, <4>1, <4>2
    <3>3. ev \in Events /\ (Trigger(ev) \in stream \/ Handled(ev))
      BY <1>1, <3>1 DEF KeptInv, AcceptedEventsKept
    <3> QED BY <1>2, <3>2, <3>3
  <2> QED BY <2>1, <2>2, <2>3
<1> QED BY <1>4, <1>5 DEF KeptInv, AcceptedEventsKept

\* No accepted event is lost between the stream and the tables: crashes,
\* roll-backs, redeliveries and edits included.
THEOREM EventsKept == Spec => []AcceptedEventsKept
<1>1. Init => StructInv /\ KeptInv
  <2> SUFFICES ASSUME Init PROVE KeptInv
    BY StructInit
  <2>1. accepted = {} /\ \A e \in Engines : engine[e].pc = "idle"
    BY DEF Init, Idle
  <2> QED BY <2>1 DEF KeptInv, AcceptedEventsKept
<1>2. StructInv /\ KeptInv /\ [Next]_vars => (StructInv /\ KeptInv)'
  BY StructNext, KeptNext
<1>3. KeptInv => AcceptedEventsKept
  BY DEF KeptInv
<1> QED BY <1>1, <1>2, <1>3, PTL DEF Spec
=============================================================================
