------------------------- MODULE RunLifecycleProofs -------------------------
(***************************************************************************)
(* WorkflowRuns implements RunLifecycle, for any number of engines,        *)
(* schedulers, events, runs, edits and faults.                             *)
(*                                                                         *)
(* The step that needs an argument is the commit of an engine that resumed *)
(* its run before another engine ended it.  As long as nobody has edited   *)
(* the workflow, the way a run goes is fixed by its event, and whoever     *)
(* walks it from wherever it has been comes to the same end.               *)
(*                                                                         *)
(* The second part counts what may bring a run, or an event, to an engine  *)
(* once more: how often runs, messages and steps are repeated, and that no *)
(* delay is cut short.                                                     *)
(***************************************************************************)
EXTENDS WorkflowRunsProofs

\* The workflow in its first text, and the way a run of event ev goes in it.
Size == Len(StepsOf[FirstVersion])
Way(ev) == [i \in Below(Size) |-> Successor(StepsOf[FirstVersion], i, PayloadOf[ev])]
Ends(ev, i) == i \in Ending(Way(ev), Size)
Remaining(ev, i) == Cardinality(Orbit(Way(ev), Size, i))

\* How a run of ev ends, and that from index i it still ends like that.
Fate(ev) == IF Ends(ev, 0) THEN "completed" ELSE "failed"
OnTheWay(ev, i) == Ends(ev, i) <=> Ends(ev, 0)

EventOf(e) == IF engine[e].created THEN engine[e].msg.event ELSE runs[engine[e].run].event

\* The row as the transaction of e sees it before it writes.
RowOf(e) == IF engine[e].created THEN NewRow(engine[e].msg.event)
            ELSE runs[engine[e].run]

EngineFits(state, ev) ==
  /\ state.version = FirstVersion /\ state.payload = PayloadOf[ev]
  /\ state.pc = "walk" =>
       /\ OnTheWay(ev, state.i)
       /\ Ends(ev, state.i) => state.visited + Remaining(ev, state.i) <= Size
  /\ state.pc = "commit" =>
       /\ state.write = "pause" => OnTheWay(ev, state.i)
       /\ state.write = "complete" => Fate(ev) = "completed"
       /\ state.write = "fail" => Fate(ev) = "failed"

RowFits(row) ==
  /\ row.status = "running" => OnTheWay(row.event, row.index)
  /\ row.status \in {"completed", "failed"} => row.status = Fate(row.event)

\* Until the workflow is edited every run is on its way to the end that its
\* event decides, in the table and in every transaction that walks it.
FateInv ==
  edits = 0 =>
    /\ workflow.version = FirstVersion
    /\ \A e \in Engines : engine[e].run # Nobody => EngineFits(engine[e], EventOf(e))
    /\ \A r \in Runs : runs[r].status # "absent" => RowFits(runs[r])

\* A message that exists: in the stream or with an engine.
Exists(m) == m \in stream \/ \E e \in Engines : m \in inbox[e] \/ engine[e].msg = m

\* Only accepted events come to an engine.
EventsAreAccepted == \A ev \in Events : Exists(Trigger(ev)) => ev \in accepted

-----------------------------------------------------------------------------
(* The way of a run.                                                          *)

\* What one step of executeFrom does to the walk of a run.
LEMMA WayOn ==
  ASSUME NEW ev, NEW i \in Nat
  PROVE  /\ Size \in Nat /\ Remaining(ev, i) \in 0 .. Size
         /\ i >= Size => Ends(ev, i)
         /\ i < Size =>
              LET next == Successor(StepsOf[FirstVersion], i, PayloadOf[ev])
              IN  /\ next \in Nat
                  /\ OnTheWay(ev, i) <=> OnTheWay(ev, next)
                  /\ Ends(ev, i) <=> Ends(ev, next)
                  /\ Ends(ev, i) => Remaining(ev, i) = Remaining(ev, next) + 1
<1>1. Size \in Nat
  BY WorkflowAssumption DEF Size
<1>2. \A k \in Below(Size) :
        Successor(StepsOf[FirstVersion], k, PayloadOf[ev]) \in Nat
  <2>1. \A k \in Below(Size) : k \in Nat /\ k < Len(StepsOf[FirstVersion])
    BY <1>1 DEF Below, Size
  <2> QED BY <2>1, NextIsIndex, WorkflowAssumption
<1>3. Way(ev) \in Moves(Size)
  BY <1>2 DEF Way, Moves
<1>4. i < Size => /\ i \in Below(Size)
                  /\ Way(ev)[i] = Successor(StepsOf[FirstVersion], i, PayloadOf[ev])
  BY <1>1 DEF Below, Way
<1> HIDE DEF Size, Way
<1> QED BY <1>1, <1>2, <1>3, <1>4, EndingStep, OrbitSize DEF Ends, Remaining, OnTheWay

-----------------------------------------------------------------------------
(* FateInv is inductive.                                                      *)

\* Nobody edits the workflow unnoticed, and edits are not undone.
LEMMA EditsNext ==
  ASSUME StructInv, [Next]_vars
  PROVE  /\ edits' >= edits
         /\ edits' = edits => workflow' = workflow
<1>1. edits \in Nat
  BY BoundsAssumption DEF StructInv, TypeOK
<1>2. CASE (\E v \in Versions : UpdateWorkflow(v)) \/ SwitchWorkflow
  BY <1>1, <1>2 DEF UpdateWorkflow, SwitchWorkflow, Edit
<1>3. CASE ~ ((\E v \in Versions : UpdateWorkflow(v)) \/ SwitchWorkflow)
  <2>1. edits' = edits /\ workflow' = workflow
    BY <1>3
    DEF Next, vars, AcceptEvent, Elapse, Deliver,
        Redeliver, Handle, StartRun, IgnoreEvent, ResumeRun, SkipResume, Work,
        Dispatch, SkipChannel, Branch, Pause, Complete, Fail, WriteRun, Commit,
        CommitTo, Ack, Nak, EngineFault, DispatchFails, RollBack, CommitUnknown, Crash,
        Tick, Scan, Clear, Publish, CommitTick, SchedulerFault, PublishFails, AbortTick
  <2> QED BY <1>1, <2>1
<1> QED BY <1>2, <1>3

\* A run in progress belongs to an event, which it keeps.
LEMMA EventOfEngine ==
  ASSUME StructInv, NEW e \in Engines, engine[e].run # Nobody
  PROVE  /\ engine[e].run \in Runs /\ EventOf(e) \in Events
         /\ engine[e].created => engine[e].msg = Trigger(EventOf(e))
         /\ ~engine[e].created => /\ runs[engine[e].run].status # "absent"
                                  /\ runs[engine[e].run].event = EventOf(e)
<1>1. engine[e] \in EngineStates /\ engine[e].run \in Runs
  BY DEF StructInv, TypeOK, EngineStates
<1>2. \A t \in Triggers : t.event \in Events /\ t = Trigger(t.event)
  BY DEF Triggers, Trigger
<1>3. CASE engine[e].created
  <2>1. engine[e].msg \in Triggers
    BY <1>3 DEF StructInv, EnginesFitTheirMessages
  <2> QED BY <1>1, <1>2, <1>3, <2>1 DEF EventOf
<1>4. CASE ~engine[e].created
  <2>1. engine[e].msg \in Resumes /\ engine[e].msg.run = engine[e].run
    BY <1>4 DEF StructInv, EnginesFitTheirMessages
  <2>2. runs[engine[e].run].status # "absent"
    BY <2>1 DEF StructInv, ResumedRunsExist
  <2>3. runs[engine[e].run].event \in Events
    BY <1>1, <2>2 DEF StructInv, RowsHaveEvents
  <2> QED BY <1>1, <1>4, <2>2, <2>3 DEF EventOf
<1> QED BY <1>3, <1>4

\* An engine that does not move keeps its event.
LEMMA EventOfStays ==
  ASSUME StructInv, [Next]_vars, NEW e \in Engines, engine[e].run # Nobody,
         engine'[e].created = engine[e].created, engine'[e].msg = engine[e].msg,
         engine'[e].run = engine[e].run
  PROVE  EventOf(e)' = EventOf(e)
<1>1. CASE engine[e].created
  BY <1>1 DEF EventOf
<1>2. CASE ~engine[e].created
  <2>1. /\ engine[e].run \in Runs /\ runs[engine[e].run].event = EventOf(e)
        /\ EventOf(e) # Nobody
    BY <1>2, EventOfEngine, NobodyAssumption
  <2>2. runs'[engine[e].run].event = EventOf(e)
    BY <2>1, EventsStay
  <2> QED BY <1>2, <2>2 DEF EventOf
<1> QED BY <1>1, <1>2

\* ProcessEvent and Resume start where the run is.
LEMMA FitsHandle ==
  ASSUME StructInv, FateInv, edits = 0, NEW e \in Engines, Handle(e),
         engine'[e].run # Nobody
  PROVE  EngineFits(engine'[e], EventOf(e)')
<1>1. engine \in [Engines -> EngineStates] /\ runs \in [Runs -> RunRows]
  BY DEF StructInv, TypeOK
<1>2. workflow.version = FirstVersion
  BY DEF FateInv
<1>3. ASSUME NEW ev \in Events, NEW r \in Runs, StartRun(e, ev, r)
      PROVE  EngineFits(engine'[e], EventOf(e)')
  <2>1. engine'[e] = [Idle EXCEPT !.pc = "walk", !.msg = Trigger(ev), !.run = r,
                        !.created = TRUE, !.version = workflow.version,
                        !.payload = PayloadOf[ev]]
    BY <1>1, <1>3 DEF StartRun, SetEngine
  <2>2. /\ engine'[e].pc = "walk" /\ engine'[e].version = FirstVersion
        /\ engine'[e].payload = PayloadOf[ev] /\ engine'[e].created
        /\ engine'[e].msg = Trigger(ev) /\ engine'[e].i = 0 /\ engine'[e].visited = 0
    BY <1>2, <2>1 DEF Idle
  <2>3. EventOf(e)' = ev
    BY <2>2 DEF EventOf, Trigger
  <2>4. Remaining(ev, 0) <= Size /\ Remaining(ev, 0) \in Nat
    BY WayOn
  <2> QED BY <2>2, <2>3, <2>4 DEF EngineFits, OnTheWay
<1>4. ASSUME NEW m \in Resumes, ResumeRun(e, m)
      PROVE  EngineFits(engine'[e], EventOf(e)')
  <2> DEFINE row == runs[m.run]
  <2>1. engine'[e] = [Idle EXCEPT !.pc = "walk", !.msg = m, !.run = m.run,
                        !.version = workflow.version, !.i = row.index,
                        !.payload = PayloadOf[row.event]]
    BY <1>1, <1>4 DEF ResumeRun, SetEngine
  <2>2. /\ engine'[e].pc = "walk" /\ engine'[e].version = FirstVersion
        /\ engine'[e].payload = PayloadOf[row.event] /\ ~engine'[e].created
        /\ engine'[e].run = m.run /\ engine'[e].i = row.index /\ engine'[e].visited = 0
    BY <1>2, <2>1 DEF Idle
  <2>3. m.run \in Runs /\ row.status = "running" /\ runs' = runs
    BY <1>4 DEF ResumeRun, tables, Resumes, Resume
  <2>4. row.index \in Nat /\ OnTheWay(row.event, row.index)
    BY <1>1, <2>3 DEF FateInv, RowFits, RunRows
  <2>5. EventOf(e)' = row.event
    BY <2>2, <2>3 DEF EventOf
  <2>6. Remaining(row.event, row.index) <= Size /\ Remaining(row.event, row.index) \in Nat
    BY <2>4, WayOn
  <2> HIDE DEF row
  <2> QED BY <2>2, <2>4, <2>5, <2>6 DEF EngineFits
<1>5. ASSUME NEW ev \in Events, IgnoreEvent(e, ev) PROVE FALSE
  BY <1>1, <1>5 DEF IgnoreEvent, SetEngine, Idle
<1>6. ASSUME NEW m \in Resumes, SkipResume(e, m) PROVE FALSE
  BY <1>1, <1>6 DEF SkipResume, SetEngine, Idle
<1> QED BY <1>3, <1>4, <1>5, <1>6 DEF Handle

\* The steps of the walk keep the run on its way, and the guard against cycles
\* fails no run whose way ends.
LEMMA FitsWork ==
  ASSUME StructInv, FateInv, [Next]_vars, edits = 0, NEW e \in Engines,
         Dispatch(e) \/ SkipChannel(e) \/ Branch(e) \/ Pause(e) \/ Complete(e) \/ Fail(e)
  PROVE  EngineFits(engine'[e], EventOf(e)')
<1> DEFINE ev == EventOf(e)
           st == engine[e]
           next == Successor(StepsOf[FirstVersion], st.i, PayloadOf[ev])
<1>1. engine \in [Engines -> EngineStates] /\ st \in EngineStates
  BY DEF StructInv, TypeOK
<1>2. st.pc = "walk" /\ st.run # Nobody
  <2>1. st.pc = "walk"
    BY DEF Dispatch, SkipChannel, Branch, Pause, Complete, Fail, AtStep
  <2> QED BY <2>1, EngineFacts, NobodyAssumption
<1>3. /\ st.version = FirstVersion /\ st.payload = PayloadOf[ev]
      /\ OnTheWay(ev, st.i)
      /\ Ends(ev, st.i) => st.visited + Remaining(ev, st.i) <= Size
  BY <1>2 DEF FateInv, EngineFits
<1>4. NextOf(e) = next /\ Len(StepList(e)) = Size
  BY <1>3 DEF NextOf, StepList, Size
<1>5. st.i \in Nat /\ st.visited \in Nat /\ Size \in Nat /\ Remaining(ev, st.i) \in 0 .. Size
  BY <1>1, WayOn DEF EngineStates
<1>6. st.i < Size =>
        /\ next \in Nat
        /\ OnTheWay(ev, st.i) <=> OnTheWay(ev, next)
        /\ Ends(ev, st.i) <=> Ends(ev, next)
        /\ Ends(ev, st.i) => Remaining(ev, st.i) = Remaining(ev, next) + 1
  BY <1>5, WayOn
<1>7. st.i >= Size => Ends(ev, st.i)
  BY <1>5, WayOn
<1>8. next \in Nat => Remaining(ev, next) \in Nat
  BY <1>5, WayOn
<1> HIDE DEF next
<1>9. CASE Dispatch(e) \/ SkipChannel(e) \/ Branch(e)
  <2>1. st.i < Size
    BY <1>4, <1>9 DEF Dispatch, SkipChannel, Branch, AtStep
  <2>2. \/ engine'[e] = [st EXCEPT !.i = next, !.visited = @ + 1]
        \/ engine'[e] = [[st EXCEPT !.i = next, !.visited = @ + 1]
                           EXCEPT !.sent = @ \cup {NewNotification(e)}]
    BY <1>1, <1>4, <1>9 DEF Dispatch, SkipChannel, Branch, SetEngine, Advanced
  <2>3. /\ engine'[e].i = next /\ engine'[e].visited = st.visited + 1
        /\ engine'[e].pc = "walk" /\ engine'[e].version = st.version
        /\ engine'[e].payload = st.payload /\ engine'[e].run = st.run
        /\ engine'[e].created = st.created /\ engine'[e].msg = st.msg
    BY <1>1, <1>2, <2>2 DEF EngineStates
  <2>4. EventOf(e)' = ev
    BY <1>2, <2>3, EventOfStays
  <2> HIDE DEF ev, st
  <2> QED BY <1>3, <1>5, <1>6, <1>8, <2>1, <2>3, <2>4 DEF EngineFits
<1>10. ASSUME NEW write \in {"pause", "complete", "fail"}, NEW index, WriteRun(e, write, index),
              write = "pause" => OnTheWay(ev, index),
              write = "complete" => Fate(ev) = "completed",
              write = "fail" => Fate(ev) = "failed"
       PROVE  EngineFits(engine'[e], EventOf(e)')
  <2>1. engine'[e] = [st EXCEPT !.pc = "commit", !.write = write, !.i = index]
    BY <1>1, <1>10 DEF WriteRun, SetEngine
  <2>2. /\ engine'[e].i = index /\ engine'[e].write = write
        /\ engine'[e].pc = "commit" /\ engine'[e].version = st.version
        /\ engine'[e].payload = st.payload /\ engine'[e].run = st.run
        /\ engine'[e].created = st.created /\ engine'[e].msg = st.msg
    BY <1>1, <2>1 DEF EngineStates
  <2>3. EventOf(e)' = ev
    BY <1>2, <2>2, EventOfStays
  <2> HIDE DEF ev, st
  <2> QED BY <1>3, <1>10, <2>2, <2>3 DEF EngineFits
<1>11. CASE Pause(e)
  <2>1. WriteRun(e, "pause", next) /\ st.i < Size
    BY <1>4, <1>11 DEF Pause, AtStep
  <2> QED BY <1>3, <1>6, <1>10, <2>1
<1>12. CASE Complete(e)
  <2>1. WriteRun(e, "complete", Size) /\ st.i >= Size
    BY <1>4, <1>12 DEF Complete
  <2>2. Fate(ev) = "completed"
    BY <1>3, <1>7, <2>1 DEF OnTheWay, Fate
  <2> QED BY <1>10, <2>1, <2>2
<1>13. CASE Fail(e)
  <2>1. WriteRun(e, "fail", st.i) /\ st.i < Size /\ st.visited > MaxIterations(StepList(e))
    BY <1>4, <1>13 DEF Fail
  <2>2. MaxIterations(StepList(e)) = Size * 2 + 10
    BY <1>4 DEF MaxIterations
  <2>3. ~Ends(ev, st.i)
    BY <1>3, <1>5, <2>1, <2>2
  <2>4. Fate(ev) = "failed"
    BY <1>3, <2>3 DEF OnTheWay, Fate
  <2> QED BY <1>10, <2>1, <2>4
<1> QED BY <1>9, <1>11, <1>12, <1>13

\* The status and the index that a commit leaves in the row of its run.
LEMMA WrittenRow ==
  ASSUME StructInv, NEW e \in Engines, NEW pc \in {"ack", "nak"}, CommitTo(e, pc),
         engine[e].run # Nobody
  PROVE  \/ /\ engine[e].write = "pause"
            /\ runs'[engine[e].run].status = RowOf(e).status
            /\ runs'[engine[e].run].index = engine[e].i
         \/ engine[e].write = "complete" /\ runs'[engine[e].run].status = "completed"
         \/ engine[e].write = "fail" /\ runs'[engine[e].run].status = "failed"
<1> DEFINE row == RowOf(e)
<1>1. engine[e].run \in Runs /\ EventOf(e) \in Events
  BY EventOfEngine
<1>2. row \in RunRows
  BY <1>1, StatesWellTyped DEF EventOf, RowOf, StructInv, TypeOK
<1>3. engine[e].write \in {"pause", "complete", "fail"} /\ engine[e].i \in Nat
  BY DEF StructInv, TypeOK, EnginesFitTheirMessages, EngineStates, Writes, CommitTo
<1>4. runs'[engine[e].run] = CASE engine[e].write = "pause" ->
                                    [row EXCEPT !.resume = "later", !.index = engine[e].i]
                               [] engine[e].write = "complete" ->
                                    [row EXCEPT !.status = "completed", !.index = engine[e].i]
                               [] OTHER -> [row EXCEPT !.status = "failed"]
  BY <1>1, CommittedRows DEF Written, RowOf
<1>5. CASE engine[e].write = "pause"
  BY <1>2, <1>3, <1>4, <1>5 DEF RunRows
<1>6. CASE engine[e].write = "complete"
  BY <1>2, <1>3, <1>4, <1>6 DEF RunRows
<1>7. CASE engine[e].write = "fail"
  BY <1>2, <1>3, <1>4, <1>7 DEF RunRows
<1> QED BY <1>3, <1>5, <1>6, <1>7

\* A commit leaves a row that fits its event, and one that had ended as it was.
LEMMA CommitFits ==
  ASSUME StructInv, FateInv, edits = 0, NEW e \in Engines, NEW pc \in {"ack", "nak"},
         CommitTo(e, pc), engine[e].run # Nobody
  PROVE  /\ RowFits(runs'[engine[e].run])
         /\ runs[engine[e].run].status \in {"completed", "failed"} =>
              runs'[engine[e].run].status = runs[engine[e].run].status
<1> DEFINE r == engine[e].run
           row == RowOf(e)
<1>1. /\ r \in Runs
      /\ engine[e].created => runs[r].status = "absent"
      /\ ~engine[e].created => runs[r].status # "absent" /\ runs[r].event = EventOf(e)
  BY EventOfEngine, EngineFacts
<1>2. runs'[r].event = EventOf(e)
  BY <1>1, CommittedRows DEF EventOf
<1>3. \/ /\ engine[e].write = "pause"
         /\ runs'[r].status = row.status /\ runs'[r].index = engine[e].i
      \/ engine[e].write = "complete" /\ runs'[r].status = "completed"
      \/ engine[e].write = "fail" /\ runs'[r].status = "failed"
  BY WrittenRow
<1>4. EngineFits(engine[e], EventOf(e)) /\ engine[e].pc = "commit"
  BY DEF FateInv, CommitTo
<1>5. engine[e].created => row.status = "running"
  BY DEF RowOf, NewRow, NoRow
<1>6. ~engine[e].created => row = runs[r]
  BY DEF RowOf
<1>7. row.status \in {"completed", "failed"} => row.status = Fate(EventOf(e))
  BY <1>1, <1>5, <1>6 DEF FateInv, RowFits
<1> HIDE DEF row
<1>8. RowFits(runs'[r])
  BY <1>2, <1>3, <1>4, <1>7 DEF EngineFits, RowFits, OnTheWay
<1>9. runs[r].status \in {"completed", "failed"} => runs'[r].status = runs[r].status
  BY <1>1, <1>3, <1>4, <1>7, <1>6 DEF EngineFits, Fate
<1> QED BY <1>8, <1>9

\* FateInv is inductive.
LEMMA FateNext ==
  ASSUME StructInv, FateInv, [Next]_vars
  PROVE  FateInv'
<1> SUFFICES ASSUME edits' = 0 PROVE FateInv'
  BY DEF FateInv
<1>1. edits = 0 /\ workflow' = workflow
  BY EditsNext, BoundsAssumption DEF StructInv, TypeOK
<1>2. /\ engine \in [Engines -> EngineStates] /\ runs \in [Runs -> RunRows]
      /\ workflow.version = FirstVersion
  BY <1>1 DEF StructInv, TypeOK, FateInv
<1>3. ASSUME NEW e \in Engines, engine'[e].run # Nobody
      PROVE  EngineFits(engine'[e], EventOf(e)')
  <2>1. CASE engine'[e] = engine[e]
    <3>1. EventOf(e)' = EventOf(e)
      BY <1>3, <2>1, EventOfStays
    <3> QED BY <1>1, <1>3, <2>1, <3>1 DEF FateInv
  <2>2. CASE Handle(e)
    BY <1>1, <1>3, <2>2, FitsHandle
  <2>3. CASE Dispatch(e) \/ SkipChannel(e) \/ Branch(e) \/ Pause(e) \/ Complete(e) \/ Fail(e)
    BY <1>1, <2>3, FitsWork
  <2>4. ASSUME Commit(e) \/ Ack(e) \/ Nak(e) \/ EngineFault(e) PROVE FALSE
    <3>1. Failed(e).run = Nobody /\ Idle.run = Nobody
      BY FailedType, IdleFacts
    <3>2. \/ engine'[e] = Failed(e) \/ engine'[e] = Idle
          \/ \E pc \in {"ack", "nak"} :
               engine'[e] = [Idle EXCEPT !.pc = pc, !.msg = engine[e].msg]
      BY <1>2, <2>4 DEF Commit, CommitTo, CommitUnknown, Ack, Nak, EngineFault, DispatchFails,
                        RollBack, Crash, SetEngine
    <3> QED BY <1>3, <3>1, <3>2 DEF Idle
  <2> QED BY <2>1, <2>2, <2>3, <2>4, EngineMoves DEF Work
<1>4. ASSUME NEW r \in Runs, runs'[r].status # "absent" PROVE RowFits(runs'[r])
  <2>1. CASE runs' = runs
    BY <1>1, <1>4, <2>1 DEF FateInv
  <2>2. ASSUME NEW e \in Engines, NEW pc \in {"ack", "nak"}, CommitTo(e, pc)
        PROVE  RowFits(runs'[r])
    <3>1. CASE r = engine[e].run
      <4>1. engine[e].run # Nobody
        BY <3>1, NobodyAssumption
      <4> QED BY <1>1, <2>2, <3>1, <4>1, CommitFits
    <3>2. CASE r # engine[e].run
      <4>1. runs'[r] = runs[r]
        BY <2>2, <3>2, CommittedRows
      <4> QED BY <1>1, <1>4, <4>1 DEF FateInv
    <3> QED BY <3>1, <3>2
  <2>3. ASSUME \/ \E q \in Runs : Elapse(q)
               \/ \E s \in Schedulers : CommitTick(s)
        PROVE  RowFits(runs'[r])
    <3>1. /\ runs'[r].status = runs[r].status /\ runs'[r].index = runs[r].index
          /\ runs'[r].event = runs[r].event
      BY <1>2, <2>3 DEF Elapse, CommitTick, RunRows
    <3> QED BY <1>1, <1>4, <3>1 DEF FateInv, RowFits
  <2> QED BY <2>1, <2>2, <2>3, RowsChange
<1> QED BY <1>1, <1>2, <1>3, <1>4 DEF FateInv

-----------------------------------------------------------------------------
(* EventsAreAccepted is inductive.                                            *)

\* The event that an engine takes on is one that was delivered to it.
LEMMA TriggerTaken ==
  ASSUME StructInv, [Next]_vars, NEW e \in Engines, NEW ev \in Events,
         engine'[e].msg = Trigger(ev)
  PROVE  engine[e].msg = Trigger(ev) \/ Trigger(ev) \in inbox[e]
<1>1. engine \in [Engines -> EngineStates] /\ engine[e] \in EngineStates
  BY DEF StructInv, TypeOK
<1>2. Trigger(ev) \in Triggers /\ Trigger(ev) # Nobody
  BY NobodyAssumption DEF Triggers, Messages
<1>3. CASE Handle(e)
  <2>1. \E m : Take(e, m) /\ engine'[e].msg = m
    <3>1. ASSUME NEW x \in Events, NEW r \in Runs, StartRun(e, x, r)
          PROVE  Take(e, Trigger(x)) /\ engine'[e].msg = Trigger(x)
      BY <1>1, <3>1 DEF StartRun, SetEngine, Idle
    <3>2. ASSUME NEW x \in Events, IgnoreEvent(e, x)
          PROVE  Take(e, Trigger(x)) /\ engine'[e].msg = Trigger(x)
      BY <1>1, <3>2 DEF IgnoreEvent, SetEngine, Idle
    <3>3. ASSUME NEW m, ResumeRun(e, m) PROVE Take(e, m) /\ engine'[e].msg = m
      BY <1>1, <3>3 DEF ResumeRun, SetEngine, Idle
    <3>4. ASSUME NEW m, SkipResume(e, m) PROVE Take(e, m) /\ engine'[e].msg = m
      BY <1>1, <3>4 DEF SkipResume, SetEngine, Idle
    <3> QED BY <1>3, <3>1, <3>2, <3>3, <3>4 DEF Handle
  <2> QED BY <2>1 DEF Take
<1>4. CASE Dispatch(e) \/ SkipChannel(e) \/ Branch(e)
  <2>1. \/ engine'[e] = Advanced(e)
        \/ engine'[e] = [Advanced(e) EXCEPT !.sent = @ \cup {NewNotification(e)}]
    BY <1>1, <1>4 DEF Dispatch, SkipChannel, Branch, SetEngine
  <2>2. Advanced(e) \in EngineStates /\ Advanced(e).msg = engine[e].msg
    BY <1>4, AdvancedType DEF Dispatch, SkipChannel, Branch, AtStep
  <2>3. engine'[e].msg = engine[e].msg
    BY <2>1, <2>2 DEF EngineStates
  <2> QED BY <2>3
<1>5. CASE Pause(e) \/ Complete(e) \/ Fail(e)
  <2>1. ASSUME NEW write, NEW i, WriteRun(e, write, i)
        PROVE  engine'[e].msg = engine[e].msg
    <3>1. engine'[e] = [engine[e] EXCEPT !.pc = "commit", !.write = write, !.i = i]
      BY <1>1, <2>1 DEF WriteRun, SetEngine
    <3> QED BY <1>1, <3>1 DEF EngineStates
  <2> QED BY <1>5, <2>1 DEF Pause, Complete, Fail
<1>6. CASE Commit(e) \/ Ack(e) \/ Nak(e) \/ EngineFault(e)
  <2>1. \/ engine'[e] = Failed(e) \/ engine'[e] = Idle
        \/ \E pc \in {"ack", "nak"} :
             engine'[e] = [Idle EXCEPT !.pc = pc, !.msg = engine[e].msg]
    BY <1>1, <1>6 DEF Commit, CommitTo, CommitUnknown, Ack, Nak, EngineFault, DispatchFails,
                      RollBack, Crash, SetEngine
  <2>2. \A pc : [Idle EXCEPT !.pc = pc, !.msg = engine[e].msg].msg = engine[e].msg
    BY DEF Idle
  <2>3. Failed(e).msg = engine[e].msg /\ Idle.msg = Nobody
    BY FailedType, IdleFacts
  <2> QED BY <1>2, <2>1, <2>2, <2>3
<1> QED BY <1>3, <1>4, <1>5, <1>6, EngineMoves DEF Work

\* EventsAreAccepted is inductive: only AcceptEvent publishes events.
LEMMA AcceptedNext ==
  ASSUME StructInv, EventsAreAccepted, [Next]_vars
  PROVE  EventsAreAccepted'
<1> SUFFICES ASSUME NEW ev \in Events, Exists(Trigger(ev))' PROVE ev \in accepted'
  BY DEF EventsAreAccepted
<1>1. accepted \subseteq accepted'
  BY DEF Next, vars, ghosts, AcceptEvent, UpdateWorkflow, SwitchWorkflow, Elapse, Deliver,
         Redeliver, Handle, StartRun, IgnoreEvent, ResumeRun, SkipResume, Work,
         Dispatch, SkipChannel, Branch, Pause, Complete, Fail, WriteRun, Commit,
         CommitTo, Ack, Nak, EngineFault, DispatchFails, RollBack, CommitUnknown, Crash,
         Tick, Scan, Clear, Publish, CommitTick, SchedulerFault, PublishFails, AbortTick
<1>2. ASSUME Trigger(ev) \in stream' PROVE ev \in accepted' \/ Exists(Trigger(ev))
  <2>1. ASSUME NEW x \in Events, AcceptEvent(x) PROVE ev \in accepted' \/ Trigger(ev) \in stream
    BY <1>2, <2>1 DEF AcceptEvent, Trigger
  <2>2. ASSUME NEW s \in Schedulers, Publish(s) PROVE Trigger(ev) \in stream
    BY <1>2, <2>2, TriggersAreNotResumes DEF Publish
  <2>3. ASSUME ~ (\E x \in Events : AcceptEvent(x)), ~ (\E s \in Schedulers : Publish(s))
        PROVE  stream' \subseteq stream
    BY <2>3
    DEF Next, vars, UpdateWorkflow, SwitchWorkflow, Elapse, Deliver,
        Redeliver, Handle, StartRun, IgnoreEvent, ResumeRun, SkipResume, Work,
        Dispatch, SkipChannel, Branch, Pause, Complete, Fail, WriteRun, Commit,
        CommitTo, Ack, Nak, EngineFault, DispatchFails, RollBack, CommitUnknown, Crash,
        Tick, Scan, Clear, CommitTick, SchedulerFault, PublishFails, AbortTick
  <2> QED BY <1>2, <2>1, <2>2, <2>3 DEF Exists
<1>3. ASSUME NEW e \in Engines, Trigger(ev) \in inbox'[e] PROVE Exists(Trigger(ev))
  <2>1. inbox \in [Engines -> SUBSET Messages]
    BY DEF StructInv, TypeOK
  <2>2. CASE \E f \in Engines, m \in Messages : Deliver(f, m) \/ Redeliver(f, m)
    BY <1>3, <2>1, <2>2 DEF Deliver, Redeliver, Exists
  <2>3. CASE ~ \E f \in Engines, m \in Messages : Deliver(f, m) \/ Redeliver(f, m)
    <3>1. \/ inbox' = inbox
          \/ \E f \in Engines : \/ \E m : Take(f, m)
                              \/ inbox' = [inbox EXCEPT ![f] = {}]
      BY <2>3
      DEF Next, vars, AcceptEvent, UpdateWorkflow, SwitchWorkflow, Elapse,
          Handle, StartRun, IgnoreEvent, ResumeRun, SkipResume, Work,
          Dispatch, SkipChannel, Branch, Pause, Complete, Fail, WriteRun, Commit,
          CommitTo, Ack, Nak, EngineFault, DispatchFails, RollBack, CommitUnknown, Crash,
          Tick, Scan, Clear, Publish, CommitTick, SchedulerFault, PublishFails, AbortTick
    <3>2. inbox'[e] \subseteq inbox[e]
      BY <2>1, <3>1 DEF Take
    <3> QED BY <1>3, <3>2 DEF Exists
  <2> QED BY <2>2, <2>3
<1>4. ASSUME NEW e \in Engines, engine'[e].msg = Trigger(ev) PROVE Exists(Trigger(ev))
  BY <1>4, TriggerTaken DEF Exists
<1>5. ev \in accepted' \/ Exists(Trigger(ev))
  BY <1>2, <1>3, <1>4 DEF Exists
<1> QED BY <1>1, <1>5 DEF EventsAreAccepted

-----------------------------------------------------------------------------
(* Every step is a step of RunLifecycle, or leaves what it promises alone.    *)

\* What RunLifecycle sees of the tables and of the stream.
Pending == {ev \in Events : Trigger(ev) \in stream}
StatusOf == [r \in Runs |-> runs[r].status]
EventsOf == [r \in Runs |-> runs[r].event]
Seen == <<accepted, Pending, unmatched, StatusOf, EventsOf, edits > 0>>

RefInv == StructInv /\ KeptInv /\ FateInv /\ EventsAreAccepted

\* A commit records a run, ends one, or notes that no workflow matched.
LEMMA CommitRefines ==
  ASSUME RefInv, [Next]_vars, NEW e \in Engines, NEW pc \in {"ack", "nak"}, CommitTo(e, pc)
  PROVE  Lifecycle!Next \/ UNCHANGED Seen
<1>1. /\ StructInv /\ engine[e] \in EngineStates /\ runs \in [Runs -> RunRows]
      /\ edits \in Nat
  BY BoundsAssumption DEF RefInv, StructInv, TypeOK
<1>2. UNCHANGED <<accepted, Pending, edits>>
  BY DEF CommitTo, Pending
<1>3. ASSUME engine[e].msg \in Triggers
      PROVE  engine[e].msg.event \in Events /\ engine[e].msg.event \in accepted
  <2>1. PICK ev \in Events : engine[e].msg = Trigger(ev)
    BY <1>3 DEF Triggers
  <2>2. ev \in accepted
    BY <2>1 DEF RefInv, EventsAreAccepted, Exists
  <2> QED BY <2>1, <2>2 DEF Trigger
<1>4. CASE engine[e].run = Nobody
  <2>1. runs' = runs
    BY <1>4 DEF CommitTo
  <2>2. CASE engine[e].msg \in Triggers
    <3>1. unmatched' = unmatched \cup {engine[e].msg.event}
      BY <1>4, <2>2 DEF CommitTo
    <3>2. Lifecycle!Ignore(engine[e].msg.event)
      BY <1>2, <1>3, <2>1, <2>2, <3>1 DEF Lifecycle!Ignore, Pending
    <3> QED BY <1>3, <2>2, <3>2 DEF Lifecycle!Next
  <2>3. CASE engine[e].msg \notin Triggers
    <3>1. unmatched' = unmatched
      BY <2>3 DEF CommitTo
    <3> QED BY <1>2, <2>1, <3>1 DEF Seen, StatusOf, EventsOf
  <2> QED BY <2>2, <2>3
<1>5. CASE engine[e].run # Nobody
  <2> PICK r \in Runs, ev \in Events : r = engine[e].run /\ ev = EventOf(e)
    BY <1>1, <1>5, EventOfEngine
  <2> DEFINE s == runs'[r].status
  <2>1. /\ runs' \in [Runs -> RunRows]
        /\ \A q \in Runs : q # r => runs'[q] = runs[q]
        /\ runs'[r].event = ev
        /\ s \in {"running", "completed", "failed"}
    BY <1>1, <1>5, CommittedRows DEF EventOf, RunRows, Statuses
  <2>2. unmatched' = unmatched
    BY <1>5 DEF CommitTo
  <2>3. StatusOf' = [StatusOf EXCEPT ![r] = s]
    BY <2>1 DEF StatusOf
  <2>4. CASE engine[e].created
    <3>1. engine[e].msg \in Triggers /\ engine[e].msg.event = ev
      BY <1>1, <1>5, <2>4, EngineFacts DEF EventOf
    <3>2. runs[r].status = "absent" /\ ev \in accepted
      BY <1>1, <1>3, <2>4, <3>1, EngineFacts
    <3>3. EventsOf' = [EventsOf EXCEPT ![r] = ev]
      BY <2>1 DEF EventsOf
    <3> HIDE DEF s
    <3>4. Lifecycle!Start(r, ev)
      BY <1>2, <2>1, <2>2, <2>3, <3>2, <3>3
      DEF Lifecycle!Start, Lifecycle!Ended, Pending, StatusOf, EventsOf
    <3> QED BY <3>4 DEF Lifecycle!Next
  <2>5. CASE ~engine[e].created
    <3>1. runs[r].status \in {"running", "completed", "failed"} /\ runs[r].event = ev
      BY <1>1, <1>5, <2>1, <2>5, EventOfEngine DEF RunRows, Statuses
    <3>2. EventsOf' = EventsOf
      BY <2>1, <3>1 DEF EventsOf
    <3>3. CASE s = runs[r].status
      <4>1. StatusOf' = StatusOf
        BY <2>1, <3>3 DEF StatusOf
      <4> QED BY <1>2, <2>2, <3>2, <4>1 DEF Seen
    <3>4. CASE s # runs[r].status
      <4>1. runs[r].status \in {"completed", "failed"} => edits > 0 /\ s \in {"completed", "failed"}
        BY <1>1, <1>5, <2>1, <3>4, CommitFits, EndedStaysEnded DEF RefInv
      <4>2. s \in {"completed", "failed"}
        BY <2>1, <3>1, <3>4, <4>1
      <4> HIDE DEF s
      <4>3. Lifecycle!End(r)
        BY <1>2, <2>1, <2>2, <2>3, <3>1, <3>2, <4>1, <4>2
        DEF Lifecycle!End, Lifecycle!Ended, Pending, StatusOf, EventsOf
      <4> QED BY <4>3 DEF Lifecycle!Next
    <3> QED BY <3>3, <3>4
  <2> QED BY <2>4, <2>5
<1> QED BY <1>4, <1>5

\* An acknowledgement settles an event, which has been handled.
LEMMA AckRefines ==
  ASSUME RefInv, NEW e \in Engines, Ack(e)
  PROVE  Lifecycle!Next \/ UNCHANGED Seen
<1>1. stream' = stream \ {engine[e].msg} /\ engine[e].pc = "ack"
  BY DEF Ack
<1>2. UNCHANGED <<accepted, unmatched, StatusOf, EventsOf, edits>>
  BY DEF Ack, tables, ghosts, StatusOf, EventsOf
<1>3. CASE \E ev \in Events : engine[e].msg = Trigger(ev) /\ Trigger(ev) \in stream
  <2> PICK ev \in Events : engine[e].msg = Trigger(ev) /\ Trigger(ev) \in stream
    BY <1>3
  <2>1. ev \in unmatched \/ \E r \in Runs : runs[r].event = ev
    BY <1>1 DEF RefInv, KeptInv
  <2>2. Pending' = Pending \ {ev} /\ ev \in Pending
    BY <1>1 DEF Pending, Trigger
  <2>3. Lifecycle!Settle(ev)
    BY <1>2, <2>1, <2>2 DEF Lifecycle!Settle, Pending, StatusOf, EventsOf
  <2> QED BY <2>3 DEF Lifecycle!Next
<1>4. CASE ~ \E ev \in Events : engine[e].msg = Trigger(ev) /\ Trigger(ev) \in stream
  <2>1. Pending' = Pending
    BY <1>1, <1>4 DEF Pending
  <2> QED BY <1>2, <2>1 DEF Seen
<1> QED BY <1>3, <1>4

\* Every other step: operators change the workflow, clients post events, and
\* whatever else engines, schedulers and the clock do is out of sight.
LEMMA LifecycleNext ==
  ASSUME RefInv, [Next]_vars
  PROVE  Lifecycle!Next \/ UNCHANGED Seen
<1>1. /\ StructInv /\ runs \in [Runs -> RunRows] /\ edits \in Nat
  BY BoundsAssumption DEF RefInv, StructInv, TypeOK
<1>2. ASSUME NEW ev \in Events, AcceptEvent(ev) PROVE Lifecycle!Next
  <2>1. Pending' = Pending \cup {ev}
    BY <1>2 DEF AcceptEvent, Pending, Trigger
  <2>2. Lifecycle!Accept(ev)
    BY <1>2, <2>1 DEF AcceptEvent, Lifecycle!Accept, Pending, tables
  <2> QED BY <2>2 DEF Lifecycle!Next
<1>3. ASSUME (\E v \in Versions : UpdateWorkflow(v)) \/ SwitchWorkflow PROVE Lifecycle!Next
  <2>1. edits' > 0 /\ UNCHANGED <<stream, tables, ghosts>>
    BY <1>1, <1>3 DEF UpdateWorkflow, SwitchWorkflow, Edit
  <2>2. Lifecycle!Change
    BY <2>1 DEF Lifecycle!Change, tables, ghosts
  <2> QED BY <2>2 DEF Lifecycle!Next
<1>4. CASE \E e \in Engines : CommitTo(e, "ack") \/ CommitTo(e, "nak")
  BY <1>4, CommitRefines
<1>5. CASE \E e \in Engines : Ack(e)
  BY <1>5, AckRefines
<1>6. CASE /\ ~ \E ev \in Events : AcceptEvent(ev)
           /\ ~ ((\E v \in Versions : UpdateWorkflow(v)) \/ SwitchWorkflow)
           /\ ~ \E e \in Engines : CommitTo(e, "ack") \/ CommitTo(e, "nak")
           /\ ~ \E e \in Engines : Ack(e)
  <2>1. UNCHANGED <<accepted, unmatched, edits>>
    BY <1>6
    DEF Next, vars, ghosts, Elapse, Deliver,
        Redeliver, Handle, StartRun, IgnoreEvent, ResumeRun, SkipResume, Work,
        Dispatch, SkipChannel, Branch, Pause, Complete, Fail, WriteRun, Commit,
        Nak, EngineFault, DispatchFails, RollBack, CommitUnknown, Crash,
        Tick, Scan, Clear, Publish, CommitTick, SchedulerFault, PublishFails, AbortTick
  <2>2. Pending' = Pending
    <3>1. ASSUME NEW s \in Schedulers, Publish(s) PROVE Pending' = Pending
      BY <3>1, TriggersAreNotResumes DEF Publish, Pending
    <3>2. ASSUME ~ \E s \in Schedulers : Publish(s) PROVE stream' = stream
      BY <1>6, <3>2
      DEF Next, vars, Elapse, Deliver,
          Redeliver, Handle, StartRun, IgnoreEvent, ResumeRun, SkipResume, Work,
          Dispatch, SkipChannel, Branch, Pause, Complete, Fail, WriteRun, Commit,
          Nak, EngineFault, DispatchFails, RollBack, CommitUnknown, Crash,
          Tick, Scan, Clear, CommitTick, SchedulerFault, PublishFails, AbortTick
    <3> QED BY <3>1, <3>2 DEF Pending
  <2>3. StatusOf' = StatusOf /\ EventsOf' = EventsOf
    <3>1. ASSUME (\E q \in Runs : Elapse(q)) \/ (\E s \in Schedulers : CommitTick(s)),
                 NEW r \in Runs
          PROVE  runs'[r].status = runs[r].status /\ runs'[r].event = runs[r].event
      BY <1>1, <3>1 DEF Elapse, CommitTick, RunRows
    <3> QED BY <1>6, <3>1, RowsChange DEF StatusOf, EventsOf
  <2> QED BY <2>1, <2>2, <2>3 DEF Seen
<1> QED BY <1>2, <1>3, <1>4, <1>5, <1>6

\* Init: no event, no run, no message.
LEMMA LifecycleInit == Init => RefInv /\ Lifecycle!Init
<1> SUFFICES ASSUME Init PROVE RefInv /\ Lifecycle!Init
  OBVIOUS
<1>1. /\ \A e \in Engines : /\ engine[e].pc = "idle" /\ engine[e].run = Nobody
                             /\ engine[e].msg = Nobody /\ inbox[e] = {}
      /\ stream = {} /\ accepted = {} /\ unmatched = {} /\ edits = 0
      /\ \A r \in Runs : runs[r].status = "absent" /\ runs[r].event = Nobody
  BY DEF Init, Idle, NoRow
<1>2. KeptInv
  BY <1>1 DEF KeptInv, AcceptedEventsKept
<1>3. FateInv
  BY <1>1 DEF FateInv, Init
<1>4. EventsAreAccepted
  <2>1. \A ev \in Events : Trigger(ev) # Nobody
    BY NobodyAssumption DEF Messages, Triggers
  <2> QED BY <1>1, <2>1 DEF EventsAreAccepted, Exists
<1>5. Lifecycle!Init
  BY <1>1 DEF Lifecycle!Init
<1> QED BY <1>2, <1>3, <1>4, <1>5, StructInit DEF RefInv

\* The invariant that the step lemmas use.
LEMMA RefInvNext == RefInv /\ [Next]_vars => RefInv'
BY StructNext, KeptNext, FateNext, AcceptedNext DEF RefInv

\* The engines, the scheduler and the stream implement the life that events and
\* runs are promised: no event is dropped, no run appears without an accepted
\* event, none is running again after its end and, while nobody edits the
\* workflow, none that failed is reported completed or the other way round,
\* whatever is crashed, redelivered or handled twice at a time.
THEOREM RunsImplementLifecycle == Spec => ImplementsLifecycle
<1>1. RefInv /\ [Next]_vars => [Lifecycle!Next]_(Lifecycle!vars)
  BY LifecycleNext DEF Seen, Pending, StatusOf, EventsOf, Lifecycle!vars
<1> QED BY <1>1, LifecycleInit, RefInvNext, PTL DEF Spec, ImplementsLifecycle, Lifecycle!Spec

\* While the workflow has its first text a run ends as its event and that text
\* decide: the loop guard of executeFrom fails a run only if its steps do run
\* in a circle, and however often a run is paused, resumed or handled twice it
\* goes the way that one undisturbed walk would go.
THEOREM RunsEndAsDecided == Spec => []FateInv
<1>1. RefInv => FateInv
  BY DEF RefInv
<1> QED BY <1>1, LifecycleInit, RefInvNext, PTL DEF Spec

-----------------------------------------------------------------------------
(* Repeats.  Whatever may yet bring a run to an engine is counted: the copies *)
(* of its resume messages, the transactions that walk it, and a resume_at    *)
(* that no tick has published for; the same for an event.  A step of the     *)
(* system hands one on, and only a fault makes one more.                     *)

\* An engine whose message has not been handled yet.
Working == {"walk", "commit", "nak"}

\* The copies of the messages M that are on their way to a handler or in one.
Held(M) ==
  {t \in {"inbox"} \X Engines \X M : t[3] \in inbox[t[2]]}
  \cup {t \in {"work"} \X Engines \X M : /\ engine[t[2]].msg = t[3]
                                         /\ engine[t[2]].pc \in Working}
  \cup {t \in {"stream"} \X {Nobody} \X M : t[3] \in stream /\ ~Outstanding(t[3])}

\* The resume messages for run r.
ResumesOf(r) == {m \in Resumes : m.run = r}

\* Run r has a resume_at and no tick has published a message for it.
Owed(r) == /\ runs[r].resume # "none"
           /\ \A s \in Schedulers : r \notin scheduler[s].cleared \ {scheduler[s].clearing}

\* Run r as a new run in a transaction, and as a row to be woken up.
RunRest(r) ==
  {t \in {"new"} \X Engines \X {r} : engine[t[2]].created /\ engine[t[2]].run = r}
  \cup {t \in {"row"} \X {Nobody} \X {r} : Owed(r)}

\* What may bring run r to an engine.
RunTokens(r) == Held(ResumesOf(r)) \cup RunRest(r)

\* The runs of event ev.
EventRest(ev) == {t \in {"run"} \X Runs \X {Nobody} : runs[t[2]].event = ev}

\* What has become of event ev, or may yet.
EventTokens(ev) == Held({Trigger(ev)}) \cup EventRest(ev)

\* T is finite and has at most k elements.
AtMost(T, k) == IsFiniteSet(T) /\ Cardinality(T) <= k

\* Both are there once, and once more for each fault.
RunsCounted == \A r \in Runs : AtMost(RunTokens(r), 1 + faults)
EventsCounted == \A ev \in Events : AtMost(EventTokens(ev), 1 + faults)

\* An idle engine has nothing; a run belongs to an accepted event.
IdleInv == \A e \in Engines : engine[e].pc = "idle" => engine[e].msg = Nobody
AcceptedRuns == \A r \in Runs : runs[r].event # Nobody => runs[r].event \in accepted

\* Nobody takes the resume_at of a run from the scheduler that selected it.
TickInv ==
  \A s \in Schedulers :
    /\ ~scheduler[s].open => scheduler[s] = Asleep
    /\ scheduler[s].due \cap scheduler[s].cleared = {}
    /\ \A r \in scheduler[s].due \cup scheduler[s].cleared :
         /\ runs[r].resume # "none"
         /\ faults = 0 => runs[r].resume = "due"

\* The scheduler of the deployment.
OneScheduler == \A s, t \in Schedulers : s = t

-----------------------------------------------------------------------------
\* Handing on: what becomes of the number of tokens in one step.
LEMMA TokensCount ==
  ASSUME NEW T, IsFiniteSet(T), NEW U, NEW k \in Nat, Cardinality(T) <= k
  PROVE  /\ U \subseteq T => IsFiniteSet(U) /\ Cardinality(U) <= k
         /\ \A a \in T : \A b : U \subseteq (T \ {a}) \cup {b} =>
              IsFiniteSet(U) /\ Cardinality(U) <= k
         /\ \A b : U \subseteq T \cup {b} => IsFiniteSet(U) /\ Cardinality(U) <= k + 1
<1>0. Cardinality(T) \in Nat
  BY FS_CardinalityType
<1>1. ASSUME U \subseteq T PROVE IsFiniteSet(U) /\ Cardinality(U) <= k
  <2>1. IsFiniteSet(U) /\ Cardinality(U) <= Cardinality(T)
    BY <1>1, FS_Subset
  <2> QED BY <1>0, <2>1, FS_CardinalityType
<1>2. ASSUME NEW a \in T, NEW b, U \subseteq (T \ {a}) \cup {b}
      PROVE  IsFiniteSet(U) /\ Cardinality(U) <= k
  <2> DEFINE D == T \ {a}
  <2>1. IsFiniteSet(D) /\ Cardinality(D) = Cardinality(T) - 1
    BY FS_RemoveElement
  <2>2. Cardinality(D) \in Nat
    BY <2>1, FS_CardinalityType
  <2> HIDE DEF D
  <2>3. IsFiniteSet(D \cup {b}) /\ Cardinality(D \cup {b}) <= Cardinality(D) + 1
    <3>1. IsFiniteSet(D \cup {b})
          /\ Cardinality(D \cup {b}) = IF b \in D THEN Cardinality(D) ELSE Cardinality(D) + 1
      BY <2>1, FS_AddElement
    <3> QED BY <2>2, <3>1
  <2>4. U \in SUBSET (D \cup {b})
    BY <1>2 DEF D
  <2>5. IsFiniteSet(U) /\ Cardinality(U) <= Cardinality(D \cup {b})
    BY <2>3, <2>4, FS_Subset
  <2>6. Cardinality(U) \in Nat /\ Cardinality(D \cup {b}) \in Nat
    BY <2>3, <2>5, FS_CardinalityType
  <2> QED BY <1>0, <2>1, <2>2, <2>3, <2>5, <2>6
<1>3. ASSUME NEW b PROVE /\ IsFiniteSet(T \cup {b}) /\ Cardinality(T \cup {b}) \in Nat
                         /\ Cardinality(T \cup {b}) <= k + 1
  <2>1. IsFiniteSet(T \cup {b})
        /\ Cardinality(T \cup {b}) = IF b \in T THEN Cardinality(T) ELSE Cardinality(T) + 1
    BY FS_AddElement
  <2> QED BY <1>0, <2>1
<1>4. ASSUME NEW b, U \subseteq T \cup {b} PROVE IsFiniteSet(U) /\ Cardinality(U) <= k + 1
  <2>1. IsFiniteSet(U) /\ Cardinality(U) <= Cardinality(T \cup {b})
    BY <1>3, <1>4, FS_Subset
  <2>2. Cardinality(U) \in Nat
    BY <2>1, FS_CardinalityType
  <2>3. Cardinality(T \cup {b}) \in Nat /\ Cardinality(T \cup {b}) <= k + 1
    BY <1>3
  <2> QED BY <2>1, <2>2, <2>3
<1> QED BY <1>1, <1>2, <1>4

-----------------------------------------------------------------------------
\* What a token stands for, before and after a step.
LEMMA HeldElements ==
  ASSUME NEW M
  PROVE  /\ \A t \in Held(M) : \E m \in M :
              \/ t = <<"stream", Nobody, m>>
              \/ \E e \in Engines : t = <<"inbox", e, m>> \/ t = <<"work", e, m>>
         /\ \A e \in Engines, m \in M :
              /\ <<"inbox", e, m>> \in Held(M) <=> m \in inbox[e]
              /\ <<"work", e, m>> \in Held(M) <=>
                   engine[e].msg = m /\ engine[e].pc \in Working
         /\ \A m \in M : <<"stream", Nobody, m>> \in Held(M) <=>
                           m \in stream /\ ~Outstanding(m)
BY DEF Held

\* The same after a step.
LEMMA HeldElementsNext ==
  ASSUME NEW M
  PROVE  /\ \A t \in Held(M)' : \E m \in M :
              \/ t = <<"stream", Nobody, m>>
              \/ \E e \in Engines : t = <<"inbox", e, m>> \/ t = <<"work", e, m>>
         /\ \A e \in Engines, m \in M :
              /\ <<"inbox", e, m>> \in Held(M)' <=> m \in inbox'[e]
              /\ <<"work", e, m>> \in Held(M)' <=>
                   engine'[e].msg = m /\ engine'[e].pc \in Working
         /\ \A m \in M : <<"stream", Nobody, m>> \in Held(M)' <=>
                           m \in stream' /\ ~Outstanding(m)'
BY DEF Held

\* Held has nothing but what its definition names, after a step.
LEMMA HeldWithin ==
  ASSUME NEW M, NEW S,
         \A m \in M : <<"stream", Nobody, m>> \in Held(M)' => <<"stream", Nobody, m>> \in S,
         \A m \in M, e \in Engines :
           /\ <<"inbox", e, m>> \in Held(M)' => <<"inbox", e, m>> \in S
           /\ <<"work", e, m>> \in Held(M)' => <<"work", e, m>> \in S
  PROVE  Held(M)' \subseteq S
<1> SUFFICES ASSUME NEW t \in Held(M)' PROVE t \in S
  OBVIOUS
<1>1. PICK m \in M : \/ t = <<"stream", Nobody, m>>
                     \/ \E e \in Engines : t = <<"inbox", e, m>> \/ t = <<"work", e, m>>
  BY HeldElementsNext
<1> QED BY <1>1

\* The messages stay where they are.
LEMMA HeldStays ==
  ASSUME NEW M, stream' = stream, inbox' = inbox, engine' = engine
  PROVE  Held(M)' = Held(M)
BY DEF Held, Outstanding

\* An engine goes on with its message, acknowledges it or is done with it.
LEMMA HeldByEngine ==
  ASSUME NEW M, NEW e \in Engines, inbox' = inbox, Nobody \notin M,
         \A f \in Engines : f # e => engine'[f] = engine[f],
         \/ /\ stream' = stream /\ engine'[e].msg = engine[e].msg
            /\ engine'[e].pc \in Working => engine[e].pc \in Working
         \/ /\ stream' = stream \ {engine[e].msg} /\ engine'[e].msg = Nobody
  PROVE  /\ Held(M)' \subseteq Held(M)
         /\ engine'[e].pc \notin Working => \A m : <<"work", e, m>> \notin Held(M)'
<1>1. ASSUME NEW m \in M, NEW f \in Engines
      PROVE  /\ <<"inbox", f, m>> \in Held(M)' => <<"inbox", f, m>> \in Held(M)
             /\ <<"work", f, m>> \in Held(M)' => <<"work", f, m>> \in Held(M)
  BY HeldElements, HeldElementsNext
<1>2. ASSUME NEW m \in M, <<"stream", Nobody, m>> \in Held(M)'
      PROVE  <<"stream", Nobody, m>> \in Held(M)
  <2>1. m \in stream' /\ \A f \in Engines : m \notin inbox'[f] /\ engine'[f].msg # m
    BY <1>2, HeldElementsNext DEF Outstanding
  <2>2. m \in stream /\ \A f \in Engines : m \notin inbox[f] /\ engine[f].msg # m
    BY <2>1
  <2> QED BY <2>2, HeldElements DEF Outstanding
<1>3. Held(M)' \subseteq Held(M)
  BY <1>1, <1>2, HeldWithin
<1>4. ASSUME engine'[e].pc \notin Working, NEW m PROVE <<"work", e, m>> \notin Held(M)'
  BY <1>4 DEF Held
<1> QED BY <1>3, <1>4

\* An engine takes a message that was delivered to it.
LEMMA HeldTaken ==
  ASSUME NEW M, NEW e \in Engines, NEW m, Take(e, m), stream' = stream, IdleInv,
         inbox \in [Engines -> SUBSET Messages], Nobody \notin M,
         \A f \in Engines : f # e => engine'[f] = engine[f],
         engine'[e].msg = m
  PROVE  /\ m \notin M => Held(M)' \subseteq Held(M)
         /\ m \in M => /\ <<"inbox", e, m>> \in Held(M)
                       /\ Held(M)' \subseteq
                            (Held(M) \ {<<"inbox", e, m>>}) \cup {<<"work", e, m>>}
<1>1. /\ engine[e].pc = "idle" /\ engine[e].msg = Nobody /\ m \in inbox[e]
      /\ inbox'[e] = inbox[e] \ {m} /\ \A f \in Engines : f # e => inbox'[f] = inbox[f]
  BY DEF Take, IdleInv
<1>2. ASSUME NEW n \in M, <<"stream", Nobody, n>> \in Held(M)'
      PROVE  <<"stream", Nobody, n>> \in Held(M)
  <2>1. n \in stream' /\ \A f \in Engines : n \notin inbox'[f] /\ engine'[f].msg # n
    BY <1>2, HeldElementsNext DEF Outstanding
  <2>2. n \in stream /\ \A f \in Engines : n \notin inbox[f] /\ engine[f].msg # n
    BY <1>1, <2>1
  <2> QED BY <2>2, HeldElements DEF Outstanding
<1>3. ASSUME NEW n \in M, NEW f \in Engines
      PROVE  /\ <<"inbox", f, n>> \in Held(M)' =>
                  <<"inbox", f, n>> \in Held(M) /\ <<f, n>> # <<e, m>>
             /\ <<"work", f, n>> \in Held(M)' =>
                  <<"work", f, n>> \in Held(M) \/ (n = m /\ f = e)
  BY <1>1, HeldElements, HeldElementsNext
<1>4. /\ m \notin M => Held(M)' \subseteq Held(M)
      /\ m \in M => Held(M)' \subseteq (Held(M) \ {<<"inbox", e, m>>}) \cup {<<"work", e, m>>}
  <2> DEFINE S == (Held(M) \ {<<"inbox", e, m>>}) \cup {<<"work", e, m>>}
  <2>1. ASSUME m \notin M PROVE Held(M)' \subseteq Held(M)
    BY <1>2, <1>3, <2>1, HeldWithin
  <2>2. Held(M)' \subseteq S
    <3>1. \A n \in M : <<"stream", Nobody, n>> \in Held(M)' => <<"stream", Nobody, n>> \in S
      BY <1>2
    <3>2. \A n \in M, f \in Engines :
            /\ <<"inbox", f, n>> \in Held(M)' => <<"inbox", f, n>> \in S
            /\ <<"work", f, n>> \in Held(M)' => <<"work", f, n>> \in S
      BY <1>3
    <3> HIDE DEF S
    <3> QED BY <3>1, <3>2, HeldWithin
  <2> QED BY <2>1, <2>2
<1>5. m \in M => <<"inbox", e, m>> \in Held(M)
  BY <1>1, HeldElements
<1> QED BY <1>4, <1>5

\* An engine refuses its message, which is in the stream or not any more.
LEMMA HeldRefused ==
  ASSUME NEW M, NEW e \in Engines, inbox' = inbox, stream' = stream,
         Nobody \notin M, engine[e].pc \in Working, engine'[e].msg = Nobody,
         \A f \in Engines : f # e => engine'[f] = engine[f]
  PROVE  LET m == engine[e].msg
         IN  /\ m \notin M => Held(M)' \subseteq Held(M)
             /\ m \in M => /\ <<"work", e, m>> \in Held(M)
                           /\ Held(M)' \subseteq
                                (Held(M) \ {<<"work", e, m>>}) \cup {<<"stream", Nobody, m>>}
<1> DEFINE m == engine[e].msg
<1>1. ASSUME NEW n \in M, <<"stream", Nobody, n>> \in Held(M)'
      PROVE  <<"stream", Nobody, n>> \in Held(M) \/ n = m
  <2>1. n \in stream' /\ \A f \in Engines : n \notin inbox'[f] /\ engine'[f].msg # n
    BY <1>1, HeldElementsNext DEF Outstanding
  <2>2. n # m => n \in stream /\ \A f \in Engines : n \notin inbox[f] /\ engine[f].msg # n
    BY <2>1
  <2> QED BY <2>2, HeldElements DEF Outstanding
<1>2. ASSUME NEW n \in M, NEW f \in Engines
      PROVE  /\ <<"inbox", f, n>> \in Held(M)' => <<"inbox", f, n>> \in Held(M)
             /\ <<"work", f, n>> \in Held(M)' =>
                  <<"work", f, n>> \in Held(M) /\ f # e
  BY HeldElements, HeldElementsNext
<1>3. /\ m \notin M => Held(M)' \subseteq Held(M)
      /\ m \in M => Held(M)' \subseteq (Held(M) \ {<<"work", e, m>>}) \cup {<<"stream", Nobody, m>>}
  <2> DEFINE S == (Held(M) \ {<<"work", e, m>>}) \cup {<<"stream", Nobody, m>>}
  <2>1. ASSUME m \notin M PROVE Held(M)' \subseteq Held(M)
    BY <1>1, <1>2, <2>1, HeldWithin
  <2>2. Held(M)' \subseteq S
    <3>1. \A n \in M : <<"stream", Nobody, n>> \in Held(M)' => <<"stream", Nobody, n>> \in S
      BY <1>1
    <3>2. \A n \in M, f \in Engines :
            /\ <<"inbox", f, n>> \in Held(M)' => <<"inbox", f, n>> \in S
            /\ <<"work", f, n>> \in Held(M)' => <<"work", f, n>> \in S
      BY <1>2
    <3> HIDE DEF S
    <3> QED BY <3>1, <3>2, HeldWithin
  <2> QED BY <2>1, <2>2
<1>4. m \in M => <<"work", e, m>> \in Held(M)
  BY HeldElements
<1> QED BY <1>3, <1>4

\* A process dies: what was delivered to it is in the stream again.
LEMMA HeldByCrash ==
  ASSUME NEW M, NEW e \in Engines, Nobody \notin M, stream' = stream,
         inbox'[e] = {}, engine'[e].msg = Nobody,
         \A f \in Engines : f # e => engine'[f] = engine[f] /\ inbox'[f] = inbox[f]
  PROVE  \A t \in Held(M)' :
           \/ t \in Held(M) /\ t[2] # e
           \/ \E m \in M : /\ t = <<"stream", Nobody, m>>
                           /\ \/ t \in Held(M)
                              \/ <<"inbox", e, m>> \in Held(M) \/ m = engine[e].msg
<1> DEFINE S == {t \in Held(M) : t[2] # e}
                \cup {t \in {"stream"} \X {Nobody} \X M :
                        \/ t \in Held(M)
                        \/ <<"inbox", e, t[3]>> \in Held(M) \/ t[3] = engine[e].msg}
<1>1. ASSUME NEW n \in M, <<"stream", Nobody, n>> \in Held(M)'
      PROVE  <<"stream", Nobody, n>> \in S
  <2>1. n \in stream' /\ \A f \in Engines : n \notin inbox'[f] /\ engine'[f].msg # n
    BY <1>1, HeldElementsNext DEF Outstanding
  <2>2. \A f \in Engines : f # e => n \notin inbox[f] /\ engine[f].msg # n
    BY <2>1
  <2>3. \/ <<"stream", Nobody, n>> \in Held(M)
        \/ <<"inbox", e, n>> \in Held(M) \/ n = engine[e].msg
    BY <2>1, <2>2, HeldElements DEF Outstanding
  <2> QED BY <2>3
<1>2. ASSUME NEW n \in M, NEW f \in Engines
      PROVE  /\ <<"inbox", f, n>> \in Held(M)' => <<"inbox", f, n>> \in Held(M) /\ f # e
             /\ <<"work", f, n>> \in Held(M)' => <<"work", f, n>> \in Held(M) /\ f # e
  BY HeldElements, HeldElementsNext
<1>3. \A n \in M, f \in Engines :
        /\ <<"inbox", f, n>> \in Held(M)' => <<"inbox", f, n>> \in S
        /\ <<"work", f, n>> \in Held(M)' => <<"work", f, n>> \in S
  BY <1>2
<1>4. Held(M)' \subseteq S
  <2> HIDE DEF S
  <2> QED BY <1>1, <1>3, HeldWithin
<1> SUFFICES ASSUME NEW t \in Held(M)'
             PROVE  \/ t \in Held(M) /\ t[2] # e
                    \/ \E m \in M : /\ t = <<"stream", Nobody, m>>
                                    /\ \/ t \in Held(M)
                                       \/ <<"inbox", e, m>> \in Held(M) \/ m = engine[e].msg
  OBVIOUS
<1>5. CASE t \in {x \in Held(M) : x[2] # e}
  BY <1>5
<1>6. CASE t \in {x \in {"stream"} \X {Nobody} \X M :
                    \/ x \in Held(M)
                    \/ <<"inbox", e, x[3]>> \in Held(M) \/ x[3] = engine[e].msg}
  <2>1. t[3] \in M /\ t = <<"stream", Nobody, t[3]>>
    BY <1>6
  <2> QED BY <1>6, <2>1
<1> QED BY <1>4, <1>5, <1>6

\* A message is delivered: from the stream or, once more, from a slow process.
LEMMA HeldDelivered ==
  ASSUME NEW M, NEW e \in Engines, NEW m, m \in stream,
         stream' = stream, engine' = engine,
         inbox \in [Engines -> SUBSET Messages],
         inbox' = [inbox EXCEPT ![e] = @ \cup {m}]
  PROVE  /\ m \notin M => Held(M)' \subseteq Held(M)
         /\ Held(M)' \subseteq Held(M) \cup {<<"inbox", e, m>>}
         /\ m \in M /\ ~Outstanding(m) =>
              /\ <<"stream", Nobody, m>> \in Held(M)
              /\ Held(M)' \subseteq
                   (Held(M) \ {<<"stream", Nobody, m>>}) \cup {<<"inbox", e, m>>}
<1>1. inbox'[e] = inbox[e] \cup {m} /\ \A f \in Engines : f # e => inbox'[f] = inbox[f]
  OBVIOUS
<1>2. ASSUME NEW n \in M, <<"stream", Nobody, n>> \in Held(M)'
      PROVE  <<"stream", Nobody, n>> \in Held(M) /\ n # m
  <2>1. n \in stream' /\ \A f \in Engines : n \notin inbox'[f] /\ engine'[f].msg # n
    BY <1>2, HeldElementsNext DEF Outstanding
  <2>2. n # m /\ n \in stream /\ \A f \in Engines : n \notin inbox[f] /\ engine[f].msg # n
    BY <1>1, <2>1
  <2> QED BY <2>2, HeldElements DEF Outstanding
<1>3. ASSUME NEW n \in M, NEW f \in Engines
      PROVE  /\ <<"inbox", f, n>> \in Held(M)' =>
                  <<"inbox", f, n>> \in Held(M) \/ (f = e /\ n = m)
             /\ <<"work", f, n>> \in Held(M)' => <<"work", f, n>> \in Held(M)
  BY <1>1, HeldElements, HeldElementsNext
<1> DEFINE S == (Held(M) \ {<<"stream", Nobody, m>>}) \cup {<<"inbox", e, m>>}
<1>4. Held(M)' \subseteq S
  <2>1. \A n \in M : <<"stream", Nobody, n>> \in Held(M)' => <<"stream", Nobody, n>> \in S
    BY <1>2
  <2>2. \A n \in M, f \in Engines :
          /\ <<"inbox", f, n>> \in Held(M)' => <<"inbox", f, n>> \in S
          /\ <<"work", f, n>> \in Held(M)' => <<"work", f, n>> \in S
    BY <1>3
  <2> HIDE DEF S
  <2> QED BY <2>1, <2>2, HeldWithin
<1>5. m \notin M => Held(M)' \subseteq Held(M)
  <2> SUFFICES ASSUME m \notin M PROVE Held(M)' \subseteq Held(M)
    OBVIOUS
  <2> QED BY <1>2, <1>3, HeldWithin
<1>6. m \in M /\ ~Outstanding(m) => <<"stream", Nobody, m>> \in Held(M)
  BY HeldElements
<1> QED BY <1>4, <1>5, <1>6

\* A message is published.
LEMMA HeldPublished ==
  ASSUME NEW M, NEW m, stream' = stream \cup {m}, inbox' = inbox, engine' = engine
  PROVE  /\ m \notin M => Held(M)' \subseteq Held(M)
         /\ Held(M)' \subseteq Held(M) \cup {<<"stream", Nobody, m>>}
<1>1. ASSUME NEW n \in M, <<"stream", Nobody, n>> \in Held(M)'
      PROVE  <<"stream", Nobody, n>> \in Held(M) \/ n = m
  BY <1>1, HeldElements, HeldElementsNext DEF Outstanding
<1>2. ASSUME NEW n \in M, NEW f \in Engines
      PROVE  /\ <<"inbox", f, n>> \in Held(M)' => <<"inbox", f, n>> \in Held(M)
             /\ <<"work", f, n>> \in Held(M)' => <<"work", f, n>> \in Held(M)
  BY HeldElements, HeldElementsNext
<1> DEFINE S == Held(M) \cup {<<"stream", Nobody, m>>}
<1>3. Held(M)' \subseteq S
  <2>1. \A n \in M : <<"stream", Nobody, n>> \in Held(M)' => <<"stream", Nobody, n>> \in S
    BY <1>1
  <2>2. \A n \in M, f \in Engines :
          /\ <<"inbox", f, n>> \in Held(M)' => <<"inbox", f, n>> \in S
          /\ <<"work", f, n>> \in Held(M)' => <<"work", f, n>> \in S
    BY <1>2
  <2> HIDE DEF S
  <2> QED BY <2>1, <2>2, HeldWithin
<1>4. m \notin M => Held(M)' \subseteq Held(M)
  <2> SUFFICES ASSUME m \notin M PROVE Held(M)' \subseteq Held(M)
    OBVIOUS
  <2> QED BY <1>1, <1>2, HeldWithin
<1> QED BY <1>3, <1>4

-----------------------------------------------------------------------------
(* The steps of an engine, as far as its messages and its run go.             *)

\* Handle: the engine takes a message and, but for SkipResume and IgnoreEvent,
\* a run.
LEMMA HandleTakes ==
  ASSUME StructInv, NEW e \in Engines, Handle(e)
  PROVE  /\ \E m \in Messages : Take(e, m) /\ engine'[e].msg = m
         /\ engine'[e].pc \in {"walk", "commit"}
         /\ engine'[e].created =>
              \E ev \in Events, r \in Runs : StartRun(e, ev, r) /\ engine'[e].run = r
         /\ \A f \in Engines : f # e => engine'[f] = engine[f]
         /\ UNCHANGED <<stream, scheduler, tables, jobs, faults, edits, accepted, workflow>>
<1>1. engine \in [Engines -> EngineStates]
  BY DEF StructInv, TypeOK
<1> USE <1>1 DEF SetEngine
<1>2. ASSUME NEW ev \in Events, NEW r \in Runs, StartRun(e, ev, r)
      PROVE  /\ Take(e, Trigger(ev)) /\ engine'[e].msg = Trigger(ev)
             /\ engine'[e].pc = "walk" /\ engine'[e].run = r
             /\ Trigger(ev) \in Messages
  BY <1>2, StatesWellTyped DEF StartRun, Idle
<1>3. ASSUME NEW ev \in Events, IgnoreEvent(e, ev)
      PROVE  /\ Take(e, Trigger(ev)) /\ engine'[e].msg = Trigger(ev)
             /\ engine'[e].pc = "commit" /\ ~engine'[e].created
             /\ Trigger(ev) \in Messages
  BY <1>3, StatesWellTyped DEF IgnoreEvent, Idle
<1>4. ASSUME NEW m \in Resumes, ResumeRun(e, m)
      PROVE  /\ Take(e, m) /\ engine'[e].msg = m /\ engine'[e].pc = "walk"
             /\ ~engine'[e].created /\ m \in Messages
  BY <1>4 DEF ResumeRun, Idle, Messages
<1>5. ASSUME NEW m \in Resumes, SkipResume(e, m)
      PROVE  /\ Take(e, m) /\ engine'[e].msg = m /\ engine'[e].pc = "commit"
             /\ ~engine'[e].created /\ m \in Messages
  BY <1>5 DEF SkipResume, Idle, Messages
<1>6. /\ \A f \in Engines : f # e => engine'[f] = engine[f]
      /\ UNCHANGED <<stream, scheduler, tables, jobs, faults, edits, accepted, workflow>>
  BY DEF Handle, StartRun, IgnoreEvent, ResumeRun, SkipResume, ghosts, tables
<1> QED BY <1>2, <1>3, <1>4, <1>5, <1>6 DEF Handle

\* The walk of executeFrom and the UPDATE that ends it.
LEMMA WalkKeeps ==
  ASSUME StructInv, NEW e \in Engines,
         Dispatch(e) \/ SkipChannel(e) \/ Branch(e) \/ Pause(e) \/ Complete(e) \/ Fail(e)
  PROVE  /\ engine'[e].msg = engine[e].msg /\ engine'[e].run = engine[e].run
         /\ engine'[e].created = engine[e].created
         /\ engine[e].pc = "walk" /\ engine'[e].pc \in {"walk", "commit"}
         /\ \A f \in Engines : f # e => engine'[f] = engine[f]
         /\ UNCHANGED <<stream, inbox, scheduler, runs, faults, edits, accepted, workflow>>
<1>1. engine \in [Engines -> EngineStates]
  BY DEF StructInv, TypeOK
<1> USE <1>1 DEF SetEngine
<1>2. CASE SkipChannel(e) \/ Branch(e) \/ Dispatch(e)
  <2>1. \/ engine'[e] = Advanced(e)
        \/ engine'[e] = [Advanced(e) EXCEPT !.sent = @ \cup {NewNotification(e)}]
    BY <1>2 DEF Dispatch, SkipChannel, Branch
  <2>2. /\ Advanced(e) \in EngineStates /\ Advanced(e).msg = engine[e].msg
        /\ Advanced(e).pc = "walk" /\ Advanced(e).run = engine[e].run
        /\ Advanced(e).created = engine[e].created /\ engine[e].pc = "walk"
    BY <1>2, AdvancedType DEF Dispatch, SkipChannel, Branch, AtStep
  <2>3. /\ engine'[e].msg = engine[e].msg /\ engine'[e].run = engine[e].run
        /\ engine'[e].created = engine[e].created /\ engine'[e].pc = "walk"
    BY <2>1, <2>2 DEF EngineStates
  <2> QED BY <1>2, <2>2, <2>3 DEF Dispatch, SkipChannel, Branch, tables, ghosts
<1>3. CASE Pause(e) \/ Complete(e) \/ Fail(e)
  <2>1. PICK write, i : WriteRun(e, write, i) /\ engine[e].pc = "walk"
    BY <1>3 DEF Pause, Complete, Fail, AtStep
  <2>2. engine'[e] = [engine[e] EXCEPT !.pc = "commit", !.write = write, !.i = i]
    BY <2>1 DEF WriteRun
  <2>3. /\ engine'[e].msg = engine[e].msg /\ engine'[e].run = engine[e].run
        /\ engine'[e].created = engine[e].created /\ engine'[e].pc = "commit"
    BY <2>2 DEF EngineStates
  <2> QED BY <2>1, <2>3 DEF WriteRun, ghosts
<1> QED BY <1>2, <1>3

\* The commit or roll-back of a transaction.
LEMMA EndKeeps ==
  ASSUME StructInv, NEW e \in Engines,
         Commit(e) \/ CommitUnknown(e) \/ RollBack(e) \/ DispatchFails(e)
  PROVE  /\ engine'[e].msg = engine[e].msg /\ engine'[e].run = Nobody
         /\ ~engine'[e].created
         /\ engine[e].pc \in {"walk", "commit"} /\ engine'[e].pc \in {"ack", "nak"}
         /\ Commit(e) => engine'[e].pc = "ack" /\ faults' = faults
         /\ ~Commit(e) => faults' = faults + 1
         /\ \A f \in Engines : f # e => engine'[f] = engine[f]
         /\ UNCHANGED <<stream, inbox, scheduler, edits, accepted, workflow>>
         /\ ~Commit(e) /\ ~CommitUnknown(e) => runs' = runs
<1>1. engine \in [Engines -> EngineStates]
  BY DEF StructInv, TypeOK
<1> USE <1>1 DEF SetEngine
<1>2. ASSUME NEW pc \in {"ack", "nak"}, CommitTo(e, pc)
      PROVE  /\ engine'[e].msg = engine[e].msg /\ engine'[e].run = Nobody
             /\ ~engine'[e].created /\ engine[e].pc = "commit" /\ engine'[e].pc = pc
             /\ \A f \in Engines : f # e => engine'[f] = engine[f]
             /\ UNCHANGED <<stream, inbox, scheduler, edits, accepted, workflow>>
  BY <1>2 DEF CommitTo, Idle
<1>3. CASE RollBack(e) \/ DispatchFails(e)
  <2>1. engine'[e] = Failed(e) /\ engine[e].pc \in {"walk", "commit"}
    BY <1>3 DEF RollBack, DispatchFails, AtStep
  <2>2. ~Commit(e)
    <3>1. Commit(e) => engine'[e].pc = "ack"
      BY <1>2 DEF Commit
    <3> QED BY <2>1, <3>1, FailedType
  <2> QED BY <1>3, <2>1, <2>2, FailedType DEF RollBack, DispatchFails, Fault, ghosts
<1>4. CASE Commit(e)
  BY <1>2, <1>4 DEF Commit
<1>5. CASE CommitUnknown(e)
  <2>1. ~Commit(e)
    BY <1>2, <1>5 DEF Commit, CommitUnknown
  <2> QED BY <1>2, <1>5, <2>1 DEF CommitUnknown, Fault
<1> QED BY <1>3, <1>4, <1>5

\* The answer to the stream, or the death of the process.
LEMMA ReplyKeeps ==
  ASSUME StructInv, NEW e \in Engines, Ack(e) \/ Nak(e) \/ Crash(e)
  PROVE  /\ engine'[e] = Idle
         /\ \A f \in Engines : f # e => engine'[f] = engine[f] /\ inbox'[f] = inbox[f]
         /\ Ack(e) => /\ stream' = stream \ {engine[e].msg} /\ inbox' = inbox
                      /\ faults' = faults
         /\ Nak(e) => /\ stream' = stream /\ inbox' = inbox /\ engine[e].pc = "nak"
                      /\ faults' = faults
         /\ Crash(e) => /\ stream' = stream /\ inbox'[e] = {}
                        /\ faults' = faults + 1
         /\ UNCHANGED <<scheduler, runs, jobs, edits, accepted, workflow>>
BY DEF Ack, Nak, Crash, SetEngine, Fault, StructInv, TypeOK, tables, ghosts

-----------------------------------------------------------------------------
(* How many tokens a step leaves.                                             *)

\* TokensCount in terms of AtMost.
LEMMA AtMostMoves ==
  ASSUME NEW T, NEW U, NEW k \in Nat, AtMost(T, k)
  PROVE  /\ U \subseteq T => AtMost(U, k)
         /\ \A a \in T : \A b : U \subseteq (T \ {a}) \cup {b} => AtMost(U, k)
         /\ \A b : U \subseteq T \cup {b} => AtMost(U, k + 1)
<1>1. IsFiniteSet(T) /\ Cardinality(T) <= k
  BY DEF AtMost
<1> QED BY <1>1, TokensCount DEF AtMost

\* One token is handed on.
LEMMA AtMostMoved ==
  ASSUME NEW T, NEW U, NEW k \in Nat, AtMost(T, k),
         NEW a \in T, NEW b, U \subseteq (T \ {a}) \cup {b}
  PROVE  AtMost(U, k)
BY AtMostMoves

\* The elements of B are renamed, and U has no others.
Renames(f, B, U) == \A y \in U : \E x \in B : y = f[x]

\* Renaming makes no more of them.
LEMMA AtMostRenamed ==
  ASSUME NEW T, NEW U, NEW k \in Nat, AtMost(T, k), NEW f, Renames(f, T, U)
  PROVE  AtMost(U, k)
<1> DEFINE V == {x \in T : f[x] \in U}
           g == [x \in V |-> f[x]]
<1>1. IsFiniteSet(T) /\ Cardinality(T) <= k
  BY DEF AtMost
<1>2. V \subseteq T /\ g \in Surjection(V, U)
  BY DEF Surjection, Renames
<1> HIDE DEF V, g
<1>3. IsFiniteSet(V) /\ Cardinality(V) <= Cardinality(T)
  BY <1>1, <1>2, FS_Subset
<1>4. IsFiniteSet(U) /\ Cardinality(U) <= Cardinality(V)
  BY <1>2, <1>3, FS_Surjection
<1>5. Cardinality(U) \in Nat /\ Cardinality(V) \in Nat /\ Cardinality(T) \in Nat
  BY <1>1, <1>3, <1>4, FS_CardinalityType
<1> QED BY <1>1, <1>3, <1>4, <1>5 DEF AtMost

\* Of the tokens H and R those in H are renamed and one is added to them.
LEMMA PartRenamed ==
  ASSUME NEW H, NEW R, NEW k \in Nat, AtMost(H \cup R, k), H \cap R = {},
         NEW G, NEW S, S \subseteq R, NEW b, b \notin R, NEW f,
         Renames(f, H \cup {b}, G)
  PROVE  AtMost(G \cup S, k + 1)
<1> DEFINE T == H \cup R
           U == G \cup S
           g == [x \in T \cup {b} |-> IF x \in H \cup {b} THEN f[x] ELSE x]
<1>1. ASSUME NEW y \in U PROVE \E x \in T \cup {b} : y = g[x]
  <2>1. CASE y \in G
    <3>1. PICK x \in H \cup {b} : y = f[x]
      BY <2>1 DEF Renames
    <3>2. x \in T \cup {b} /\ g[x] = f[x]
      OBVIOUS
    <3> QED BY <3>1, <3>2
  <2>2. CASE y \in S
    <3>1. y \in T \cup {b} /\ y \notin H \cup {b}
      BY <2>2
    <3>2. g[y] = y
      BY <3>1
    <3> QED BY <3>1, <3>2
  <2> QED BY <2>1, <2>2
<1>2. AtMost(T, k)
  OBVIOUS
<1>3. AtMost(U, k + 1)
  <2> DEFINE B == T \cup {b}
  <2>1. Renames(g, B, U)
    BY <1>1 DEF Renames
  <2>2. AtMost(B, k + 1)
    <3>1. B \subseteq T \cup {b}
      OBVIOUS
    <3> HIDE DEF T, B
    <3> QED BY <1>2, <3>1, AtMostMoves
  <2>3. k + 1 \in Nat
    OBVIOUS
  <2> HIDE DEF g, B, U
  <2> QED BY <2>1, <2>2, <2>3, AtMostRenamed
<1> QED BY <1>3

\* The copies of the messages M are handed on: none is new but by a fault.
HandedOn(M) ==
  \/ Held(M)' \subseteq Held(M)
  \/ \E a \in Held(M) : \E b : Held(M)' \subseteq (Held(M) \ {a}) \cup {b}
  \/ /\ faults' = faults + 1
     /\ \E k \in {"inbox", "work"}, e \in Engines : \E m, f :
          Renames(f, Held(M) \cup {<<k, e, m>>}, Held(M)')

\* Every step hands the copies on, but for what publishes one.
LEMMA HeldNext ==
  ASSUME StructInv, IdleInv, [Next]_vars, NEW M \in SUBSET Messages,
         \A ev \in Events : AcceptEvent(ev) => Trigger(ev) \notin M,
         \A s \in Schedulers : \A n : Publish(s) => Resume(scheduler[s].clearing, n) \notin M
  PROVE  HandedOn(M)
<1>1. Nobody \notin M /\ inbox \in [Engines -> SUBSET Messages]
  BY NobodyAssumption DEF StructInv, TypeOK
<1>2. ASSUME NEW ev \in Events, AcceptEvent(ev) PROVE HandedOn(M)
  BY <1>2, HeldPublished DEF AcceptEvent, HandedOn
<1>3. ASSUME NEW s \in Schedulers, Publish(s) PROVE HandedOn(M)
  <2>1. PICK n : stream' = stream \cup {Resume(scheduler[s].clearing, n)}
    BY <1>3 DEF Publish
  <2>2. Resume(scheduler[s].clearing, n) \notin M /\ inbox' = inbox /\ engine' = engine
    BY <1>3 DEF Publish
  <2>3. Held(M)' \subseteq Held(M)
    BY <2>1, <2>2, HeldPublished
  <2> QED BY <2>3 DEF HandedOn
<1>4. ASSUME NEW e \in Engines, NEW m \in Messages, Deliver(e, m) PROVE HandedOn(M)
  <2>1. CASE m \in M
    <3>1. /\ <<"stream", Nobody, m>> \in Held(M)
          /\ Held(M)' \subseteq (Held(M) \ {<<"stream", Nobody, m>>}) \cup {<<"inbox", e, m>>}
      BY <1>1, <1>4, <2>1, HeldDelivered DEF Deliver
    <3> QED BY <3>1 DEF HandedOn
  <2>2. CASE m \notin M
    BY <1>1, <1>4, <2>2, HeldDelivered DEF Deliver, HandedOn
  <2> QED BY <2>1, <2>2
<1>5. ASSUME NEW e \in Engines, NEW m \in Messages, Redeliver(e, m) PROVE HandedOn(M)
  <2>1. faults' = faults + 1 /\ Held(M)' \subseteq Held(M) \cup {<<"inbox", e, m>>}
    BY <1>1, <1>5, HeldDelivered DEF Redeliver, Fault
  <2> DEFINE f == [x \in Held(M) \cup {<<"inbox", e, m>>} |-> x]
  <2>2. \A y \in Held(M)' : \E x \in Held(M) \cup {<<"inbox", e, m>>} : y = f[x]
    BY <2>1
  <2> HIDE DEF f
  <2> QED BY <2>1, <2>2 DEF HandedOn, Renames
<1>6. ASSUME NEW e \in Engines, Handle(e) PROVE HandedOn(M)
  <2>1. PICK m \in Messages : Take(e, m) /\ engine'[e].msg = m
    BY <1>6, HandleTakes
  <2>2. stream' = stream /\ \A f \in Engines : f # e => engine'[f] = engine[f]
    BY <1>6, HandleTakes
  <2>3. CASE m \in M
    <3>1. /\ <<"inbox", e, m>> \in Held(M)
          /\ Held(M)' \subseteq (Held(M) \ {<<"inbox", e, m>>}) \cup {<<"work", e, m>>}
      BY <1>1, <2>1, <2>2, <2>3, HeldTaken
    <3> QED BY <3>1 DEF HandedOn
  <2>4. CASE m \notin M
    <3>1. Held(M)' \subseteq Held(M)
      BY <1>1, <2>1, <2>2, <2>4, HeldTaken
    <3> QED BY <3>1 DEF HandedOn
  <2> QED BY <2>3, <2>4
<1>7. ASSUME NEW e \in Engines,
             \/ Dispatch(e) \/ SkipChannel(e) \/ Branch(e) \/ Pause(e) \/ Complete(e) \/ Fail(e)
             \/ Commit(e) \/ CommitUnknown(e) \/ RollBack(e) \/ DispatchFails(e)
      PROVE  HandedOn(M)
  <2>1. /\ stream' = stream /\ inbox' = inbox /\ engine'[e].msg = engine[e].msg
        /\ engine[e].pc \in Working
        /\ \A f \in Engines : f # e => engine'[f] = engine[f]
    BY <1>7, WalkKeeps, EndKeeps DEF Working
  <2> QED BY <1>1, <2>1, HeldByEngine DEF HandedOn
<1>8. ASSUME NEW e \in Engines, Ack(e) PROVE HandedOn(M)
  <2>1. /\ stream' = stream \ {engine[e].msg} /\ inbox' = inbox /\ engine'[e].msg = Nobody
        /\ \A f \in Engines : f # e => engine'[f] = engine[f]
    BY <1>8, ReplyKeeps, IdleFacts
  <2> QED BY <1>1, <2>1, HeldByEngine DEF HandedOn
<1>9. ASSUME NEW e \in Engines, Nak(e) PROVE HandedOn(M)
  <2>1. /\ stream' = stream /\ inbox' = inbox /\ engine'[e].msg = Nobody
        /\ engine[e].pc \in Working
        /\ \A f \in Engines : f # e => engine'[f] = engine[f]
    BY <1>9, ReplyKeeps, IdleFacts DEF Working
  <2> DEFINE m == engine[e].msg
  <2>2. /\ m \notin M => Held(M)' \subseteq Held(M)
        /\ m \in M => /\ <<"work", e, m>> \in Held(M)
                      /\ Held(M)' \subseteq
                           (Held(M) \ {<<"work", e, m>>}) \cup {<<"stream", Nobody, m>>}
    BY <1>1, <2>1, HeldRefused
  <2> HIDE DEF m
  <2> QED BY <2>2 DEF HandedOn
<1>10. ASSUME NEW e \in Engines, Crash(e) PROVE HandedOn(M)
  <2>1. /\ stream' = stream /\ inbox'[e] = {} /\ engine'[e].msg = Nobody
        /\ \A f \in Engines : f # e => engine'[f] = engine[f] /\ inbox'[f] = inbox[f]
        /\ faults' = faults + 1
    BY <1>10, ReplyKeeps, IdleFacts
  <2>3. \A t \in Held(M)' :
          \/ t \in Held(M) /\ t[2] # e
          \/ \E m \in M : /\ t = <<"stream", Nobody, m>>
                          /\ \/ t \in Held(M)
                             \/ <<"inbox", e, m>> \in Held(M) \/ m = engine[e].msg
    BY <1>1, <2>1, HeldByCrash
  <2> DEFINE b == <<"work", e, engine[e].msg>>
             f == [x \in Held(M) \cup {b} |-> IF x[2] = e THEN <<"stream", Nobody, x[3]>> ELSE x]
  <2>2. ASSUME NEW y \in Held(M)' PROVE \E x \in Held(M) \cup {b} : y = f[x]
    <3>1. CASE y \in Held(M) /\ y[2] # e
      BY <3>1
    <3>2. CASE \E m \in M : /\ y = <<"stream", Nobody, m>>
                            /\ y \in Held(M) \/ <<"inbox", e, m>> \in Held(M) \/ m = engine[e].msg
      <4> PICK m \in M : /\ y = <<"stream", Nobody, m>>
                         /\ y \in Held(M) \/ <<"inbox", e, m>> \in Held(M) \/ m = engine[e].msg
        BY <3>2
      <4>1. CASE y \in Held(M)
        <5>1. f[y] = y
          BY <4>1
        <5> QED BY <4>1, <5>1
      <4>2. CASE <<"inbox", e, m>> \in Held(M)
        <5>1. f[<<"inbox", e, m>>] = y
          BY <4>2
        <5> QED BY <4>2, <5>1
      <4>3. CASE m = engine[e].msg
        <5>1. b \in Held(M) \cup {b} /\ b[2] = e /\ b[3] = m
          BY <4>3
        <5>2. f[b] = y
          BY <5>1
        <5> QED BY <5>1, <5>2
      <4> QED BY <4>1, <4>2, <4>3
    <3>3. \/ y \in Held(M) /\ y[2] # e
          \/ \E m \in M : /\ y = <<"stream", Nobody, m>>
                          /\ \/ y \in Held(M)
                             \/ <<"inbox", e, m>> \in Held(M) \/ m = engine[e].msg
      BY <2>3
    <3> QED BY <3>1, <3>2, <3>3
  <2> HIDE DEF f
  <2> QED BY <2>1, <2>2 DEF HandedOn, Renames
<1>11. CASE UNCHANGED <<stream, inbox, engine>>
  BY <1>11, HeldStays DEF HandedOn
<1> QED
  BY <1>2, <1>3, <1>4, <1>5, <1>6, <1>7, <1>8, <1>9, <1>10, <1>11
  DEF Next, vars, UpdateWorkflow, SwitchWorkflow, Elapse, Work, EngineFault, Tick, Scan,
      Clear, CommitTick, SchedulerFault, PublishFails, AbortTick

-----------------------------------------------------------------------------
(* The tokens of a run.                                                       *)

\* Faults are counted one by one.
LEMMA FaultsNext ==
  ASSUME StructInv, [Next]_vars
  PROVE  faults \in Nat /\ (faults' = faults \/ faults' = faults + 1)
<1>1. faults \in Nat
  BY BoundsAssumption DEF StructInv, TypeOK
<1>2. faults' = faults \/ faults' = faults + 1
  BY DEF Next, vars, AcceptEvent, UpdateWorkflow, SwitchWorkflow, Elapse, Deliver,
         Redeliver, Handle, StartRun, IgnoreEvent, ResumeRun, SkipResume, Work,
         Dispatch, SkipChannel, Branch, Pause, Complete, Fail, WriteRun, Commit,
         CommitTo, Ack, Nak, EngineFault, DispatchFails, RollBack, CommitUnknown, Crash,
         Tick, Scan, Clear, Publish, CommitTick, SchedulerFault, PublishFails, AbortTick,
         Fault
<1> QED BY <1>1, <1>2

\* The bound grows with the faults.
LEMMA AtMostNext ==
  ASSUME StructInv, [Next]_vars, NEW T
  PROVE  /\ AtMost(T, 1 + faults) => AtMost(T, 1 + faults')
         /\ faults' = faults + 1 /\ AtMost(T, (1 + faults) + 1) => AtMost(T, 1 + faults')
<1>1. faults \in Nat /\ (faults' = faults \/ faults' = faults + 1)
  BY FaultsNext
<1>2. IsFiniteSet(T) => Cardinality(T) \in Nat
  BY FS_CardinalityType
<1> QED BY <1>1, <1>2 DEF AtMost

\* What the parts of RunTokens stand for.
LEMMA RunElements ==
  ASSUME NEW r
  PROVE  /\ Held(ResumesOf(r)) \cap RunRest(r) = {}
         /\ \A e \in Engines : <<"new", e, r>> \in RunRest(r) <=>
                                 engine[e].created /\ engine[e].run = r
         /\ <<"row", Nobody, r>> \in RunRest(r) <=> Owed(r)
         /\ \A e, m : <<"inbox", e, m>> \notin RunRest(r) /\ <<"work", e, m>> \notin RunRest(r)
<1>1. \A t \in Held(ResumesOf(r)) : t[1] \in {"inbox", "work", "stream"}
  BY DEF Held
<1>2. \A t \in RunRest(r) : t[1] \in {"new", "row"}
  BY DEF RunRest
<1>3. /\ \A e \in Engines : <<"new", e, r>> \in RunRest(r) <=>
                                 engine[e].created /\ engine[e].run = r
      /\ <<"row", Nobody, r>> \in RunRest(r) <=> Owed(r)
  BY DEF RunRest
<1>4. \A e, m : <<"inbox", e, m>>[1] = "inbox" /\ <<"work", e, m>>[1] = "work"
  OBVIOUS
<1> QED BY <1>1, <1>2, <1>3, <1>4

\* RunRest has nothing but what its definition names, after a step.
LEMMA RunRestWithin ==
  ASSUME NEW r, NEW S,
         \A e \in Engines : engine'[e].created /\ engine'[e].run = r => <<"new", e, r>> \in S,
         Owed(r)' => <<"row", Nobody, r>> \in S
  PROVE  RunRest(r)' \subseteq S
<1> SUFFICES ASSUME NEW t \in RunRest(r)' PROVE t \in S
  OBVIOUS
<1>1. \/ \E e \in Engines : t = <<"new", e, r>> /\ engine'[e].created /\ engine'[e].run = r
      \/ t = <<"row", Nobody, r>> /\ Owed(r)'
  BY DEF RunRest
<1> QED BY <1>1

\* Only StartRun makes a new run, and only for the engine and run it names.
LEMMA NewRunsNext ==
  ASSUME StructInv, [Next]_vars, NEW e \in Engines, NEW r, engine'[e].created, engine'[e].run = r
  PROVE  \/ engine[e].created /\ engine[e].run = r
         \/ r \in Runs /\ \E ev \in Events : StartRun(e, ev, r)
<1>1. CASE engine'[e] = engine[e]
  BY <1>1
<1>2. CASE Handle(e)
  BY <1>2, HandleTakes
<1>3. CASE Dispatch(e) \/ SkipChannel(e) \/ Branch(e) \/ Pause(e) \/ Complete(e) \/ Fail(e)
  BY <1>3, WalkKeeps
<1>4. CASE Commit(e) \/ CommitUnknown(e) \/ RollBack(e) \/ DispatchFails(e)
  BY <1>4, EndKeeps
<1>5. CASE Ack(e) \/ Nak(e) \/ Crash(e)
  BY <1>5, ReplyKeeps, IdleFacts
<1> QED BY <1>1, <1>2, <1>3, <1>4, <1>5, EngineMoves DEF Work, EngineFault

\* The schedulers' part in Owed.
Cleared(s) == scheduler[s].cleared \ {scheduler[s].clearing}

\* A scheduler's state changes by a step of that scheduler.
LEMMA SchedulerMoves ==
  ASSUME StructInv, [Next]_vars, NEW s \in Schedulers
  PROVE  \/ scheduler'[s] = scheduler[s]
         \/ Scan(s) \/ (\E q \in Runs : Clear(s, q)) \/ Publish(s) \/ CommitTick(s)
         \/ PublishFails(s) \/ AbortTick(s)
<1>1. ASSUME NEW t \in Schedulers, t # s, Tick(t) \/ SchedulerFault(t)
      PROVE  scheduler'[s] = scheduler[s]
  BY <1>1 DEF StructInv, TypeOK, SetScheduler, Tick, Scan, Clear, Publish, CommitTick,
              SchedulerFault, PublishFails, AbortTick
<1>2. ASSUME ~ \E t \in Schedulers : Tick(t) \/ SchedulerFault(t)
      PROVE  scheduler' = scheduler
  BY <1>2
  DEF Next, vars, AcceptEvent, UpdateWorkflow, SwitchWorkflow, Elapse, Deliver,
      Redeliver, Handle, StartRun, IgnoreEvent, ResumeRun, SkipResume, Work,
      Dispatch, SkipChannel, Branch, Pause, Complete, Fail, WriteRun, Commit,
      CommitTo, Ack, Nak, EngineFault, DispatchFails, RollBack, CommitUnknown, Crash
<1> QED BY <1>1, <1>2 DEF Tick, SchedulerFault

\* What the steps of a scheduler make of its state.
LEMMA SchedulerSteps ==
  ASSUME StructInv, NEW s \in Schedulers
  PROVE  /\ Scan(s) => \E due \in SUBSET DueRuns :
                         /\ scheduler'[s].due = due /\ scheduler'[s].open
                         /\ scheduler'[s].cleared = {} /\ scheduler'[s].clearing = Nobody
         /\ \A q \in Runs : Clear(s, q) =>
              /\ q \in scheduler[s].due /\ scheduler[s].clearing = Nobody
              /\ scheduler'[s].due = scheduler[s].due \ {q} /\ scheduler'[s].clearing = q
              /\ scheduler'[s].cleared = scheduler[s].cleared \cup {q}
              /\ scheduler'[s].open = scheduler[s].open
         /\ Publish(s) \/ PublishFails(s) =>
              /\ scheduler[s].clearing # Nobody /\ scheduler'[s].clearing = Nobody
              /\ scheduler'[s].due = scheduler[s].due
              /\ scheduler'[s].cleared = scheduler[s].cleared
              /\ scheduler'[s].open = scheduler[s].open
         /\ CommitTick(s) \/ AbortTick(s) => scheduler'[s] = Asleep
<1>1. scheduler \in [Schedulers -> SchedulerStates] /\ scheduler[s] \in SchedulerStates
  BY DEF StructInv, TypeOK
<1> USE <1>1 DEF SetScheduler
<1>2. ASSUME Scan(s)
      PROVE  \E due \in SUBSET DueRuns :
               /\ scheduler'[s].due = due /\ scheduler'[s].open
               /\ scheduler'[s].cleared = {} /\ scheduler'[s].clearing = Nobody
  <2>1. PICK due \in SUBSET DueRuns :
          SetScheduler(s, [Asleep EXCEPT !.open = TRUE, !.due = due])
    BY <1>2 DEF Scan
  <2>2. scheduler'[s] = [Asleep EXCEPT !.open = TRUE, !.due = due]
    BY <2>1
  <2>3. /\ scheduler'[s].due = due /\ scheduler'[s].open
        /\ scheduler'[s].cleared = {} /\ scheduler'[s].clearing = Nobody
    BY <2>2 DEF Asleep
  <2> QED BY <2>3
<1>3. ASSUME NEW q \in Runs, Clear(s, q)
      PROVE  /\ q \in scheduler[s].due /\ scheduler[s].clearing = Nobody
             /\ scheduler'[s].due = scheduler[s].due \ {q} /\ scheduler'[s].clearing = q
             /\ scheduler'[s].cleared = scheduler[s].cleared \cup {q}
             /\ scheduler'[s].open = scheduler[s].open
  BY <1>3 DEF Clear, SchedulerStates
<1>4. ASSUME Publish(s)
      PROVE  /\ scheduler[s].clearing # Nobody /\ scheduler'[s].clearing = Nobody
             /\ scheduler'[s].due = scheduler[s].due
             /\ scheduler'[s].cleared = scheduler[s].cleared
             /\ scheduler'[s].open = scheduler[s].open
  BY <1>4 DEF Publish, SchedulerStates
<1>5. ASSUME PublishFails(s)
      PROVE  /\ scheduler[s].clearing # Nobody /\ scheduler'[s].clearing = Nobody
             /\ scheduler'[s].due = scheduler[s].due
             /\ scheduler'[s].cleared = scheduler[s].cleared
             /\ scheduler'[s].open = scheduler[s].open
  BY <1>5 DEF PublishFails, SchedulerStates
<1>6. CommitTick(s) \/ AbortTick(s) => scheduler'[s] = Asleep
  BY DEF CommitTick, AbortTick
<1> QED BY <1>2, <1>3, <1>4, <1>5, <1>6

\* A run is cleared by Clear and Publish and until the tick ends.
LEMMA ClearedNext ==
  ASSUME StructInv, TickInv, [Next]_vars, NEW s \in Schedulers, NEW r \in Runs
  PROVE  /\ r \in Cleared(s) =>
              r \in Cleared(s)' \/ AbortTick(s) \/ (CommitTick(s) /\ runs'[r].resume = "none")
         /\ r \in Cleared(s)' =>
              r \in Cleared(s) \/ (scheduler[s].clearing = r /\ (Publish(s) \/ PublishFails(s)))
<1>1. CASE scheduler'[s] = scheduler[s]
  BY <1>1 DEF Cleared
<1>2. CASE Scan(s)
  <2>1. scheduler[s].cleared = {}
    BY <1>2 DEF Scan, TickInv, Asleep
  <2>2. scheduler'[s].cleared = {}
    BY <1>2, SchedulerSteps
  <2> QED BY <2>1, <2>2 DEF Cleared
<1>3. CASE \E q \in Runs : Clear(s, q)
  <2> PICK q \in Runs : Clear(s, q)
    BY <1>3
  <2>1. /\ q \in scheduler[s].due /\ scheduler[s].clearing = Nobody
        /\ scheduler'[s].clearing = q
        /\ scheduler'[s].cleared = scheduler[s].cleared \cup {q}
    BY SchedulerSteps
  <2>2. q \notin scheduler[s].cleared
    BY <2>1 DEF TickInv
  <2> QED BY <2>1, <2>2, NobodyAssumption DEF Cleared
<1>4. CASE Publish(s) \/ PublishFails(s)
  <2>1. /\ scheduler'[s].cleared = scheduler[s].cleared /\ scheduler'[s].clearing = Nobody
    BY <1>4, SchedulerSteps
  <2> QED BY <1>4, <2>1, NobodyAssumption DEF Cleared
<1>5. CASE CommitTick(s)
  <2>1. scheduler'[s].cleared = {}
    BY <1>5, SchedulerSteps DEF Asleep
  <2>2. r \in scheduler[s].cleared => runs'[r].resume = "none"
    BY <1>5 DEF CommitTick, StructInv, TypeOK, RunRows
  <2> QED BY <1>5, <2>1, <2>2 DEF Cleared
<1>6. CASE AbortTick(s)
  <2>1. scheduler'[s].cleared = {}
    BY <1>6, SchedulerSteps DEF Asleep
  <2> QED BY <1>6, <2>1 DEF Cleared
<1> QED BY <1>1, <1>2, <1>3, <1>4, <1>5, <1>6, SchedulerMoves

\* The committed rows change by a commit of an engine or of a tick, or as the
\* clock goes on.
LEMMA RowsChangeBy ==
  ASSUME [Next]_vars
  PROVE  \/ runs' = runs
         \/ \E e \in Engines : Commit(e) \/ CommitUnknown(e)
         \/ \E q \in Runs : Elapse(q)
         \/ \E s \in Schedulers : CommitTick(s)
BY DEF Next, vars, tables, AcceptEvent, UpdateWorkflow, SwitchWorkflow, Deliver,
       Redeliver, Handle, StartRun, IgnoreEvent, ResumeRun, SkipResume, Work,
       Dispatch, SkipChannel, Branch, Pause, Complete, Fail, WriteRun, Ack,
       Nak, EngineFault, DispatchFails, RollBack, Crash, Tick, Scan,
       Clear, Publish, SchedulerFault, PublishFails, AbortTick

\* A resume_at comes by the commit of the run's own transaction.
LEMMA ResumeTimesNext ==
  ASSUME StructInv, [Next]_vars, NEW r \in Runs,
         \A e \in Engines : Commit(e) \/ CommitUnknown(e) => engine[e].run # r
  PROVE  /\ runs'[r].status = runs[r].status /\ runs'[r].index = runs[r].index
         /\ runs'[r].event = runs[r].event
         /\ \/ runs'[r].resume = runs[r].resume
            \/ runs[r].resume = "later" /\ runs'[r].resume = "due"
            \/ runs'[r].resume = "none" /\ \E s \in Schedulers :
                 CommitTick(s) /\ r \in scheduler[s].cleared
<1>1. runs \in [Runs -> RunRows] /\ runs[r] \in RunRows
  BY DEF StructInv, TypeOK
<1>2. ASSUME NEW e \in Engines, Commit(e) \/ CommitUnknown(e) PROVE runs'[r] = runs[r]
  BY <1>2, CommittedRows DEF Commit, CommitUnknown
<1>3. ASSUME NEW q \in Runs, Elapse(q)
      PROVE  \/ runs'[r] = runs[r]
             \/ runs[r].resume = "later" /\ runs'[r] = [runs[r] EXCEPT !.resume = "due"]
  BY <1>1, <1>3 DEF Elapse
<1>4. ASSUME NEW s \in Schedulers, CommitTick(s)
      PROVE  \/ runs'[r] = runs[r]
             \/ r \in scheduler[s].cleared /\ runs'[r] = [runs[r] EXCEPT !.resume = "none"]
  BY <1>1, <1>4 DEF CommitTick
<1> QED BY <1>1, <1>2, <1>3, <1>4, RowsChangeBy DEF RunRows

\* What a step does to the rest of the tokens, but for the steps named.
LEMMA RunRestNext ==
  ASSUME StructInv, TickInv, [Next]_vars, NEW r \in Runs,
         \A e \in Engines, ev \in Events : ~StartRun(e, ev, r),
         \A e \in Engines : Commit(e) \/ CommitUnknown(e) => engine[e].run # r,
         \A s \in Schedulers : ~AbortTick(s)
  PROVE  RunRest(r)' \subseteq RunRest(r)
<1>1. ASSUME Owed(r)' PROVE Owed(r)
  <2>1. runs'[r].resume # "none" /\ \A s \in Schedulers : r \notin Cleared(s)'
    BY <1>1 DEF Owed, Cleared
  <2>2. runs[r].resume # "none"
    BY <2>1, ResumeTimesNext
  <2>3. \A s \in Schedulers : r \notin Cleared(s)
    BY <2>1, ClearedNext
  <2> QED BY <2>2, <2>3 DEF Owed, Cleared
<1>2. ASSUME NEW e \in Engines, engine'[e].created, engine'[e].run = r
      PROVE  engine[e].created /\ engine[e].run = r
  BY <1>2, NewRunsNext
<1>3. Owed(r)' => <<"row", Nobody, r>> \in RunRest(r)
  BY <1>1, RunElements
<1>4. \A e \in Engines : engine'[e].created /\ engine'[e].run = r =>
                           <<"new", e, r>> \in RunRest(r)
  BY <1>2, RunElements
<1> QED BY <1>3, <1>4, RunRestWithin

\* A run that nobody has committed yet has no tokens, but for its transaction.
LEMMA AbsentRuns ==
  ASSUME StructInv, NEW r \in Runs, runs[r].status = "absent"
  PROVE  Held(ResumesOf(r)) = {} /\ ~Owed(r)
<1>1. runs[r] = NoRow
  BY DEF StructInv, RowsHaveEvents
<1>2. ~Owed(r)
  BY <1>1 DEF Owed, NoRow
<1>3. ASSUME NEW t \in Held(ResumesOf(r)) PROVE FALSE
  <2>1. PICK m \in ResumesOf(r) :
          m \in stream \/ \E e \in Engines : m \in inbox[e] \/ engine[e].msg = m
    <3>1. t[3] \in ResumesOf(r) /\
          (t[3] \in stream \/ \E e \in Engines : t[3] \in inbox[e] \/ engine[e].msg = t[3])
      BY <1>3 DEF Held
    <3> QED BY <3>1
  <2>2. m \in Resumes /\ m.run = r
    BY DEF ResumesOf
  <2> QED BY <2>1, <2>2 DEF StructInv, ResumedRunsExist
<1> QED BY <1>2, <1>3

\* The first transaction of a run is all there is of it.
LEMMA StartCounts ==
  ASSUME StructInv, IdleInv, [Next]_vars, NEW r \in Runs,
         NEW e \in Engines, NEW ev \in Events, StartRun(e, ev, r)
  PROVE  AtMost(RunTokens(r)', 1 + faults')
<1>1. /\ runs[r].status = "absent" /\ \A f \in Engines : engine[f].run # r
      /\ runs' = runs /\ faults' = faults /\ scheduler' = scheduler /\ faults \in Nat
  BY FaultsNext DEF StartRun, tables
<1>2. Handle(e)
  BY DEF Handle
<1>3. Held(ResumesOf(r)) = {} /\ ~Owed(r)
  BY <1>1, AbsentRuns
<1>4. Held(ResumesOf(r))' = {}
  <2>1. Trigger(ev) \notin ResumesOf(r) /\ Nobody \notin ResumesOf(r)
    BY TriggersAreNotResumes, NobodyAssumption DEF ResumesOf, Triggers, Messages
  <2>2. engine'[e].msg = Trigger(ev) /\ stream' = stream /\ Take(e, Trigger(ev))
        /\ inbox \in [Engines -> SUBSET Messages]
    BY DEF StartRun, SetEngine, StructInv, TypeOK, Idle
  <2>3. \A f \in Engines : f # e => engine'[f] = engine[f]
    BY <1>2, HandleTakes
  <2>4. Held(ResumesOf(r))' \subseteq Held(ResumesOf(r))
    BY <2>1, <2>2, <2>3, HeldTaken
  <2> QED BY <1>3, <2>4
<1>5. RunRest(r)' \subseteq {<<"new", e, r>>}
  <2>1. ~Owed(r)'
    BY <1>1, <1>3 DEF Owed
  <2>2. \A f \in Engines : engine'[f].created /\ engine'[f].run = r => f = e
    BY <1>1, <1>2, HandleTakes
  <2> QED BY <2>1, <2>2, RunRestWithin
<1>6. RunTokens(r)' \subseteq {} \cup {<<"new", e, r>>}
  BY <1>4, <1>5 DEF RunTokens
<1>7. IsFiniteSet({}) /\ Cardinality({}) <= 0
  BY FS_EmptySet
<1>8. IsFiniteSet(RunTokens(r)') /\ Cardinality(RunTokens(r)') <= 0 + 1
  BY <1>6, <1>7, TokensCount
<1>9. Cardinality(RunTokens(r)') \in Nat
  BY <1>8, FS_CardinalityType
<1> QED BY <1>1, <1>8, <1>9 DEF AtMost

\* A commit gives a run its row in exchange for the transaction or the message.
LEMMA CommitCounts ==
  ASSUME StructInv, TickInv, [Next]_vars, NEW r \in Runs, AtMost(RunTokens(r), 1 + faults),
         NEW e \in Engines, Commit(e) \/ CommitUnknown(e), engine[e].run = r
  PROVE  AtMost(RunTokens(r)', 1 + faults')
<1>0. 1 + faults \in Nat
  BY FaultsNext
<1>1. /\ engine'[e].msg = engine[e].msg /\ engine'[e].run = Nobody
      /\ engine[e].pc \in Working
      /\ \A f \in Engines : f # e => engine'[f] = engine[f]
      /\ UNCHANGED <<stream, inbox, scheduler>>
      /\ Commit(e) => engine'[e].pc = "ack"
      /\ ~Commit(e) => faults' = faults + 1
  BY EndKeeps DEF Working
<1>2. Nobody \notin ResumesOf(r) /\ Nobody \notin Runs
  BY NobodyAssumption DEF ResumesOf, Messages
<1> DEFINE H == Held(ResumesOf(r))
           row == <<"row", Nobody, r>>
           new == <<"new", e, r>>
<1>3. H' \subseteq H /\ (Commit(e) => \A m : <<"work", e, m>> \notin H')
  BY <1>1, <1>2, HeldByEngine DEF Working
<1>4. RunRest(r)' \subseteq (RunRest(r) \ {new}) \cup {row}
  <2> DEFINE S == (RunRest(r) \ {new}) \cup {row}
  <2>1. ASSUME NEW f \in Engines, engine'[f].created, engine'[f].run = r
        PROVE  <<"new", f, r>> \in S
    <3>1. f # e
      BY <1>1, <1>2, <2>1
    <3>2. engine[f].created /\ engine[f].run = r
      BY <1>1, <2>1, <3>1
    <3>3. <<"new", f, r>> \in RunRest(r)
      BY <3>2, RunElements
    <3> QED BY <3>1, <3>3
  <2>2. row \in S
    OBVIOUS
  <2>3. RunRest(r)' \subseteq S
    <3> HIDE DEF S
    <3> QED BY <2>1, <2>2, RunRestWithin
  <2> QED BY <2>3
<1>5. CASE Commit(e)
  <2>1. PICK a \in RunTokens(r) : a \notin RunTokens(r)' \ {row}
    <3>1. CASE engine[e].created
      <4>1. new \in RunTokens(r)
        BY <3>1, RunElements DEF RunTokens
      <4>2. new \notin H'
        BY DEF Held
      <4>3. new \notin RunTokens(r)' \ {row}
        BY <1>4, <4>2 DEF RunTokens
      <4> QED BY <4>1, <4>3
    <3>2. CASE ~engine[e].created
      <4> DEFINE w == <<"work", e, engine[e].msg>>
      <4>1. engine[e].msg \in ResumesOf(r)
        BY <1>2, <3>2, EngineFacts DEF ResumesOf
      <4>2. w \in H
        BY <1>1, <4>1, HeldElements
      <4>3. w \notin H' /\ w \notin RunRest(r)
        BY <1>3, <1>5, RunElements
      <4>4. w \notin RunTokens(r)' \ {row}
        BY <1>4, <4>3 DEF RunTokens
      <4> QED BY <4>2, <4>4 DEF RunTokens
    <3> QED BY <3>1, <3>2
  <2>2. RunTokens(r)' \subseteq (RunTokens(r) \ {a}) \cup {row}
    BY <1>3, <1>4, <2>1 DEF RunTokens
  <2>3. AtMost(RunTokens(r)', 1 + faults)
    BY <1>0, <2>2, AtMostMoved
  <2> QED BY <2>3, AtMostNext
<1>6. CASE ~Commit(e)
  <2>1. RunTokens(r)' \subseteq RunTokens(r) \cup {row}
    BY <1>3, <1>4 DEF RunTokens
  <2>2. AtMost(RunTokens(r)', (1 + faults) + 1)
    BY <1>0, <2>1, AtMostMoves
  <2> QED BY <1>1, <1>6, <2>2, AtMostNext
<1> QED BY <1>5, <1>6

\* A published resume message takes the place of the resume_at.
LEMMA PublishCounts ==
  ASSUME StructInv, TickInv, OneScheduler, [Next]_vars, NEW r \in Runs,
         AtMost(RunTokens(r), 1 + faults),
         NEW s \in Schedulers, Publish(s), scheduler[s].clearing = r
  PROVE  AtMost(RunTokens(r)', 1 + faults')
<1>0. 1 + faults \in Nat
  BY FaultsNext
<1>1. PICK n : stream' = stream \cup {Resume(r, n)}
  BY DEF Publish
<1> DEFINE row == <<"row", Nobody, r>>
           b == <<"stream", Nobody, Resume(r, n)>>
<1>2. /\ inbox' = inbox /\ engine' = engine /\ runs' = runs
      /\ scheduler'[s].clearing = Nobody /\ scheduler'[s].cleared = scheduler[s].cleared
  BY SchedulerSteps DEF Publish, tables
<1>3. r \in scheduler[s].cleared /\ Nobody \notin Runs
  BY NobodyAssumption DEF StructInv, ResumedRunsExist
<1>4. Owed(r) /\ ~Owed(r)'
  <2>1. runs[r].resume # "none"
    BY <1>3 DEF TickInv
  <2>2. Owed(r)
    BY <2>1 DEF Owed, OneScheduler
  <2>3. ~Owed(r)'
    BY <1>2, <1>3 DEF Owed
  <2> QED BY <2>2, <2>3
<1>5. Held(ResumesOf(r))' \subseteq Held(ResumesOf(r)) \cup {b}
  <2>1. ResumesOf(r)' = ResumesOf(r)
    BY DEF ResumesOf
  <2> QED BY <1>1, <1>2, HeldPublished
<1>6. RunRest(r)' \subseteq RunRest(r) \ {row}
  <2> DEFINE S == RunRest(r) \ {row}
  <2>1. ASSUME NEW e \in Engines, engine'[e].created, engine'[e].run = r
        PROVE  <<"new", e, r>> \in S
    BY <1>2, <2>1, RunElements
  <2>2. RunRest(r)' \subseteq S
    <3> HIDE DEF S
    <3> QED BY <1>4, <2>1, RunRestWithin
  <2> QED BY <2>2
<1>7. row \in RunRest(r) /\ row \notin Held(ResumesOf(r)) /\ row # b
  <2>1. row \in RunRest(r)
    BY <1>4, RunElements
  <2>2. row[1] = "row" /\ b[1] = "stream"
    OBVIOUS
  <2> QED BY <2>1, <2>2, RunElements
<1>8. row \in RunTokens(r) /\ RunTokens(r)' \subseteq (RunTokens(r) \ {row}) \cup {b}
  BY <1>5, <1>6, <1>7 DEF RunTokens
<1>9. AtMost(RunTokens(r)', 1 + faults)
  <2> HIDE DEF row, b
  <2> QED BY <1>0, <1>8, AtMostMoved
<1> QED BY <1>9, AtMostNext

\* A tick that fails leaves the resume_at of what it has published for.
LEMMA AbortCounts ==
  ASSUME StructInv, [Next]_vars, NEW r \in Runs, AtMost(RunTokens(r), 1 + faults),
         NEW s \in Schedulers, AbortTick(s)
  PROVE  AtMost(RunTokens(r)', 1 + faults')
<1>0. 1 + faults \in Nat
  BY FaultsNext
<1>1. UNCHANGED <<stream, inbox, engine>> /\ faults' = faults + 1
  BY DEF AbortTick, Fault
<1> DEFINE row == <<"row", Nobody, r>>
<1>2. Held(ResumesOf(r))' = Held(ResumesOf(r))
  BY <1>1, HeldStays
<1>3. RunRest(r)' \subseteq RunRest(r) \cup {row}
  <2> DEFINE S == RunRest(r) \cup {row}
  <2>1. ASSUME NEW e \in Engines, engine'[e].created, engine'[e].run = r
        PROVE  <<"new", e, r>> \in S
    BY <1>1, <2>1, RunElements
  <2>2. row \in S
    OBVIOUS
  <2>3. RunRest(r)' \subseteq S
    <3> HIDE DEF S
    <3> QED BY <2>1, <2>2, RunRestWithin
  <2> QED BY <2>3
<1>4. RunTokens(r)' \subseteq RunTokens(r) \cup {row}
  BY <1>2, <1>3 DEF RunTokens
<1>5. AtMost(RunTokens(r)', (1 + faults) + 1)
  BY <1>0, <1>4, AtMostMoves
<1> QED BY <1>1, <1>5, AtMostNext

\* Copies are handed on, the rest of the tokens does not grow.
LEMMA HandedOnCounts ==
  ASSUME StructInv, [Next]_vars, NEW M, HandedOn(M), NEW R, NEW S, S \subseteq R,
         Held(M) \cap R = {},
         \A e, m : <<"inbox", e, m>> \notin R /\ <<"work", e, m>> \notin R,
         AtMost(Held(M) \cup R, 1 + faults)
  PROVE  AtMost(Held(M)' \cup S, 1 + faults')
<1> DEFINE H == Held(M)
           G == Held(M)'
           T == H \cup R
           U == G \cup S
<1>1. 1 + faults \in Nat
  BY FaultsNext
<1>2. \/ G \subseteq H
      \/ \E a \in H : \E b : G \subseteq (H \ {a}) \cup {b}
      \/ /\ faults' = faults + 1
         /\ \E b, f : b \notin R /\ Renames(f, H \cup {b}, G)
  BY DEF HandedOn
<1>3. AtMost(T, 1 + faults) /\ H \cap R = {}
  OBVIOUS
<1> HIDE DEF H, G
<1>4. ASSUME G \subseteq H PROVE AtMost(U, 1 + faults)
  <2>1. U \subseteq T
    BY <1>4
  <2> HIDE DEF T, U
  <2> QED BY <1>1, <1>3, <2>1, AtMostMoves
<1>5. ASSUME NEW a \in H, NEW b, G \subseteq (H \ {a}) \cup {b} PROVE AtMost(U, 1 + faults)
  <2>1. a \in T /\ U \subseteq (T \ {a}) \cup {b}
    BY <1>3, <1>5
  <2> HIDE DEF T, U
  <2> QED BY <1>1, <1>3, <2>1, AtMostMoved
<1>6. ASSUME NEW b, NEW f, b \notin R, Renames(f, H \cup {b}, G)
      PROVE  AtMost(U, (1 + faults) + 1)
  BY <1>1, <1>3, <1>6, PartRenamed
<1>7. \/ AtMost(U, 1 + faults)
      \/ faults' = faults + 1 /\ AtMost(U, (1 + faults) + 1)
  BY <1>2, <1>4, <1>5, <1>6
<1>8. AtMost(U, 1 + faults')
  BY <1>7, AtMostNext
<1> QED BY <1>8 DEF G

\* Every other step hands a copy of a message on, or is a fault.
LEMMA OthersCount ==
  ASSUME StructInv, IdleInv, TickInv, [Next]_vars, NEW r \in Runs,
         AtMost(RunTokens(r), 1 + faults),
         \A e \in Engines, ev \in Events : ~StartRun(e, ev, r),
         \A e \in Engines : Commit(e) \/ CommitUnknown(e) => engine[e].run # r,
         \A s \in Schedulers : ~AbortTick(s) /\ (Publish(s) => scheduler[s].clearing # r)
  PROVE  AtMost(RunTokens(r)', 1 + faults')
<1>1. ResumesOf(r) \in SUBSET Messages
  BY DEF ResumesOf, Messages
<1>2. \A ev \in Events : Trigger(ev) \notin ResumesOf(r)
  BY TriggersAreNotResumes DEF Triggers, ResumesOf
<1>3. \A s \in Schedulers : \A n :
        Publish(s) => Resume(scheduler[s].clearing, n) \notin ResumesOf(r)
  BY DEF Resume, ResumesOf
<1>4. HandedOn(ResumesOf(r))
  BY <1>1, <1>2, <1>3, HeldNext
<1>5. RunRest(r)' \subseteq RunRest(r)
  BY RunRestNext
<1>6. AtMost(Held(ResumesOf(r))' \cup RunRest(r)', 1 + faults')
  BY <1>4, <1>5, RunElements, HandedOnCounts DEF RunTokens
<1> QED BY <1>6 DEF RunTokens, ResumesOf

\* A run is on its way once, and once more for each fault.
LEMMA RunsCountedNext ==
  ASSUME StructInv, IdleInv, TickInv, RunsCounted, OneScheduler, [Next]_vars
  PROVE  RunsCounted'
<1> SUFFICES ASSUME NEW r \in Runs PROVE AtMost(RunTokens(r), 1 + faults)'
  BY DEF RunsCounted
<1>1. AtMost(RunTokens(r), 1 + faults)
  BY DEF RunsCounted
<1>2. ASSUME NEW e \in Engines, NEW ev \in Events, StartRun(e, ev, r)
      PROVE  AtMost(RunTokens(r)', 1 + faults')
  BY <1>2, StartCounts
<1>3. ASSUME NEW e \in Engines, Commit(e) \/ CommitUnknown(e), engine[e].run = r
      PROVE  AtMost(RunTokens(r)', 1 + faults')
  BY <1>1, <1>3, CommitCounts
<1>4. ASSUME NEW s \in Schedulers, AbortTick(s) \/ (Publish(s) /\ scheduler[s].clearing = r)
      PROVE  AtMost(RunTokens(r)', 1 + faults')
  BY <1>1, <1>4, AbortCounts, PublishCounts
<1>5. AtMost(RunTokens(r)', 1 + faults')
  BY <1>1, <1>2, <1>3, <1>4, OthersCount
<1>6. AtMost(RunTokens(r), 1 + faults)' <=> AtMost(RunTokens(r)', 1 + faults')
  BY DEF AtMost
<1> QED BY <1>5, <1>6

\* An engine takes a message and is idle again without one.
LEMMA IdleNext ==
  ASSUME StructInv, IdleInv, [Next]_vars
  PROVE  IdleInv'
<1> SUFFICES ASSUME NEW e \in Engines, engine'[e].pc = "idle"
             PROVE  engine'[e].msg = Nobody
  BY DEF IdleInv
<1>1. CASE engine'[e] = engine[e]
  BY <1>1 DEF IdleInv
<1>2. CASE Handle(e)
  BY <1>2, HandleTakes
<1>3. CASE Dispatch(e) \/ SkipChannel(e) \/ Branch(e) \/ Pause(e) \/ Complete(e) \/ Fail(e)
  BY <1>3, WalkKeeps
<1>4. CASE Commit(e) \/ CommitUnknown(e) \/ RollBack(e) \/ DispatchFails(e)
  BY <1>4, EndKeeps
<1>5. CASE Ack(e) \/ Nak(e) \/ Crash(e)
  BY <1>5, ReplyKeeps, IdleFacts
<1> QED BY <1>1, <1>2, <1>3, <1>4, <1>5, EngineMoves DEF Work, EngineFault

\* The event of a run in the table is that of the transaction that committed it.
LEMMA RunEventsNext ==
  ASSUME StructInv, [Next]_vars, NEW r \in Runs
  PROVE  \/ runs'[r].event = runs[r].event
         \/ \E e \in Engines : /\ Commit(e) \/ CommitUnknown(e)
                               /\ engine[e].created /\ engine[e].run = r
                               /\ runs'[r].event \in Events
                               /\ engine[e].msg = Trigger(runs'[r].event)
<1>1. CASE \A e \in Engines : Commit(e) \/ CommitUnknown(e) => engine[e].run # r
  BY <1>1, ResumeTimesNext
<1>2. ASSUME NEW e \in Engines, Commit(e) \/ CommitUnknown(e), engine[e].run = r,
             engine[e].created
      PROVE  runs'[r].event \in Events /\ engine[e].msg = Trigger(runs'[r].event)
  <2>1. runs'[r].event = engine[e].msg.event
    BY <1>2, CommittedRows DEF Commit, CommitUnknown
  <2>2. engine[e].msg = Trigger(EventOf(e)) /\ EventOf(e) \in Events
    BY <1>2, NobodyAssumption, EventOfEngine
  <2> QED BY <2>1, <2>2 DEF Trigger
<1>3. ASSUME NEW e \in Engines, Commit(e) \/ CommitUnknown(e), engine[e].run = r,
             ~engine[e].created
      PROVE  runs'[r].event = runs[r].event
  BY <1>3, CommittedRows DEF Commit, CommitUnknown
<1> QED BY <1>1, <1>2, <1>3

\* The API forgets no event.
LEMMA AcceptedGrows ==
  ASSUME [Next]_vars
  PROVE  accepted \subseteq accepted'
BY DEF Next, vars, ghosts, AcceptEvent, UpdateWorkflow, SwitchWorkflow, Elapse, Deliver,
       Redeliver, Handle, StartRun, IgnoreEvent, ResumeRun, SkipResume, Work,
       Dispatch, SkipChannel, Branch, Pause, Complete, Fail, WriteRun, Commit,
       CommitTo, Ack, Nak, EngineFault, DispatchFails, RollBack, CommitUnknown, Crash,
       Tick, Scan, Clear, Publish, CommitTick, SchedulerFault, PublishFails, AbortTick

\* Runs are of accepted events.
LEMMA AcceptedRunsNext ==
  ASSUME StructInv, EventsAreAccepted, AcceptedRuns, [Next]_vars
  PROVE  AcceptedRuns'
<1> SUFFICES ASSUME NEW r \in Runs, runs'[r].event # Nobody
             PROVE  runs'[r].event \in accepted'
  BY DEF AcceptedRuns
<1>1. CASE runs'[r].event = runs[r].event
  BY <1>1, AcceptedGrows DEF AcceptedRuns
<1>2. ASSUME NEW e \in Engines, runs'[r].event \in Events,
             engine[e].msg = Trigger(runs'[r].event)
      PROVE  runs'[r].event \in accepted
  BY <1>2 DEF EventsAreAccepted, Exists
<1> QED BY <1>1, <1>2, RunEventsNext, AcceptedGrows

\* Two tokens are one too many without a fault.
LEMMA OnlyToken ==
  ASSUME NEW T, AtMost(T, 1), NEW a \in T, NEW b \in T
  PROVE  a = b
<1> SUFFICES ASSUME a # b PROVE FALSE
  OBVIOUS
<1> DEFINE D == T \ {a}
           E == D \ {b}
<1>1. IsFiniteSet(T) /\ Cardinality(T) <= 1 /\ Cardinality(T) \in Nat
  BY FS_CardinalityType DEF AtMost
<1>2. IsFiniteSet(D) /\ Cardinality(D) = Cardinality(T) - 1 /\ b \in D
  BY <1>1, FS_RemoveElement
<1> HIDE DEF D
<1>3. IsFiniteSet(E) /\ Cardinality(E) = Cardinality(D) - 1
  BY <1>2, FS_RemoveElement
<1>4. Cardinality(E) \in Nat
  BY <1>3, FS_CardinalityType
<1> QED BY <1>1, <1>2, <1>3, <1>4

\* What the commit of an engine makes of the resume_at of its run.
LEMMA CommittedResume ==
  ASSUME StructInv, NEW e \in Engines, Commit(e) \/ CommitUnknown(e), NEW r \in Runs,
         engine[e].run = r, ~engine[e].created
  PROVE  runs'[r].resume \in {"later", runs[r].resume}
<1>1. PICK pc \in {"ack", "nak"} : CommitTo(e, pc)
  BY DEF Commit, CommitUnknown
<1>2. runs'[r] = Written(e) /\ runs[r] \in RunRows
  BY <1>1, CommittedRows DEF StructInv, TypeOK
<1> QED BY <1>2 DEF Written, RunRows

\* As long as nothing fails no engine pauses a run that is selected.
LEMMA SelectedRunsStay ==
  ASSUME StructInv, UpdatesAreLocked, TickInv, RunsCounted, OneScheduler, [Next]_vars,
         NEW s \in Schedulers, scheduler'[s] = scheduler[s],
         NEW r \in scheduler[s].due \cup scheduler[s].cleared
  PROVE  /\ runs'[r].resume # "none"
         /\ faults' = 0 => runs'[r].resume = "due"
<1>1. /\ r \in Runs /\ runs[r].status # "absent" /\ runs[r].resume # "none"
      /\ faults = 0 => runs[r].resume = "due"
  BY DEF StructInv, TypeOK, SchedulerStates, ResumedRunsExist, TickInv
<1>2. faults' = 0 => faults = 0
  BY FaultsNext
<1>3. ASSUME NEW e \in Engines, Commit(e) \/ CommitUnknown(e), engine[e].run = r
      PROVE  runs'[r].resume # "none" /\ faults # 0
  <2>1. ~engine[e].created /\ Nobody # r /\ engine[e].pc = "commit"
    BY <1>1, <1>3, EngineFacts, NobodyAssumption DEF Commit, CommitUnknown, CommitTo
  <2>2. runs'[r].resume # "none"
    BY <1>1, <1>3, <2>1, CommittedResume
  <2>3. lockedBy[r] = e
    BY <1>3, <2>1 DEF UpdatesAreLocked
  <2>4. r \notin scheduler[s].cleared
    BY <2>3, ActorsAssumption DEF UpdatesAreLocked
  <2>5. Owed(r)
    BY <1>1, <2>4 DEF Owed, OneScheduler
  <2> DEFINE m == engine[e].msg
             w == <<"work", e, m>>
             row == <<"row", Nobody, r>>
  <2>6. m \in ResumesOf(r)
    BY <1>3, <2>1, EngineFacts DEF ResumesOf
  <2>7. w \in RunTokens(r)
    BY <2>1, <2>6, HeldElements DEF RunTokens, Working
  <2>8. row \in RunTokens(r)
    BY <2>5, RunElements DEF RunTokens
  <2>9. w # row
    <3>1. w[1] = "work" /\ row[1] = "row"
      OBVIOUS
    <3> QED BY <3>1
  <2>10. ~AtMost(RunTokens(r), 1)
    <3> HIDE DEF w, row
    <3> QED BY <2>7, <2>8, <2>9, OnlyToken
  <2> QED BY <1>1, <2>2, <2>10 DEF RunsCounted
<1>4. ASSUME NEW t \in Schedulers, CommitTick(t) PROVE r \notin scheduler[t].cleared
  <2>1. t = s /\ scheduler'[s] = Asleep
    BY <1>4, SchedulerSteps DEF OneScheduler
  <2> QED BY <2>1 DEF Asleep
<1>5. CASE \A e \in Engines : Commit(e) \/ CommitUnknown(e) => engine[e].run # r
  BY <1>1, <1>2, <1>4, <1>5, ResumeTimesNext
<1> QED BY <1>2, <1>3, <1>5

\* The selected runs of a tick stay due until the tick ends.
LEMMA TickNext ==
  ASSUME StructInv, UpdatesAreLocked, TickInv, RunsCounted, OneScheduler, [Next]_vars
  PROVE  TickInv'
<1> SUFFICES ASSUME NEW s \in Schedulers
             PROVE  /\ ~scheduler'[s].open => scheduler'[s] = Asleep
                    /\ scheduler'[s].due \cap scheduler'[s].cleared = {}
                    /\ \A r \in scheduler'[s].due \cup scheduler'[s].cleared :
                         /\ runs'[r].resume # "none"
                         /\ faults' = 0 => runs'[r].resume = "due"
  BY DEF TickInv
<1>1. CASE scheduler'[s] = scheduler[s]
  BY <1>1, SelectedRunsStay DEF TickInv
<1>2. CASE Scan(s)
  <2>1. PICK due \in SUBSET DueRuns :
          /\ scheduler'[s].due = due /\ scheduler'[s].open /\ scheduler'[s].cleared = {}
    BY <1>2, SchedulerSteps
  <2>2. runs' = runs
    BY <1>2 DEF Scan, tables
  <2> QED BY <2>1, <2>2 DEF DueRuns
<1>3. CASE Publish(s) \/ PublishFails(s) \/ \E q \in Runs : Clear(s, q)
  <2>1. /\ scheduler'[s].open = scheduler[s].open
        /\ scheduler'[s].due \cup scheduler'[s].cleared
             = scheduler[s].due \cup scheduler[s].cleared
        /\ scheduler'[s].due \cap scheduler'[s].cleared = {}
        /\ scheduler[s].clearing # Nobody \/ scheduler[s].due # {}
    BY <1>3, SchedulerSteps DEF TickInv
  <2>2. scheduler[s].open
    BY <2>1 DEF TickInv, Asleep
  <2>3. runs' = runs
    BY <1>3 DEF Publish, PublishFails, Clear, tables
  <2>4. faults' = 0 => faults = 0
    BY FaultsNext
  <2> QED BY <2>1, <2>2, <2>3, <2>4 DEF TickInv
<1>4. CASE CommitTick(s) \/ AbortTick(s)
  <2>1. scheduler'[s] = Asleep
    BY <1>4, SchedulerSteps
  <2> QED BY <2>1 DEF Asleep
<1> QED BY <1>1, <1>2, <1>3, <1>4, SchedulerMoves

-----------------------------------------------------------------------------
(* The tokens of an event.                                                    *)

\* EventRest has nothing but what its definition names.
LEMMA EventElements ==
  ASSUME NEW ev
  PROVE  /\ Held({Trigger(ev)}) \cap EventRest(ev) = {}
         /\ \A r \in Runs : <<"run", r, Nobody>> \in EventRest(ev) <=> runs[r].event = ev
         /\ \A e, m : <<"inbox", e, m>> \notin EventRest(ev)
                      /\ <<"work", e, m>> \notin EventRest(ev)
         /\ \A t \in EventRest(ev)' : \E r \in Runs :
              t = <<"run", r, Nobody>> /\ runs'[r].event = ev
<1>1. \A t \in Held({Trigger(ev)}) : t[1] \in {"inbox", "work", "stream"}
  BY DEF Held
<1>2. \A t \in EventRest(ev) : t[1] = "run"
  BY DEF EventRest
<1>3. \A e, m : <<"inbox", e, m>>[1] = "inbox" /\ <<"work", e, m>>[1] = "work"
  OBVIOUS
<1>4. \A r \in Runs : <<"run", r, Nobody>> \in EventRest(ev) <=> runs[r].event = ev
  BY DEF EventRest
<1>5. \A t \in EventRest(ev)' : \E r \in Runs :
        t = <<"run", r, Nobody>> /\ runs'[r].event = ev
  BY DEF EventRest
<1> QED BY <1>1, <1>2, <1>3, <1>4, <1>5

\* An event that is accepted has nothing but its message.
LEMMA AcceptCounts ==
  ASSUME StructInv, EventsAreAccepted, AcceptedRuns, [Next]_vars,
         NEW ev \in Events, AcceptEvent(ev)
  PROVE  AtMost(EventTokens(ev)', 1 + faults')
<1> DEFINE b == <<"stream", Nobody, Trigger(ev)>>
<1>1. ~Exists(Trigger(ev)) /\ \A r \in Runs : runs[r].event # ev
  <2>1. ev \notin accepted /\ ev # Nobody
    BY NobodyAssumption DEF AcceptEvent
  <2> QED BY <2>1 DEF EventsAreAccepted, AcceptedRuns
<1>2. Held({Trigger(ev)}) = {}
  <2> SUFFICES ASSUME NEW t \in Held({Trigger(ev)}) PROVE FALSE
    OBVIOUS
  <2>1. t[3] = Trigger(ev) /\
        (t[3] \in stream \/ \E e \in Engines : t[3] \in inbox[e] \/ engine[e].msg = t[3])
    BY DEF Held
  <2> QED BY <1>1, <2>1 DEF Exists
<1>3. Held({Trigger(ev)})' \subseteq Held({Trigger(ev)}) \cup {b}
  <2>1. Held({Trigger(ev)})' \subseteq Held({Trigger(ev)}) \cup {b}
    BY HeldPublished DEF AcceptEvent
  <2> QED BY <2>1
<1>4. EventRest(ev)' = {}
  BY <1>1, EventElements DEF AcceptEvent, tables
<1>5. EventTokens(ev)' \subseteq {} \cup {b}
  BY <1>2, <1>3, <1>4 DEF EventTokens
<1>6. AtMost({}, 0)
  BY FS_EmptySet DEF AtMost
<1>7. AtMost(EventTokens(ev)', 0 + 1)
  <2> HIDE DEF b
  <2> QED BY <1>5, <1>6, AtMostMoves
<1>8. Cardinality(EventTokens(ev)') \in Nat /\ faults' \in Nat
  BY <1>7, FS_CardinalityType, FaultsNext DEF AtMost
<1> QED BY <1>7, <1>8 DEF AtMost

\* The commit of a new run takes the place of its event's message.
LEMMA NewRunCounts ==
  ASSUME StructInv, [Next]_vars, NEW ev \in Events, AtMost(EventTokens(ev), 1 + faults),
         NEW e \in Engines, Commit(e) \/ CommitUnknown(e),
         engine[e].created, engine[e].msg = Trigger(ev)
  PROVE  AtMost(EventTokens(ev)', 1 + faults')
<1>0. 1 + faults \in Nat
  BY FaultsNext
<1> DEFINE M == {Trigger(ev)}
           w == <<"work", e, Trigger(ev)>>
           b == <<"run", engine[e].run, Nobody>>
<1>1. /\ engine'[e].msg = engine[e].msg /\ engine[e].pc \in Working
      /\ \A f \in Engines : f # e => engine'[f] = engine[f]
      /\ UNCHANGED <<stream, inbox>>
      /\ Commit(e) => engine'[e].pc = "ack"
      /\ ~Commit(e) => faults' = faults + 1
  BY EndKeeps DEF Working
<1>2. Nobody \notin M
  BY NobodyAssumption DEF Messages, Triggers
<1>3. Held(M)' \subseteq Held(M) /\ (Commit(e) => w \notin Held(M)')
  <2> HIDE DEF M
  <2> QED BY <1>1, <1>2, HeldByEngine DEF Working
<1>4. w \in EventTokens(ev) /\ w \notin EventRest(ev)
  <2>1. w \in Held(M)
    BY <1>1, HeldElements
  <2> QED BY <2>1, EventElements DEF EventTokens
<1>5. EventRest(ev)' \subseteq EventRest(ev) \cup {b}
  <2> SUFFICES ASSUME NEW t \in EventRest(ev)', t # b PROVE t \in EventRest(ev)
    OBVIOUS
  <2>1. PICK r \in Runs : t = <<"run", r, Nobody>> /\ runs'[r].event = ev
    BY EventElements
  <2>2. r # engine[e].run
    BY <2>1
  <2>3. runs'[r] = runs[r]
    BY <2>2, CommittedRows DEF Commit, CommitUnknown
  <2> QED BY <2>1, <2>3, EventElements
<1>6. w # b
  <2>1. w[1] = "work" /\ b[1] = "run"
    OBVIOUS
  <2> QED BY <2>1
<1>7. CASE Commit(e)
  <2>1. EventTokens(ev)' \subseteq (EventTokens(ev) \ {w}) \cup {b}
    BY <1>3, <1>4, <1>5, <1>6, <1>7 DEF EventTokens
  <2>2. AtMost(EventTokens(ev)', 1 + faults)
    <3> HIDE DEF w, b
    <3> QED BY <1>0, <1>4, <2>1, AtMostMoved
  <2> QED BY <2>2, AtMostNext
<1>8. CASE ~Commit(e)
  <2>1. EventTokens(ev)' \subseteq EventTokens(ev) \cup {b}
    BY <1>3, <1>5 DEF EventTokens
  <2>2. AtMost(EventTokens(ev)', (1 + faults) + 1)
    <3> HIDE DEF b
    <3> QED BY <1>0, <2>1, AtMostMoves
  <2> QED BY <1>1, <1>8, <2>2, AtMostNext
<1> QED BY <1>7, <1>8

\* An event has one message or run, and one more for each fault.
LEMMA EventsCountedNext ==
  ASSUME StructInv, IdleInv, EventsAreAccepted, AcceptedRuns, EventsCounted, [Next]_vars
  PROVE  EventsCounted'
<1> SUFFICES ASSUME NEW ev \in Events PROVE AtMost(EventTokens(ev), 1 + faults)'
  BY DEF EventsCounted
<1>1. AtMost(EventTokens(ev), 1 + faults)
  BY DEF EventsCounted
<1>2. CASE AcceptEvent(ev)
  BY <1>2, AcceptCounts
<1>3. ASSUME NEW e \in Engines, Commit(e) \/ CommitUnknown(e), engine[e].created,
             engine[e].msg = Trigger(ev)
      PROVE  AtMost(EventTokens(ev)', 1 + faults')
  BY <1>1, <1>3, NewRunCounts
<1>4. CASE /\ ~AcceptEvent(ev)
           /\ \A e \in Engines : ~ /\ Commit(e) \/ CommitUnknown(e)
                                   /\ engine[e].created /\ engine[e].msg = Trigger(ev)
  <2> DEFINE M == {Trigger(ev)}
  <2>1. HandedOn(M)
    <3>1. M \in SUBSET Messages
      BY DEF Messages, Triggers
    <3>2. \A x \in Events : AcceptEvent(x) => Trigger(x) \notin M
      BY <1>4 DEF Trigger
    <3>3. \A s \in Schedulers : \A n : Publish(s) => Resume(scheduler[s].clearing, n) \notin M
      BY DEF Resume, Trigger
    <3> HIDE DEF M
    <3> QED BY <3>1, <3>2, <3>3, HeldNext
  <2>2. EventRest(ev)' \subseteq EventRest(ev)
    <3> SUFFICES ASSUME NEW t \in EventRest(ev)' PROVE t \in EventRest(ev)
      OBVIOUS
    <3>1. PICK r \in Runs : t = <<"run", r, Nobody>> /\ runs'[r].event = ev
      BY EventElements
    <3>2. runs[r].event = ev
      BY <1>4, <3>1, RunEventsNext
    <3> QED BY <3>1, <3>2, EventElements
  <2>3. AtMost(Held(M)' \cup EventRest(ev)', 1 + faults')
    BY <1>1, <2>1, <2>2, EventElements, HandedOnCounts DEF EventTokens
  <2> QED BY <2>3 DEF EventTokens
<1>5. AtMost(EventTokens(ev)', 1 + faults')
  BY <1>2, <1>3, <1>4
<1> QED BY <1>5 DEF AtMost

-----------------------------------------------------------------------------
(* The steps of a run.                                                        *)

\* Every run comes to the end of the workflow: its first text has no cycle.
NoCycle == \A ev \in Events : Ends(ev, 0)

\* Engine e has steps of its run before it, now or after the delay it writes.
Walks(e) == engine[e].pc = "walk" \/ (engine[e].pc = "commit" /\ engine[e].write = "pause")

\* Less of the way is left at index i than at step j.
Past(ev, i, j) == Remaining(ev, i) < Remaining(ev, j)

\* The transactions and the rows of a run are past the steps it has dispatched.
EnginesArePast ==
  \A n \in jobs, e \in Engines :
    engine[e].run = n.run /\ Walks(e) => Past(EventOf(e), engine[e].i, n.step)

RowsArePast ==
  \A n \in jobs :
    runs[n.run].status = "running" /\ (\A e \in Engines : engine[e].run # n.run) =>
      Past(runs[n.run].event, runs[n.run].index, n.step)

\* No step of a run has been dispatched twice.
StepsOnce == \A n, d \in jobs : n.run = d.run /\ n.step = d.step => n = d

\* Without a fault or an edit a run does not come back to where it has been.
StepsInv == faults = 0 /\ edits = 0 => EnginesArePast /\ RowsArePast /\ StepsOnce

\* As long as nothing has failed, nothing has failed before.
LEMMA NoFault ==
  ASSUME StructInv, [Next]_vars, faults' = 0, edits' = 0
  PROVE  /\ faults = 0 /\ edits = 0
         /\ \A e \in Engines : ~CommitUnknown(e) /\ ~RollBack(e) /\ ~DispatchFails(e) /\ ~Crash(e)
<1>1. faults \in Nat /\ edits \in Nat
  BY BoundsAssumption DEF StructInv, TypeOK
<1>2. faults = 0
  BY <1>1, FaultsNext
<1>3. edits = 0
  BY <1>1, EditsNext
<1> QED BY <1>2, <1>3 DEF CommitUnknown, RollBack, DispatchFails, Crash, Fault

\* Jobs are published by Dispatch only, but for a fault.
LEMMA JobsBy ==
  ASSUME [Next]_vars, \A e \in Engines : ~DispatchFails(e)
  PROVE  jobs' = jobs \/ \E e \in Engines : Dispatch(e)
BY DEF Next, vars, tables, AcceptEvent, UpdateWorkflow, SwitchWorkflow, Elapse, Deliver,
       Redeliver, Handle, StartRun, IgnoreEvent, ResumeRun, SkipResume, Work,
       SkipChannel, Branch, Pause, Complete, Fail, WriteRun, Commit,
       CommitTo, Ack, Nak, EngineFault, RollBack, CommitUnknown, Crash,
       Tick, Scan, Clear, Publish, CommitTick, SchedulerFault, PublishFails, AbortTick

\* One engine at a time has a run that is on its way once.
LEMMA OneEngine ==
  ASSUME StructInv, NEW r \in Runs, AtMost(RunTokens(r), 1),
         NEW e \in Engines, NEW f \in Engines, engine[e].run = r, engine[f].run = r
  PROVE  e = f
<1>1. Nobody \notin Runs
  BY NobodyAssumption
<1>2. CASE engine[e].created \/ engine[f].created
  BY <1>2, EngineFacts
<1>3. CASE ~engine[e].created /\ ~engine[f].created
  <2>1. /\ engine[e].msg \in ResumesOf(r) /\ engine[f].msg \in ResumesOf(r)
        /\ engine[e].pc \in Working /\ engine[f].pc \in Working
    BY <1>1, <1>3 DEF StructInv, EnginesFitTheirMessages, ResumesOf, Working
  <2>2. /\ <<"work", e, engine[e].msg>> \in RunTokens(r)
        /\ <<"work", f, engine[f].msg>> \in RunTokens(r)
    BY <2>1, HeldElements DEF RunTokens
  <2>3. <<"work", e, engine[e].msg>> = <<"work", f, engine[f].msg>>
    BY <2>2, OnlyToken
  <2> QED BY <2>3
<1> QED BY <1>2, <1>3

\* Whoever resumes a run that is on its way once is alone.
LEMMA ResumesAlone ==
  ASSUME StructInv, IdleInv, NEW e \in Engines, NEW m \in Resumes, ResumeRun(e, m),
         AtMost(RunTokens(m.run), 1)
  PROVE  \A f \in Engines : engine[f].run # m.run
<1> SUFFICES ASSUME NEW f \in Engines, engine[f].run = m.run PROVE FALSE
  OBVIOUS
<1>1. /\ m.run \in Runs /\ Nobody \notin Runs /\ runs[m.run].status = "running"
      /\ m \in inbox[e] /\ m \in ResumesOf(m.run)
  BY NobodyAssumption DEF ResumeRun, Take, Resumes, Resume, ResumesOf
<1>2. ~engine[f].created
  BY <1>1, EngineFacts
<1>3. engine[f].msg \in ResumesOf(m.run) /\ engine[f].pc \in Working
  BY <1>1, <1>2 DEF StructInv, EnginesFitTheirMessages, ResumesOf, Working
<1>4. /\ <<"work", f, engine[f].msg>> \in RunTokens(m.run)
      /\ <<"inbox", e, m>> \in RunTokens(m.run)
  BY <1>1, <1>3, HeldElements DEF RunTokens
<1>5. <<"work", f, engine[f].msg>> = <<"inbox", e, m>>
  BY <1>4, OnlyToken
<1> QED BY <1>5

\* A step of the walk leaves less of the way.
LEMMA WalkGoesOn ==
  ASSUME StructInv, FateInv, NoCycle, [Next]_vars, edits = 0, NEW e \in Engines,
         Dispatch(e) \/ SkipChannel(e) \/ Branch(e) \/ Pause(e) \/ Complete(e) \/ Fail(e)
  PROVE  /\ EventOf(e)' = EventOf(e)
         /\ Remaining(EventOf(e), engine[e].i) \in Nat
         /\ Walks(e)' => /\ Remaining(EventOf(e), engine'[e].i) \in Nat
                         /\ Past(EventOf(e), engine'[e].i, engine[e].i)
<1> DEFINE ev == EventOf(e)
           st == engine[e]
           next == Successor(StepsOf[FirstVersion], st.i, PayloadOf[ev])
<1>1. engine \in [Engines -> EngineStates] /\ st \in EngineStates
  BY DEF StructInv, TypeOK
<1>2. st.pc = "walk" /\ st.run # Nobody
  BY WalkKeeps, EngineFacts, NobodyAssumption
<1>3. st.version = FirstVersion /\ st.payload = PayloadOf[ev] /\ OnTheWay(ev, st.i)
  BY <1>2 DEF FateInv, EngineFits
<1>4. NextOf(e) = next /\ Len(StepList(e)) = Size
  BY <1>3 DEF NextOf, StepList, Size
<1>5. st.i \in Nat /\ Size \in Nat /\ Remaining(ev, st.i) \in 0 .. Size
  BY <1>1, WayOn DEF EngineStates
<1>6. Ends(ev, st.i)
  <2>1. ev \in Events
    BY <1>2, EventOfEngine
  <2> QED BY <1>3, <2>1 DEF NoCycle, OnTheWay
<1>7. st.i < Size => next \in Nat /\ Remaining(ev, st.i) = Remaining(ev, next) + 1
  BY <1>5, <1>6, WayOn
<1>8. next \in Nat => Remaining(ev, next) \in Nat
  BY <1>5, WayOn
<1>9. EventOf(e)' = ev
  BY <1>2, EventOfStays, WalkKeeps
<1> HIDE DEF next
<1>10. Walks(e)' => engine'[e].i = next /\ st.i < Size
  <2>1. CASE Dispatch(e) \/ SkipChannel(e) \/ Branch(e)
    <3>1. st.i < Size
      BY <1>4, <2>1 DEF Dispatch, SkipChannel, Branch, AtStep
    <3>2. \/ engine'[e] = [st EXCEPT !.i = next, !.visited = @ + 1]
          \/ engine'[e] = [[st EXCEPT !.i = next, !.visited = @ + 1]
                             EXCEPT !.sent = @ \cup {NewNotification(e)}]
      BY <1>1, <1>4, <2>1 DEF Dispatch, SkipChannel, Branch, SetEngine, Advanced
    <3>3. engine'[e].i = next
      BY <1>1, <3>2 DEF EngineStates
    <3> QED BY <3>1, <3>3
  <2>2. CASE Pause(e)
    <3>1. WriteRun(e, "pause", next) /\ st.i < Size
      BY <1>4, <2>2 DEF Pause, AtStep
    <3>2. engine'[e] = [st EXCEPT !.pc = "commit", !.write = "pause", !.i = next]
      BY <1>1, <3>1 DEF WriteRun, SetEngine
    <3>3. engine'[e].i = next
      BY <1>1, <3>2 DEF EngineStates
    <3> QED BY <3>1, <3>3
  <2>3. CASE Complete(e) \/ Fail(e)
    <3>1. PICK write, index : write \in {"complete", "fail"} /\ WriteRun(e, write, index)
      BY <2>3 DEF Complete, Fail
    <3>2. engine'[e] = [st EXCEPT !.pc = "commit", !.write = write, !.i = index]
      BY <1>1, <3>1 DEF WriteRun, SetEngine
    <3>3. engine'[e].pc = "commit" /\ engine'[e].write = write
      BY <1>1, <3>2 DEF EngineStates
    <3> QED BY <3>1, <3>3 DEF Walks
  <2> QED BY <2>1, <2>2, <2>3
<1> HIDE DEF ev, st
<1>11. Remaining(ev, st.i) \in Nat
  BY <1>5
<1>12. Walks(e)' => Remaining(ev, engine'[e].i) \in Nat /\ Past(ev, engine'[e].i, st.i)
  BY <1>7, <1>8, <1>10, <1>11 DEF Past
<1> QED BY <1>9, <1>11, <1>12 DEF ev, st

\* The types of what Past compares.
LEMMA PastTypes ==
  ASSUME StructInv
  PROVE  /\ \A ev, i : i \in Nat => Remaining(ev, i) \in Nat
         /\ \A n \in jobs : n.run \in Runs /\ n.step \in Nat
         /\ \A e \in Engines : engine[e].i \in Nat
         /\ \A r \in Runs : runs[r].index \in Nat
<1>1. \A ev, i : i \in Nat => Remaining(ev, i) \in Nat
  BY WayOn
<1>2. \A n \in jobs : n.run \in Runs /\ n.step \in Nat
  BY DEF StructInv, TypeOK, Notifications
<1>3. \A e \in Engines : engine[e].i \in Nat
  BY DEF StructInv, TypeOK, EngineStates
<1>4. \A r \in Runs : runs[r].index \in Nat
  BY DEF StructInv, TypeOK, RunRows
<1> QED BY <1>1, <1>2, <1>3, <1>4

\* What a step without a fault publishes.
LEMMA NewJobs ==
  ASSUME [Next]_vars, \A e \in Engines : ~DispatchFails(e), NEW n \in jobs'
  PROVE  n \in jobs \/ \E e \in Engines : /\ Dispatch(e) /\ n = NewNotification(e)
                                          /\ n.run = engine[e].run /\ n.step = engine[e].i
<1>1. CASE jobs' = jobs
  BY <1>1
<1>2. ASSUME NEW e \in Engines, Dispatch(e)
      PROVE  n \in jobs \/ (n = NewNotification(e) /\ n.run = engine[e].run /\ n.step = engine[e].i)
  BY <1>2 DEF Dispatch, NewNotification
<1> QED BY <1>1, <1>2, JobsBy

\* A run that an engine walks is past the steps dispatched, after a step too.
LEMMA EnginesPastNext ==
  ASSUME StructInv, IdleInv, FateInv, RunsCounted, NoCycle, [Next]_vars,
         faults' = 0, edits' = 0, EnginesArePast, RowsArePast
  PROVE  EnginesArePast'
<1> SUFFICES ASSUME NEW n \in jobs', NEW e \in Engines, engine'[e].run = n.run, Walks(e)'
             PROVE  Past(EventOf(e)', engine'[e].i, n.step)
  BY DEF EnginesArePast, Past
<1>1. /\ faults = 0 /\ edits = 0
      /\ \A f \in Engines : ~CommitUnknown(f) /\ ~RollBack(f) /\ ~DispatchFails(f) /\ ~Crash(f)
  BY NoFault
<1>2. StructInv'
  BY StructNext
<1>3. n.run \in Runs /\ n.step \in Nat /\ Nobody \notin Runs
  BY <1>2, NobodyAssumption DEF StructInv, TypeOK, Notifications
<1>4. AtMost(RunTokens(n.run), 1)
  BY <1>1, <1>3 DEF RunsCounted
<1>5. CASE Dispatch(e) \/ SkipChannel(e) \/ Branch(e) \/ Pause(e) \/ Complete(e) \/ Fail(e)
  <2>1. /\ EventOf(e)' = EventOf(e) /\ engine[e].run = n.run /\ Walks(e)
        /\ Remaining(EventOf(e), engine[e].i) \in Nat
        /\ Remaining(EventOf(e), engine'[e].i) \in Nat
        /\ Past(EventOf(e), engine'[e].i, engine[e].i)
    BY <1>1, <1>5, WalkGoesOn, WalkKeeps DEF Walks
  <2>2. CASE n \in jobs
    <3>1. Past(EventOf(e), engine[e].i, n.step)
      BY <2>1, <2>2 DEF EnginesArePast
    <3>2. Remaining(EventOf(e), n.step) \in Nat
      BY <1>3, PastTypes
    <3> QED BY <2>1, <3>1, <3>2 DEF Past
  <2>3. ASSUME NEW f \in Engines, n.run = engine[f].run, n.step = engine[f].i
        PROVE  Past(EventOf(e)', engine'[e].i, n.step)
    <3>1. f = e
      BY <1>3, <1>4, <2>1, <2>3, OneEngine
    <3> QED BY <2>1, <2>3, <3>1
  <2> QED BY <1>1, <2>2, <2>3, NewJobs
<1>6. CASE engine'[e] = engine[e] /\ ~Dispatch(e)
  <2>1. EventOf(e)' = EventOf(e)
    BY <1>3, <1>6, EventOfStays
  <2>2. n \in jobs
    <3>1. ASSUME NEW f \in Engines, Dispatch(f), n.run = engine[f].run PROVE FALSE
      BY <1>3, <1>4, <1>6, <3>1, OneEngine
    <3> QED BY <1>1, <3>1, NewJobs
  <2>3. Walks(e)
    BY <1>6 DEF Walks
  <2> QED BY <1>6, <2>1, <2>2, <2>3 DEF EnginesArePast
<1>7. CASE Handle(e)
  <2>0. jobs' = jobs /\ runs' = runs /\ engine \in [Engines -> EngineStates]
    BY <1>7, HandleTakes DEF tables, StructInv, TypeOK
  <2>1. ASSUME NEW ev \in Events, NEW r \in Runs, StartRun(e, ev, r) PROVE FALSE
    <3>1. engine'[e].run = r /\ \A d \in jobs : d.run # r
      BY <2>0, <2>1 DEF StartRun, SetEngine, Idle
    <3> QED BY <2>0, <3>1
  <2>2. ASSUME NEW m \in Resumes, ResumeRun(e, m)
        PROVE  Past(EventOf(e)', engine'[e].i, n.step)
    <3>1. engine'[e] = [Idle EXCEPT !.pc = "walk", !.msg = m, !.run = m.run,
                          !.version = workflow.version, !.i = runs[m.run].index,
                          !.payload = PayloadOf[runs[m.run].event]]
      BY <2>0, <2>2 DEF ResumeRun, SetEngine
    <3>2. /\ engine'[e].run = m.run /\ engine'[e].i = runs[m.run].index
          /\ ~engine'[e].created
      BY <3>1 DEF Idle
    <3>3. EventOf(e)' = runs[m.run].event
      BY <2>0, <3>2 DEF EventOf
    <3>4. \A f \in Engines : engine[f].run # m.run
      BY <1>4, <2>2, <3>2, ResumesAlone
    <3>5. runs[n.run].status = "running"
      BY <2>2, <3>2 DEF ResumeRun
    <3> QED BY <2>0, <3>2, <3>3, <3>4, <3>5 DEF RowsArePast
  <2>3. ASSUME NEW ev \in Events, IgnoreEvent(e, ev) PROVE FALSE
    BY <1>3, <2>0, <2>3 DEF IgnoreEvent, SetEngine, Idle
  <2>4. ASSUME NEW m \in Resumes, SkipResume(e, m) PROVE FALSE
    BY <1>3, <2>0, <2>4 DEF SkipResume, SetEngine, Idle
  <2> QED BY <1>7, <2>1, <2>2, <2>3, <2>4 DEF Handle
<1>8. CASE Commit(e) \/ Ack(e) \/ Nak(e)
  BY <1>3, <1>8, EndKeeps, ReplyKeeps, IdleFacts
<1> QED BY <1>1, <1>5, <1>6, <1>7, <1>8, EngineMoves DEF Work, EngineFault

\* An engine gives a run up by its commit, as long as nothing fails.
LEMMA RunsAreHeld ==
  ASSUME StructInv, [Next]_vars, NEW e \in Engines, NEW r \in Runs, engine[e].run = r,
         ~Commit(e), ~CommitUnknown(e), ~RollBack(e), ~DispatchFails(e), ~Crash(e)
  PROVE  engine'[e].run = r
<1>1. engine[e].pc \in {"walk", "commit"}
  BY NobodyAssumption DEF StructInv, EnginesFitTheirMessages
<1>2. ~Handle(e) /\ ~Ack(e) /\ ~Nak(e)
  BY <1>1 DEF Handle, StartRun, IgnoreEvent, ResumeRun, SkipResume, Take, Ack, Nak
<1> QED BY <1>2, EngineMoves, WalkKeeps DEF Work, EngineFault

\* The same for the rows of the runs that no engine walks.
LEMMA RowsPastNext ==
  ASSUME StructInv, [Next]_vars, faults' = 0, edits' = 0, EnginesArePast, RowsArePast
  PROVE  RowsArePast'
<1> SUFFICES ASSUME NEW n \in jobs', runs'[n.run].status = "running",
                    \A e \in Engines : engine'[e].run # n.run
             PROVE  Past(runs'[n.run].event, runs'[n.run].index, n.step)
  BY DEF RowsArePast, Past
<1>1. \A f \in Engines : ~CommitUnknown(f) /\ ~RollBack(f) /\ ~DispatchFails(f) /\ ~Crash(f)
  BY NoFault
<1>2. StructInv'
  BY StructNext
<1>3. n.run \in Runs /\ Nobody \notin Runs
  BY <1>2, NobodyAssumption DEF StructInv, TypeOK, Notifications
<1>4. n \in jobs
  <2>1. ASSUME NEW f \in Engines, Dispatch(f), n.run = engine[f].run PROVE FALSE
    BY <2>1, WalkKeeps
  <2> QED BY <1>1, <2>1, NewJobs
<1>5. ASSUME NEW e \in Engines, Commit(e), engine[e].run = n.run
      PROVE  Past(runs'[n.run].event, runs'[n.run].index, n.step)
  <2>1. CommitTo(e, "ack") /\ engine[e].pc = "commit"
    BY <1>5 DEF Commit, CommitTo
  <2>2. engine[e].write = "pause" /\ runs'[n.run].index = engine[e].i
    BY <1>3, <1>5, <2>1, WrittenRow
  <2>3. runs'[n.run].event = EventOf(e)
    BY <1>3, <1>5, <2>1, CommittedRows DEF EventOf
  <2> QED BY <1>4, <1>5, <2>1, <2>2, <2>3 DEF EnginesArePast, Walks
<1>6. CASE \A e \in Engines : Commit(e) => engine[e].run # n.run
  <2>1. /\ runs'[n.run].status = runs[n.run].status /\ runs'[n.run].index = runs[n.run].index
        /\ runs'[n.run].event = runs[n.run].event
    BY <1>1, <1>3, <1>6, ResumeTimesNext
  <2>2. \A e \in Engines : engine[e].run # n.run
    BY <1>1, <1>3, <1>6, RunsAreHeld
  <2> QED BY <1>4, <2>1, <2>2 DEF RowsArePast
<1> QED BY <1>5, <1>6

\* A step is dispatched where no job of it has been published.
LEMMA StepsOnceNext ==
  ASSUME StructInv, [Next]_vars, faults' = 0, edits' = 0, EnginesArePast, StepsOnce
  PROVE  StepsOnce'
<1>1. \A f \in Engines : ~DispatchFails(f)
  BY NoFault
<1>2. CASE jobs' = jobs
  BY <1>2 DEF StepsOnce
<1>3. ASSUME NEW e \in Engines, Dispatch(e) PROVE StepsOnce'
  <2>1. /\ jobs' = jobs \cup {NewNotification(e)} /\ Walks(e)
        /\ NewNotification(e).run = engine[e].run /\ NewNotification(e).step = engine[e].i
    BY <1>3 DEF Dispatch, AtStep, Walks, NewNotification
  <2>2. Remaining(EventOf(e), engine[e].i) \in Nat
    BY PastTypes
  <2>3. \A n \in jobs : ~(n.run = engine[e].run /\ n.step = engine[e].i)
    BY <2>1, <2>2 DEF EnginesArePast, Past
  <2> HIDE DEF NewNotification
  <2> QED BY <2>1, <2>3 DEF StepsOnce
<1> QED BY <1>1, <1>2, <1>3, JobsBy

\* The three together.
LEMMA StepsNext ==
  ASSUME StructInv, IdleInv, FateInv, RunsCounted, NoCycle, StepsInv, [Next]_vars
  PROVE  StepsInv'
<1> SUFFICES ASSUME faults' = 0, edits' = 0
             PROVE  EnginesArePast' /\ RowsArePast' /\ StepsOnce'
  BY DEF StepsInv
<1>1. EnginesArePast /\ RowsArePast /\ StepsOnce
  BY NoFault DEF StepsInv
<1> QED BY <1>1, EnginesPastNext, RowsPastNext, StepsOnceNext

-----------------------------------------------------------------------------
(* What the counts say of the properties.                                     *)

\* No token and no tick, before anything has happened.
LEMMA CountsInit ==
  Init => /\ UpdatesAreLocked /\ IdleInv /\ AcceptedRuns /\ TickInv
          /\ RunsCounted /\ EventsCounted /\ StepsInv
<1> SUFFICES ASSUME Init
             PROVE  /\ UpdatesAreLocked /\ IdleInv /\ AcceptedRuns /\ TickInv
                    /\ RunsCounted /\ EventsCounted /\ StepsInv
  OBVIOUS
<1>1. /\ \A e \in Engines : /\ engine[e].pc = "idle" /\ engine[e].run = Nobody
                            /\ engine[e].msg = Nobody /\ inbox[e] = {}
                            /\ ~engine[e].created
      /\ \A s \in Schedulers : /\ scheduler[s] = Asleep /\ scheduler[s].due = {}
                               /\ scheduler[s].cleared = {}
      /\ \A r \in Runs : runs[r].event = Nobody /\ runs[r].resume = "none"
      /\ stream = {} /\ jobs = {} /\ faults = 0
  BY DEF Init, Idle, NoRow, Asleep
<1>2. \A M : Held(M) = {}
  BY <1>1 DEF Held, Working
<1>3. AtMost({}, 1 + faults)
  BY <1>1, FS_EmptySet DEF AtMost
<1>4. \A r \in Runs : RunTokens(r) = {}
  BY <1>1, <1>2, NobodyAssumption DEF RunTokens, RunRest, Owed
<1>5. \A ev \in Events : EventTokens(ev) = {}
  BY <1>1, <1>2, NobodyAssumption DEF EventTokens, EventRest
<1>6. RunsCounted /\ EventsCounted
  BY <1>3, <1>4, <1>5 DEF RunsCounted, EventsCounted
<1>7. UpdatesAreLocked /\ IdleInv /\ AcceptedRuns /\ TickInv
  BY <1>1 DEF UpdatesAreLocked, IdleInv, AcceptedRuns, TickInv
<1>8. StepsInv
  BY <1>1 DEF StepsInv, EnginesArePast, RowsArePast, StepsOnce
<1> QED BY <1>6, <1>7, <1>8

\* What bounds the runs of an event, however many schedulers there are.
EventsInv == RefInv /\ IdleInv /\ AcceptedRuns /\ EventsCounted

\* What bounds the messages of a run, with one scheduler.
CountInv == RefInv /\ UpdatesAreLocked /\ IdleInv /\ TickInv /\ RunsCounted

\* Both are inductive, and so is what they say of the steps.
LEMMA EventsInvNext == EventsInv /\ [Next]_vars => EventsInv'
BY RefInvNext, IdleNext, AcceptedRunsNext, EventsCountedNext DEF EventsInv, RefInv

\* This one with one scheduler.
LEMMA CountInvNext ==
  ASSUME OneScheduler
  PROVE  CountInv /\ [Next]_vars => CountInv'
BY RefInvNext, LocksNext, IdleNext, TickNext, RunsCountedNext DEF CountInv, RefInv

\* And this one for a workflow without a cycle.
LEMMA StepsInvNext ==
  ASSUME NoCycle
  PROVE  CountInv /\ StepsInv /\ [Next]_vars => StepsInv'
BY StepsNext DEF CountInv, RefInv

\* All of them hold at the start.
LEMMA CountsStart == Init => EventsInv /\ CountInv /\ StepsInv
BY LifecycleInit, CountsInit DEF EventsInv, CountInv

\* The runs of an event are among its tokens.
LEMMA EventRunsBound ==
  ASSUME EventsInv, NEW ev \in Events
  PROVE  Cardinality({r \in Runs : runs[r].event = ev}) <= 1 + faults
<1> DEFINE U == {r \in Runs : runs[r].event = ev}
           T == EventTokens(ev)
           f == [x \in T |-> x[2]]
<1>1. AtMost(T, 1 + faults) /\ 1 + faults \in Nat
  BY BoundsAssumption DEF EventsInv, RefInv, StructInv, TypeOK, EventsCounted
<1>2. ASSUME NEW r \in U PROVE \E x \in T : r = f[x]
  <2>1. <<"run", r, Nobody>> \in T
    BY EventElements DEF EventTokens
  <2>2. f[<<"run", r, Nobody>>] = r
    BY <2>1
  <2> QED BY <2>1, <2>2
<1>3. Renames(f, T, U)
  BY <1>2 DEF Renames
<1>4. AtMost(U, 1 + faults)
  <2> HIDE DEF f, T, U
  <2> QED BY <1>1, <1>3, AtMostRenamed
<1> QED BY <1>4 DEF AtMost

\* The resume messages of a run that are pending are among its tokens.
LEMMA PendingBound ==
  ASSUME CountInv, NEW r \in Runs
  PROVE  Cardinality(PendingResumes(r)) <= 1 + faults
<1> DEFINE U == PendingResumes(r)
           T == RunTokens(r)
           f == [x \in T |-> x[3]]
<1>1. AtMost(T, 1 + faults) /\ 1 + faults \in Nat
  BY BoundsAssumption DEF CountInv, RefInv, StructInv, TypeOK, RunsCounted
<1>2. ASSUME NEW m \in U PROVE \E x \in T : m = f[x]
  <2>1. /\ m \in stream /\ m.kind = "resume" /\ m.run = r /\ m \in Messages
        /\ \A e \in Engines : engine[e].msg = m => engine[e].pc # "ack"
    BY DEF PendingResumes, CountInv, RefInv, StructInv, TypeOK
  <2>2. m \in ResumesOf(r) /\ m # Nobody
    BY <2>1, NobodyAssumption DEF Messages, Triggers, Trigger, ResumesOf
  <2>3. ASSUME NEW e \in Engines, engine[e].msg = m PROVE engine[e].pc \in Working
    <3>1. engine[e] \in EngineStates
      BY DEF CountInv, RefInv, StructInv, TypeOK
    <3>2. engine[e].pc # "idle" /\ engine[e].pc # "ack"
      BY <2>1, <2>2, <2>3 DEF CountInv, IdleInv
    <3> QED BY <3>1, <3>2 DEF EngineStates, Working
  <2>4. \/ <<"stream", Nobody, m>> \in Held(ResumesOf(r))
        \/ \E e \in Engines : \/ <<"inbox", e, m>> \in Held(ResumesOf(r))
                              \/ <<"work", e, m>> \in Held(ResumesOf(r))
    BY <2>1, <2>2, <2>3, HeldElements DEF Outstanding
  <2>5. PICK k, e : <<k, e, m>> \in T
    BY <2>4 DEF RunTokens
  <2>6. f[<<k, e, m>>] = m
    BY <2>5
  <2> QED BY <2>5, <2>6
<1>3. Renames(f, T, U)
  BY <1>2 DEF Renames
<1>4. AtMost(U, 1 + faults)
  <2> HIDE DEF f, T, U
  <2> QED BY <1>1, <1>3, AtMostRenamed
<1> QED BY <1>4 DEF AtMost

\* A run whose message is at an engine is not waiting for a later resume_at.
LEMMA DelayIsOver ==
  ASSUME CountInv, OneScheduler, faults = 0, NEW e \in Engines, NEW m \in Resumes, ResumeRun(e, m)
  PROVE  runs[m.run].resume # "later"
<1> SUFFICES ASSUME runs[m.run].resume = "later" PROVE FALSE
  OBVIOUS
<1>1. m.run \in Runs /\ m \in ResumesOf(m.run) /\ m \in inbox[e]
  BY DEF ResumeRun, Take, Resumes, Resume, ResumesOf
<1>2. Owed(m.run)
  BY DEF Owed, CountInv, TickInv
<1>3. /\ <<"inbox", e, m>> \in RunTokens(m.run)
      /\ <<"row", Nobody, m.run>> \in RunTokens(m.run)
  BY <1>1, <1>2, HeldElements, RunElements DEF RunTokens
<1>4. AtMost(RunTokens(m.run), 1)
  BY <1>1 DEF CountInv, RunsCounted
<1>5. <<"inbox", e, m>> = <<"row", Nobody, m.run>>
  BY <1>3, <1>4, OnlyToken
<1>6. <<"inbox", e, m>>[1] = "inbox" /\ <<"row", Nobody, m.run>>[1] = "row"
  OBVIOUS
<1> QED BY <1>5, <1>6

\* However many schedulers and cycles there are, an event starts at most one
\* run more for each fault: the runs that createRun commits for redelivered
\* messages of NOTIFY_EVENTS do not multiply.
THEOREM EventsStartFewRuns ==
  Spec => [](\A ev \in Events : Cardinality({r \in Runs : runs[r].event = ev}) <= 1 + faults)
<1>1. Init => EventsInv
  BY CountsStart
<1>2. EventsInv =>
        \A ev \in Events : Cardinality({r \in Runs : runs[r].event = ev}) <= 1 + faults
  BY EventRunsBound
<1> QED BY <1>1, <1>2, EventsInvNext, PTL DEF Spec

\* Without a fault or an edit executeFrom dispatches no step of a run twice, and
\* each fault adds at most one run of an event and one message of a run, with
\* one scheduler and a workflow that does not run in a circle.
THEOREM RepeatsAreBounded ==
  ASSUME OneScheduler, NoCycle
  PROVE  Spec => []DuplicatesBounded
<1> DEFINE Inv == EventsInv /\ CountInv /\ StepsInv
<1>1. Init => Inv
  BY CountsStart
<1>2. Inv /\ [Next]_vars => Inv'
  BY EventsInvNext, CountInvNext, StepsInvNext
<1>3. Inv => DuplicatesBounded
  BY EventRunsBound, PendingBound DEF DuplicatesBounded, StepsInv, StepsOnce
<1> QED BY <1>1, <1>2, <1>3, PTL DEF Spec

\* Without a fault Resume continues no run before the delay it stands in is
\* over: with one scheduler, a run with a message to act on has no resume_at.
THEOREM DelaysKept ==
  ASSUME OneScheduler
  PROVE  Spec => DelaysAreKept
<1> DEFINE Kept == faults = 0 =>
             \A e \in Engines, m \in Resumes : ResumeRun(e, m) => runs[m.run].resume # "later"
<1>1. Init => CountInv
  BY CountsStart
<1>2. CountInv /\ [Next]_vars => Kept
  BY DelayIsOver
<1> QED BY <1>1, <1>2, CountInvNext, PTL DEF Spec, DelaysAreKept
=============================================================================
