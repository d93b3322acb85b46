------------------------ MODULE ChannelWorkerProofs ------------------------
(***************************************************************************)
(* Proofs about ChannelWorker, for any number of workers, jobs, providers, *)
(* deliveries and faults, and for each of the five channels.  The          *)
(* inductive invariant Inv says what a worker's local state promises: a    *)
(* job it is about to acknowledge is done and has left a trace, and a      *)
(* status it is about to report or to write is that of a message some      *)
(* provider took.  How often a job is sent, and what the gates let         *)
(* through, is proved on top of it.                                        *)
(***************************************************************************)
EXTENDS ChannelWorker, FiniteSetTheorems, TLAPS

\* A worker that is not idle has a job and the number of a delivery.
HasJob(w) ==
  worker[w].pc # "idle" =>
    worker[w].job \in Jobs /\ worker[w].delivery \in 1 .. MaxDeliver

\* A worker that reports has an event to report.
HasEvent(w) == worker[w].pc = "record" => worker[w].event \in EventTypes

\* What is about to be acknowledged is committed or dead-lettered.
MayAck(w) ==
  worker[w].pc = "reply" /\ worker[w].reply = "ack" => worker[w].job \in handled \cup dlq

\* What is about to be reported or written as sent was taken, in this delivery.
MayReport(w) ==
  worker[w].pc # "idle" /\ SentStatus \in {worker[w].event, worker[w].write} =>
    \E p \in 1 .. Providers : <<worker[w].job, worker[w].delivery, p>> \in accepted

\* Where every job that is done must have left a trace: not in the in-app
\* worker, nor in the SMS worker once the window has moved.
Tracing == channel # "inapp" /\ (channel = "sms" => turns = 0)
Traced(j) == j \in dlq \cup unreported \/ Reported(j)

\* A job about to be acknowledged has left it before the commit.
HasTrace(w) ==
  Tracing /\ worker[w].pc \in {"commit", "reply"} /\ worker[w].reply = "ack" =>
    Traced(worker[w].job)

Promises(w) == HasJob(w) /\ HasEvent(w) /\ MayAck(w) /\ MayReport(w) /\ HasTrace(w)

\* The window is closed until it first moves, which it does for SMS alone.
WindowInv == (channel = "sms" => turns = 0) => window = "closed"

Inv ==
  /\ TypeOK
  /\ \A w \in Workers : Promises(w)
  /\ WindowInv
  /\ AcknowledgedJobsAreDone
  /\ ReportsAreTrue
  /\ FinishedJobsLeaveATrace

-----------------------------------------------------------------------------
(* What a step does to the workers.                                        *)

PCs == {"idle", "gates", "category", "registry", "window", "defer", "send", "record",
        "commit", "reply", "failed"}
Writes == {"nothing", "sent", "delivered", "suppressed"}

\* The step is one of worker w.
OnlyMoves(w) ==
  /\ worker' \in [Workers -> WorkerStates]
  /\ \A v \in Workers \ {w} : worker'[v] = worker[v]

\* Worker w stays with its delivery.
KeepsJob(w) ==
  worker'[w].job = worker[w].job /\ worker'[w].delivery = worker[w].delivery

\* SetWorker changes one worker and keeps the type of the others.
LEMMA SetWorkerEffect ==
  ASSUME TypeOK, NEW w \in Workers, NEW state \in WorkerStates, SetWorker(w, state)
  PROVE  OnlyMoves(w) /\ worker'[w] = state
  BY DEF TypeOK, SetWorker, OnlyMoves

\* A worker that is done with its message is idle.
LEMMA IdleEffect ==
  ASSUME TypeOK, NEW w \in Workers, SetWorker(w, Idle)
  PROVE  OnlyMoves(w) /\ worker'[w].pc = "idle"
<1>1. Idle \in WorkerStates /\ Idle.pc = "idle"
  BY NumbersAssumption DEF Idle, WorkerStates, EventTypes
<1> QED BY <1>1, SetWorkerEffect

\* A step that sets only the program counter.
LEMMA GoEffect ==
  ASSUME TypeOK, NEW w \in Workers, NEW pc \in PCs,
         SetWorker(w, [worker[w] EXCEPT !.pc = pc])
  PROVE  /\ OnlyMoves(w) /\ KeepsJob(w)
         /\ worker'[w].pc = pc
         /\ worker'[w].event = worker[w].event /\ worker'[w].write = worker[w].write
         /\ worker'[w].reply = worker[w].reply /\ worker'[w].ok = worker[w].ok
<1> DEFINE state == [worker[w] EXCEPT !.pc = pc]
<1>1. worker[w] \in WorkerStates
  BY DEF TypeOK
<1>2. /\ state \in WorkerStates /\ state.pc = pc
      /\ state.job = worker[w].job /\ state.delivery = worker[w].delivery
      /\ state.event = worker[w].event /\ state.write = worker[w].write
      /\ state.reply = worker[w].reply /\ state.ok = worker[w].ok
  BY <1>1 DEF WorkerStates, PCs
<1>3. SetWorker(w, state)
  OBVIOUS
<1> HIDE DEF state
<1> QED BY <1>2, <1>3, SetWorkerEffect DEF KeepsJob

\* A step that settles what will be reported and written.
Settles(w, pc, event, write) ==
  SetWorker(w, [worker[w] EXCEPT !.pc = pc, !.event = event, !.write = write])

LEMMA SettleEffect ==
  ASSUME TypeOK, NEW w \in Workers, NEW pc \in PCs,
         NEW event \in EventTypes, NEW write \in Writes,
         Settles(w, pc, event, write)
  PROVE  /\ OnlyMoves(w) /\ KeepsJob(w)
         /\ worker'[w].pc = pc /\ worker'[w].event = event /\ worker'[w].write = write
         /\ worker'[w].reply = worker[w].reply /\ worker'[w].ok = worker[w].ok
<1> DEFINE state == [worker[w] EXCEPT !.pc = pc, !.event = event, !.write = write]
<1>1. worker[w] \in WorkerStates
  BY DEF TypeOK
<1>2. [worker[w] EXCEPT !.pc = pc] \in WorkerStates
  BY <1>1 DEF WorkerStates, PCs
<1>3. [worker[w] EXCEPT !.pc = pc, !.event = event] \in WorkerStates
  BY <1>2 DEF WorkerStates
<1>4. state \in WorkerStates
  BY <1>3 DEF WorkerStates, Writes
<1>5. /\ state.pc = pc /\ state.event = event /\ state.write = write
      /\ state.job = worker[w].job /\ state.delivery = worker[w].delivery
      /\ state.reply = worker[w].reply /\ state.ok = worker[w].ok
  BY <1>1 DEF WorkerStates
<1>6. SetWorker(w, state)
  BY DEF Settles
<1> HIDE DEF state
<1> QED BY <1>4, <1>5, <1>6, SetWorkerEffect DEF KeepsJob

\* A step that settles the answer to the server.
LEMMA AnswerEffect ==
  ASSUME TypeOK, NEW w \in Workers, NEW pc \in PCs,
         NEW reply \in {"ack", "defer", "again"},
         SetWorker(w, [worker[w] EXCEPT !.pc = pc, !.reply = reply])
  PROVE  /\ OnlyMoves(w) /\ KeepsJob(w)
         /\ worker'[w].pc = pc /\ worker'[w].reply = reply
         /\ worker'[w].event = worker[w].event /\ worker'[w].write = worker[w].write
         /\ worker'[w].ok = worker[w].ok
<1> DEFINE state == [worker[w] EXCEPT !.pc = pc, !.reply = reply]
<1>1. worker[w] \in WorkerStates
  BY DEF TypeOK
<1>2. /\ state \in WorkerStates /\ state.pc = pc /\ state.reply = reply
      /\ state.job = worker[w].job /\ state.delivery = worker[w].delivery
      /\ state.event = worker[w].event /\ state.write = worker[w].write
      /\ state.ok = worker[w].ok
  BY <1>1 DEF WorkerStates, PCs
<1>3. SetWorker(w, state)
  OBVIOUS
<1> HIDE DEF state
<1> QED BY <1>2, <1>3, SetWorkerEffect DEF KeepsJob

\* The status of a success is an event type and a status that is written.
LEMMA SentStatusType ==
  /\ SentStatus \in EventTypes \cap Writes \cap RowStatuses
  /\ SentStatus \notin {"none", "nothing", "failed", "suppressed", "ndnc_blocked",
                        "skipped", "open", "queued"}
  BY DEF SentStatus, EventTypes, Writes, RowStatuses

\* TryNext sends the worker on, or to its report, or to the failure.
LEMMA TryNextEffect ==
  ASSUME TypeOK, NEW w \in Workers, Sending(w), TryNext(w)
  PROVE  /\ OnlyMoves(w) /\ KeepsJob(w)
         /\ worker'[w].pc \in {"send", "record", "failed"}
         /\ worker'[w].write = worker[w].write
         /\ worker'[w].event \in {worker[w].event, "failed"}
         /\ worker'[w].pc = "record" => worker'[w].event = "failed"
         /\ worker'[w].reply = worker[w].reply
         /\ worker'[w].pc = "send" => worker'[w].ok = worker[w].ok
<1> DEFINE k == worker[w]
<1>1. k \in WorkerStates /\ k.pc = "send"
  BY DEF TypeOK, Sending
<1>2. CASE k.provider < Tried
  <2> DEFINE state == [k EXCEPT !.provider = @ + 1]
  <2>1. Tried <= Providers /\ Tried \in Nat
    BY NumbersAssumption DEF Tried
  <2>2. state \in WorkerStates
    BY <1>1, <1>2, <2>1, NumbersAssumption DEF WorkerStates
  <2>3. SetWorker(w, state)
    BY <1>2 DEF TryNext
  <2>4. /\ state.pc = "send" /\ state.job = k.job /\ state.delivery = k.delivery
        /\ state.write = k.write /\ state.event = k.event
        /\ state.reply = k.reply /\ state.ok = k.ok
    BY <1>1 DEF WorkerStates
  <2> HIDE DEF state
  <2> QED BY <2>2, <2>3, <2>4, SetWorkerEffect DEF KeepsJob
<1>3. CASE ~(k.provider < Tried) /\ ReportsFailures
  <2> DEFINE state == [k EXCEPT !.pc = "record", !.event = "failed", !.ok = FALSE]
  <2>1. state \in WorkerStates
    BY <1>1 DEF WorkerStates, EventTypes
  <2>2. SetWorker(w, state)
    BY <1>3 DEF TryNext
  <2>3. /\ state.pc = "record" /\ state.job = k.job /\ state.delivery = k.delivery
        /\ state.write = k.write /\ state.event = "failed"
        /\ state.reply = k.reply
    BY <1>1 DEF WorkerStates
  <2> HIDE DEF state
  <2> QED BY <2>1, <2>2, <2>3, SetWorkerEffect DEF KeepsJob
<1>4. CASE ~(k.provider < Tried) /\ ~ReportsFailures
  <2>1. SetWorker(w, [worker[w] EXCEPT !.pc = "failed"])
    BY <1>4 DEF TryNext
  <2> QED BY <2>1, GoEffect DEF PCs
<1> QED BY <1>2, <1>3, <1>4

\* After its report the worker commits or fails.
LEMMA AfterRecordEffect ==
  ASSUME TypeOK, NEW w \in Workers, AfterRecord(w)
  PROVE  /\ OnlyMoves(w) /\ KeepsJob(w)
         /\ worker'[w].pc = IF worker[w].ok THEN "commit" ELSE "failed"
         /\ worker'[w].event = worker[w].event /\ worker'[w].write = worker[w].write
         /\ worker'[w].reply = worker[w].reply
<1>1. CASE worker[w].ok
  <2>1. SetWorker(w, [worker[w] EXCEPT !.pc = "commit"])
    BY <1>1 DEF AfterRecord
  <2> QED BY <1>1, <2>1, GoEffect DEF PCs
<1>2. CASE ~worker[w].ok
  <2>1. SetWorker(w, [worker[w] EXCEPT !.pc = "failed"])
    BY <1>2 DEF AfterRecord
  <2> QED BY <1>2, <2>1, GoEffect DEF PCs
<1> QED BY <1>1, <1>2

-----------------------------------------------------------------------------
(* What a step must do to keep the invariant.                              *)

\* What providers took and what was handled, reported and copied stays so.
Grows ==
  /\ channel' = channel
  /\ Tracing' => Tracing
  /\ accepted \subseteq accepted' /\ events \subseteq events'
  /\ dlq \subseteq dlq' /\ handled \subseteq handled' /\ unreported \subseteq unreported'

\* A job that the stream gives up is done and has left its trace.
GoneIsDone ==
  \A j \in Jobs : waiting'[j] = "gone" =>
    \/ waiting[j] = "gone"
    \/ j \in handled \cup dlq /\ (Tracing => Traced(j))

\* A new report of success, and a row newly written so, are true.
NewsAreTrue ==
  /\ \A e \in events' : e \in events \/
       (e.type = SentStatus =>
          \E p \in 1 .. Providers : <<e.job, e.delivery, p>> \in accepted)
  /\ channel # "inapp" =>
       \A j \in Jobs : rows'[j] = SentStatus => rows[j] = SentStatus \/ WasAccepted(j)

\* A step that is typed, keeps what has grown and leaves every worker as it
\* was or with its promises kept, keeps the invariant.
LEMMA StepKeeps ==
  ASSUME Inv, TypeOK', WindowInv', Grows, GoneIsDone, NewsAreTrue,
         \A w \in Workers : worker'[w] = worker[w] \/ Promises(w)'
  PROVE  Inv'
<1>1. SentStatus' = SentStatus
  BY DEF SentStatus, Grows
<1>2. \A j : Traced(j) => Traced(j)'
  BY DEF Traced, Reported, Grows
<1>3. ASSUME NEW w \in Workers, worker'[w] = worker[w]
      PROVE  Promises(w)'
  <2>1. Promises(w)
    BY DEF Inv
  <2>2. HasJob(w)'
    BY <2>1, <1>3 DEF Promises, HasJob
  <2>3. MayAck(w)' /\ HasEvent(w)'
    BY <2>1, <1>3 DEF Promises, MayAck, HasEvent, Grows
  <2>4. MayReport(w)'
    BY <2>1, <1>1, <1>3 DEF Promises, MayReport, Grows
  <2>5. HasTrace(w)'
    BY <2>1, <1>2, <1>3 DEF Promises, HasTrace, Grows
  <2> QED BY <2>2, <2>3, <2>4, <2>5 DEF Promises
<1>4. AcknowledgedJobsAreDone'
  BY DEF Inv, AcknowledgedJobsAreDone, GoneIsDone, Grows
<1>5. ReportsAreTrue'
  <2>1. ASSUME NEW e \in events', e.type = SentStatus
        PROVE  \E p \in 1 .. Providers : <<e.job, e.delivery, p>> \in accepted'
    BY <2>1 DEF Inv, ReportsAreTrue, NewsAreTrue, Grows
  <2>2. ASSUME channel # "inapp", NEW j \in Jobs, rows'[j] = SentStatus
        PROVE  WasAccepted(j)'
    BY <2>2 DEF Inv, ReportsAreTrue, NewsAreTrue, Grows, WasAccepted
  <2>3. channel' = channel
    BY DEF Grows
  <2> QED BY <1>1, <2>1, <2>2, <2>3 DEF ReportsAreTrue
<1>6. FinishedJobsLeaveATrace'
  <2>1. SUFFICES ASSUME Tracing', NEW j \in Jobs, waiting'[j] = "gone"
                 PROVE  Traced(j)'
    BY DEF FinishedJobsLeaveATrace, Tracing, Traced
  <2>2. Tracing
    BY <2>1 DEF Grows
  <2>3. waiting[j] = "gone" => Traced(j)
    BY <2>2 DEF Inv, FinishedJobsLeaveATrace, Tracing, Traced
  <2> QED BY <1>2, <2>1, <2>2, <2>3 DEF GoneIsDone
<1> QED BY <1>3, <1>4, <1>5, <1>6 DEF Inv
-----------------------------------------------------------------------------
(* The steps of the environment.                                           *)

\* The engine's transactions and the server's clock.
LEMMA StreamKeeps ==
  ASSUME Inv, NEW j \in Jobs, CommitRow(j) \/ AbortRow(j) \/ Expire(j)
  PROVE  Inv'
<1>1. TypeOK'
  <2>1. CASE CommitRow(j)
    BY <2>1 DEF Inv, TypeOK, CommitRow, RowStatuses, mail, world, ghosts
  <2>2. CASE AbortRow(j)
    BY <2>2, NumbersAssumption
       DEF Inv, TypeOK, AbortRow, Fault, RowStatuses, mail, world, ghosts
  <2>3. CASE Expire(j)
    BY <2>3, NumbersAssumption
       DEF Inv, TypeOK, Expire, Fault, Waitings, mail, world, ghosts
  <2> QED BY <2>1, <2>2, <2>3
<1>2. Grows /\ WindowInv' /\ worker' = worker
  BY DEF Inv, CommitRow, AbortRow, Expire, Grows, Tracing, WindowInv, mail, world, ghosts
<1>3. GoneIsDone
  BY DEF Inv, TypeOK, CommitRow, AbortRow, Expire, GoneIsDone, mail
<1>4. NewsAreTrue
  BY SentStatusType DEF Inv, TypeOK, CommitRow, AbortRow, Expire, NewsAreTrue
<1> QED BY <1>1, <1>2, <1>3, <1>4, StepKeeps

\* The suppression list, the registry and the DLT templates.
LEMMA ListsKeep ==
  ASSUME Inv, Suppress \/ Register \/ DeleteDLTTemplate
  PROVE  Inv'
<1>1. TypeOK'
  BY DEF Inv, TypeOK, Suppress, Register, DeleteDLTTemplate, mail, ghosts
<1>2. Grows /\ WindowInv' /\ worker' = worker
  BY DEF Inv, Suppress, Register, DeleteDLTTemplate, Grows, Tracing, WindowInv, mail, ghosts
<1>3. GoneIsDone /\ NewsAreTrue
  BY DEF Suppress, Register, DeleteDLTTemplate, GoneIsDone, NewsAreTrue, mail
<1> QED BY <1>1, <1>2, <1>3, StepKeeps

\* The window opens: deferred jobs are due, and nothing else changes.
LEMMA OpenWindowKeeps ==
  ASSUME Inv, OpenWindow
  PROVE  Inv'
<1>1. ASSUME NEW w \in Workers, worker[w].reply = "defer"
      PROVE  /\ worker'[w] = [worker[w] EXCEPT !.reply = "again"]
             /\ worker'[w] \in WorkerStates /\ worker'[w].reply = "again"
             /\ worker'[w].pc = worker[w].pc /\ KeepsJob(w)
             /\ worker'[w].event = worker[w].event /\ worker'[w].write = worker[w].write
  <2>1. worker[w] \in WorkerStates
    BY DEF Inv, TypeOK
  <2>2. worker'[w] = [worker[w] EXCEPT !.reply = "again"]
    BY <1>1 DEF OpenWindow
  <2> QED BY <2>1, <2>2 DEF WorkerStates, KeepsJob
<1>2. ASSUME NEW w \in Workers, worker[w].reply # "defer"
      PROVE  worker'[w] = worker[w]
  BY <1>2 DEF OpenWindow
<1>3. worker' \in [Workers -> WorkerStates]
  <2>1. ASSUME NEW w \in Workers
        PROVE  worker'[w] \in WorkerStates
    BY <1>1, <1>2 DEF Inv, TypeOK
  <2>2. worker' = [w \in Workers |-> worker'[w]]
    BY DEF OpenWindow
  <2> QED BY <2>1, <2>2
<1>4. turns' \in 0 .. MaxTurns /\ turns' # 0
  BY NumbersAssumption DEF Inv, TypeOK, OpenWindow
<1>5. TypeOK'
  <2>1. waiting' \in [Jobs -> Waitings]
    BY DEF Inv, TypeOK, OpenWindow, Waitings
  <2> QED BY <1>3, <1>4, <2>1 DEF Inv, TypeOK, OpenWindow, ghosts
<1>6. Grows /\ WindowInv' /\ ~Tracing'
  BY <1>4 DEF OpenWindow, Grows, Tracing, WindowInv, ghosts
<1>7. GoneIsDone
  BY DEF OpenWindow, GoneIsDone
<1>8. NewsAreTrue
  BY DEF OpenWindow, NewsAreTrue
<1>9. ASSUME NEW w \in Workers
      PROVE  worker'[w] = worker[w] \/ Promises(w)'
  <2>1. CASE worker[w].reply = "defer"
    <3>1. Promises(w) /\ SentStatus' = SentStatus /\ accepted' = accepted
      BY DEF Inv, OpenWindow, SentStatus
    <3>2. HasJob(w)' /\ HasEvent(w)'
      BY <1>1, <2>1, <3>1 DEF Promises, HasJob, HasEvent, KeepsJob
    <3>3. MayAck(w)' /\ HasTrace(w)'
      BY <1>1, <1>6, <2>1 DEF MayAck, HasTrace
    <3>4. MayReport(w)'
      <4>1. /\ worker'[w].pc = worker[w].pc
            /\ worker'[w].event = worker[w].event /\ worker'[w].write = worker[w].write
            /\ worker'[w].job = worker[w].job /\ worker'[w].delivery = worker[w].delivery
        BY <1>1, <2>1 DEF KeepsJob
      <4> QED BY <3>1, <4>1 DEF Promises, MayReport
    <3> QED BY <3>2, <3>3, <3>4 DEF Promises
  <2> QED BY <1>2, <2>1
<1> QED BY <1>5, <1>6, <1>7, <1>8, <1>9, StepKeeps

\* The window closes.
LEMMA CloseWindowKeeps ==
  ASSUME Inv, CloseWindow
  PROVE  Inv'
<1>1. turns' \in 0 .. MaxTurns /\ turns' # 0
  BY NumbersAssumption DEF Inv, TypeOK, CloseWindow
<1>2. TypeOK'
  BY <1>1 DEF Inv, TypeOK, CloseWindow, mail, ghosts
<1>3. Grows /\ WindowInv' /\ worker' = worker
  BY <1>1 DEF CloseWindow, Grows, Tracing, WindowInv, mail, ghosts
<1>4. GoneIsDone /\ NewsAreTrue
  BY DEF CloseWindow, GoneIsDone, NewsAreTrue, mail
<1> QED BY <1>2, <1>3, <1>4, StepKeeps

-----------------------------------------------------------------------------
(* The steps of a worker.                                                  *)

\* A step of worker w keeps the invariant if w's own promises are kept.
LEMMA WorkerStepKeeps ==
  ASSUME Inv, NEW w \in Workers, OnlyMoves(w), TypeOK', UNCHANGED world,
         Grows, GoneIsDone, NewsAreTrue, Promises(w)'
  PROVE  Inv'
<1>1. WindowInv'
  BY DEF Inv, WindowInv, world
<1>2. \A v \in Workers : worker'[v] = worker[v] \/ Promises(v)'
  BY DEF OnlyMoves
<1> QED BY <1>1, <1>2, StepKeeps

\* A worker that stays with its delivery and has nothing new to report.
LEMMA SameReport ==
  ASSUME Inv, NEW w \in Workers, KeepsJob(w), Grows, worker[w].pc # "idle",
         worker'[w].event \in {worker[w].event, "failed"},
         worker'[w].write = worker[w].write
  PROVE  HasJob(w)' /\ MayReport(w)'
<1>1. Promises(w)
  BY DEF Inv
<1>2. SentStatus' = SentStatus
  BY DEF SentStatus, Grows
<1>3. HasJob(w)'
  BY <1>1 DEF Promises, HasJob, KeepsJob
<1>4. MayReport(w)'
  BY <1>1, <1>2, SentStatusType DEF Promises, MayReport, KeepsJob, Grows
<1> QED BY <1>3, <1>4

\* A delivery begins.
LEMMA ReceiveKeeps ==
  ASSUME Inv, NEW w \in Workers, NEW j \in Jobs, Receive(w, j)
  PROVE  Inv'
<1> DEFINE state == [Idle EXCEPT !.pc = "gates", !.job = j, !.delivery = delivered[j] + 1]
<1>1. delivered[j] + 1 \in 1 .. MaxDeliver
  BY NumbersAssumption DEF Inv, TypeOK, Receive
<1>2. state \in WorkerStates
  <2>1. Idle \in WorkerStates
    BY NumbersAssumption DEF Idle, WorkerStates, EventTypes
  <2>2. [Idle EXCEPT !.pc = "gates", !.job = j] \in WorkerStates
    BY <2>1 DEF WorkerStates
  <2>3. \A n \in 0 .. MaxDeliver :
          [Idle EXCEPT !.pc = "gates", !.job = j, !.delivery = n] \in WorkerStates
    BY <2>2 DEF WorkerStates
  <2>4. delivered[j] + 1 \in 0 .. MaxDeliver
    BY <1>1
  <2> QED BY <2>3, <2>4
<1>3. /\ state.pc = "gates" /\ state.job = j /\ state.delivery = delivered[j] + 1
      /\ state.event = "none" /\ state.write = "nothing"
  BY DEF Idle
<1>4. TypeOK /\ SetWorker(w, state)
  BY DEF Receive, Inv
<1> HIDE DEF state
<1>5. OnlyMoves(w) /\ worker'[w] = state
  BY <1>2, <1>4, SetWorkerEffect
<1>6. TypeOK'
  <2>1. waiting' \in [Jobs -> Waitings] /\ delivered' \in [Jobs -> 0 .. MaxDeliver]
    BY <1>1, NumbersAssumption DEF Inv, TypeOK, Receive, Waitings
  <2> QED BY <1>5, <2>1 DEF Inv, TypeOK, Receive, OnlyMoves, world, ghosts
<1>7. Grows /\ GoneIsDone /\ NewsAreTrue /\ UNCHANGED world
  BY DEF Inv, TypeOK, Receive, Grows, Tracing, GoneIsDone, NewsAreTrue, world, ghosts
<1>8. Promises(w)'
  BY <1>1, <1>3, <1>5, SentStatusType
     DEF Promises, HasJob, HasEvent, MayAck, MayReport, HasTrace, SentStatus, Receive, world
<1> QED BY <1>5, <1>6, <1>7, <1>8, WorkerStepKeeps

\* The gates, but for the stops and the category.
LEMMA GatesKeep ==
  ASSUME Inv, NEW w \in Workers, FailGates(w) \/ Match(w) \/ Scrub(w) \/ Hold(w)
  PROVE  Inv'
<1>1. PICK pc \in {"failed", "category", "window", "defer"} :
        SetWorker(w, [worker[w] EXCEPT !.pc = pc])
  BY DEF FailGates, Match, Scrub, Hold
<1>2. TypeOK /\ worker[w].pc # "idle"
  BY DEF Inv, FailGates, Match, Scrub, Hold, AtGates
<1>3. /\ OnlyMoves(w) /\ KeepsJob(w) /\ worker'[w].pc = pc
      /\ worker'[w].event = worker[w].event /\ worker'[w].write = worker[w].write
  BY <1>1, <1>2, GoEffect DEF PCs
<1>4. /\ UNCHANGED <<mail, rows, world, accepted, events, dlq, ghosts, faults>>
  BY DEF FailGates, Match, Scrub, Hold
<1>5. TypeOK' /\ Grows /\ GoneIsDone /\ NewsAreTrue
  BY <1>2, <1>3, <1>4 DEF TypeOK, OnlyMoves, Grows, Tracing, GoneIsDone, NewsAreTrue,
     mail, world, ghosts
<1>6. HasEvent(w)' /\ MayAck(w)' /\ HasTrace(w)'
  BY <1>3 DEF HasEvent, MayAck, HasTrace
<1> QED BY <1>2, <1>3, <1>4, <1>5, <1>6, SameReport, WorkerStepKeeps DEF Promises

\* Once its category has been looked up a job goes to the registry, or to the
\* providers, noted if it is promotional; only a fault spoils the transaction.
LEMMA CategoryEffect ==
  ASSUME TypeOK, NEW w \in Workers, LookUpCategory(w) \/ CategoryFails(w)
  PROVE  /\ OnlyMoves(w) /\ KeepsJob(w)
         /\ worker[w].pc = "category" /\ worker'[w].pc \in {"registry", "send"}
         /\ worker'[w].event = worker[w].event /\ worker'[w].write = worker[w].write
         /\ worker'[w].reply = worker[w].reply
         /\ \/ worker'[w].ok = worker[w].ok /\ faults' = faults
            \/ worker'[w].pc = "send" /\ faults' = faults + 1
         /\ \/ uncategorized' = uncategorized /\ (worker'[w].pc = "send" => ~IsPromotional(w))
            \/ /\ IsPromotional(w)
               /\ uncategorized' =
                    uncategorized \cup {<<worker[w].job, worker[w].delivery>>}
<1>1. worker[w].pc = "category"
  BY DEF LookUpCategory, CategoryFails
<1>2. CASE LookUpCategory(w)
  <2>1. PICK pc \in {"registry", "send"} :
          /\ SetWorker(w, [worker[w] EXCEPT !.pc = pc])
          /\ faults' = faults
          /\ \/ uncategorized' = uncategorized /\ (pc = "send" => ~IsPromotional(w))
             \/ /\ IsPromotional(w)
                /\ uncategorized' =
                     uncategorized \cup {<<worker[w].job, worker[w].delivery>>}
    BY <1>2 DEF LookUpCategory, Uncategorized
  <2>2. pc \in PCs
    BY DEF PCs
  <2> QED BY <1>1, <2>1, <2>2, GoEffect
<1>3. CASE CategoryFails(w)
  <2> DEFINE state == [worker[w] EXCEPT !.pc = "send", !.ok = FALSE]
  <2>1. worker[w] \in WorkerStates
    BY DEF TypeOK
  <2>2. /\ state \in WorkerStates /\ state.pc = "send"
        /\ state.job = worker[w].job /\ state.delivery = worker[w].delivery
        /\ state.event = worker[w].event /\ state.write = worker[w].write
        /\ state.reply = worker[w].reply
    BY <2>1 DEF WorkerStates
  <2>3. /\ SetWorker(w, state) /\ faults' = faults + 1
        /\ \/ uncategorized' = uncategorized /\ ~IsPromotional(w)
           \/ /\ IsPromotional(w)
              /\ uncategorized' =
                   uncategorized \cup {<<worker[w].job, worker[w].delivery>>}
    BY <1>3 DEF CategoryFails, Fault, Uncategorized
  <2> HIDE DEF state
  <2> QED BY <1>1, <2>2, <2>3, SetWorkerEffect DEF KeepsJob
<1> QED BY <1>2, <1>3

\* The category is learned, or it is not.
LEMMA CategoryKeeps ==
  ASSUME Inv, NEW w \in Workers, LookUpCategory(w) \/ CategoryFails(w)
  PROVE  Inv'
<1>1. TypeOK /\ HasJob(w)
  BY DEF Inv, Promises
<1>2. UNCHANGED <<mail, rows, world, accepted, events, dlq, handled, unreported>>
  BY DEF LookUpCategory, CategoryFails
<1>3. /\ OnlyMoves(w) /\ KeepsJob(w)
      /\ worker[w].pc = "category" /\ worker'[w].pc \in {"registry", "send"}
      /\ worker'[w].event = worker[w].event /\ worker'[w].write = worker[w].write
  BY <1>1, CategoryEffect
<1>4. uncategorized' \subseteq Promotional \X (1 .. MaxDeliver)
  <2>1. /\ worker[w].job \in Jobs /\ worker[w].delivery \in 1 .. MaxDeliver
        /\ uncategorized \subseteq Promotional \X (1 .. MaxDeliver)
    BY <1>1, <1>3 DEF HasJob, TypeOK
  <2>2. \/ uncategorized' = uncategorized
        \/ /\ worker[w].job \in Promotional
           /\ uncategorized' =
                uncategorized \cup {<<worker[w].job, worker[w].delivery>>}
    BY <1>1, CategoryEffect DEF IsPromotional
  <2> QED BY <2>1, <2>2
<1>5. faults' \in 0 .. MaxFaults
  BY <1>1, NumbersAssumption DEF TypeOK, LookUpCategory, CategoryFails, Fault
<1>6. TypeOK' /\ Grows /\ GoneIsDone /\ NewsAreTrue
  BY <1>1, <1>2, <1>3, <1>4, <1>5 DEF TypeOK, OnlyMoves, Grows, Tracing, GoneIsDone,
     NewsAreTrue, mail, world
<1>7. HasEvent(w)' /\ MayAck(w)' /\ HasTrace(w)'
  BY <1>3 DEF HasEvent, MayAck, HasTrace
<1> QED BY <1>2, <1>3, <1>6, <1>7, SameReport, WorkerStepKeeps DEF Promises

\* A gate stops a job for good.
LEMMA StopEffect ==
  ASSUME TypeOK, NEW w \in Workers, Stop(w)
  PROVE  /\ OnlyMoves(w) /\ KeepsJob(w) /\ worker'[w].pc = "record"
         /\ worker'[w].event \in EventTypes \ {SentStatus}
         /\ worker'[w].write \in Writes \ {SentStatus}
         /\ worker'[w].reply = worker[w].reply /\ worker'[w].ok = worker[w].ok
<1>1. "record" \in PCs
  BY DEF PCs
<1>2. PICK event \in EventTypes, write \in Writes :
        Settles(w, "record", event, write) /\ event # SentStatus /\ write # SentStatus
  <2>1. PICK s \in {<<"suppressed", "suppressed">>, <<"failed", "nothing">>,
                    <<"ndnc_blocked", "suppressed">>, <<"skipped", "nothing">>} :
          Settles(w, "record", s[1], s[2])
    BY DEF Stop, SuppressedStop, UnmatchedStop, RegistryStop, SessionStop, Settles
  <2>2. /\ s[1] \in EventTypes /\ s[2] \in Writes
        /\ s[1] # SentStatus /\ s[2] # SentStatus
    BY SentStatusType DEF EventTypes, Writes
  <2> QED BY <2>1, <2>2
<1> QED BY <1>1, <1>2, SettleEffect

\* The event of a job that is stopped is no success.
LEMMA StopKeeps ==
  ASSUME Inv, NEW w \in Workers, Stop(w)
  PROVE  Inv'
<1>1. TypeOK /\ worker[w].pc # "idle"
  BY DEF Inv, Stop, SuppressedStop, UnmatchedStop, RegistryStop, SessionStop,
     AtGates
<1>2. /\ OnlyMoves(w) /\ KeepsJob(w) /\ worker'[w].pc = "record"
      /\ worker'[w].event \in EventTypes \ {SentStatus}
      /\ worker'[w].write \in Writes \ {SentStatus}
  BY <1>1, StopEffect
<1>3. UNCHANGED <<mail, rows, world, accepted, events, dlq, ghosts, faults>>
  BY DEF Stop
<1>4. TypeOK' /\ Grows /\ GoneIsDone /\ NewsAreTrue
  BY <1>1, <1>2, <1>3 DEF TypeOK, OnlyMoves, Grows, Tracing, GoneIsDone, NewsAreTrue,
     mail, world, ghosts
<1>5. Promises(w)'
  <2>1. SentStatus' = SentStatus
    BY <1>3 DEF SentStatus, world
  <2>2. HasJob(w)
    BY DEF Inv, Promises
  <2> QED BY <1>1, <1>2, <2>1, <2>2
       DEF Promises, HasJob, HasEvent, MayAck, MayReport, HasTrace, KeepsJob
<1> QED BY <1>2, <1>3, <1>4, <1>5, WorkerStepKeeps

\* A deferral is answered with a delay, unless the window has moved since.
LEMMA DeferKeeps ==
  ASSUME Inv, NEW w \in Workers, Defer(w)
  PROVE  Inv'
<1>1. PICK reply \in {"defer", "ack"} :
        /\ SetWorker(w, [worker[w] EXCEPT !.pc = "commit", !.reply = reply])
        /\ reply = "ack" => window # "closed"
  BY DEF Defer
<1>2. TypeOK /\ worker[w].pc # "idle"
  BY DEF Inv, Defer
<1>3. /\ OnlyMoves(w) /\ KeepsJob(w) /\ worker'[w].pc = "commit"
      /\ worker'[w].reply = reply
      /\ worker'[w].event = worker[w].event /\ worker'[w].write = worker[w].write
  BY <1>1, <1>2, AnswerEffect DEF PCs
<1>4. UNCHANGED <<mail, rows, world, accepted, events, dlq, ghosts, faults>>
  BY DEF Defer
<1>5. TypeOK' /\ Grows /\ GoneIsDone /\ NewsAreTrue
  BY <1>2, <1>3, <1>4 DEF TypeOK, OnlyMoves, Grows, Tracing, GoneIsDone, NewsAreTrue,
     mail, world, ghosts
<1>6. HasEvent(w)' /\ MayAck(w)'
  BY <1>3 DEF HasEvent, MayAck
<1>7. HasTrace(w)'
  BY <1>1, <1>3, <1>4 DEF HasTrace, Inv, WindowInv, Tracing, world
<1> QED BY <1>2, <1>3, <1>4, <1>5, <1>6, <1>7, SameReport, WorkerStepKeeps DEF Promises

\* The row that Write leaves is a row; it says sent only if it is told to.
LEMMA WriteEffect ==
  ASSUME TypeOK, NEW j \in Jobs, NEW status \in Writes
  PROVE  /\ Write(j, status) \in [Jobs -> RowStatuses]
         /\ \A i \in Jobs : Write(j, status)[i] = rows[i]
                           \/ (i = j /\ Write(j, status)[i] = status)
  BY DEF TypeOK, Write, RowStatuses, Writes

\* A job goes to its provider; only the in-app worker writes its row first.
LEMMA PassKeeps ==
  ASSUME Inv, NEW w \in Workers, Pass(w)
  PROVE  Inv'
<1>1. TypeOK /\ worker[w].pc # "idle" /\ worker[w].job \in Jobs
  BY DEF Inv, Promises, HasJob, Pass, MayPass, AtGates
<1>2. SetWorker(w, [worker[w] EXCEPT !.pc = "send"])
  BY DEF Pass
<1>3. /\ OnlyMoves(w) /\ KeepsJob(w) /\ worker'[w].pc = "send"
      /\ worker'[w].event = worker[w].event /\ worker'[w].write = worker[w].write
  BY <1>1, <1>2, GoEffect DEF PCs
<1>4. UNCHANGED <<mail, world, accepted, events, dlq, ghosts, faults>>
  BY DEF Pass
<1>5. rows' \in [Jobs -> RowStatuses] /\ (channel # "inapp" => rows' = rows)
  BY <1>1, WriteEffect, SentStatusType DEF Pass, InTransaction, TypeOK
<1>6. TypeOK' /\ Grows /\ GoneIsDone /\ NewsAreTrue
  BY <1>1, <1>3, <1>4, <1>5 DEF TypeOK, OnlyMoves, Grows, Tracing, GoneIsDone,
     NewsAreTrue, mail, world, ghosts
<1>7. HasEvent(w)' /\ MayAck(w)' /\ HasTrace(w)'
  BY <1>3 DEF HasEvent, MayAck, HasTrace
<1> QED BY <1>1, <1>3, <1>4, <1>6, <1>7, SameReport, WorkerStepKeeps DEF Promises

\* What a worker sends is a job, a delivery and a provider.
LEMMA SendType ==
  ASSUME Inv, NEW w \in Workers, Sending(w)
  PROVE  /\ Send(w) \in Jobs \X (1 .. MaxDeliver) \X (1 .. Providers)
         /\ Send(w) = <<worker[w].job, worker[w].delivery, worker[w].provider>>
         /\ worker[w].provider \in 1 .. Providers
         /\ worker[w].job \in Jobs /\ worker[w].pc # "idle"
  BY DEF Inv, TypeOK, Promises, HasJob, Sending, Send, WorkerStates

\* A provider takes the message: success may be reported.
LEMMA AcceptKeeps ==
  ASSUME Inv, NEW w \in Workers, Accept(w)
  PROVE  Inv'
<1>1. /\ TypeOK /\ HasJob(w) /\ MayReport(w)
      /\ accepted' = accepted \cup {Send(w)}
      /\ UNCHANGED <<mail, rows, world, events, dlq, unreported, uncategorized, faults>>
  BY DEF Inv, Promises, Accept
<1>2. /\ Send(w) \in Jobs \X (1 .. MaxDeliver) \X (1 .. Providers)
      /\ Send(w) = <<worker[w].job, worker[w].delivery, worker[w].provider>>
      /\ worker[w].provider \in 1 .. Providers
      /\ worker[w].job \in Jobs /\ worker[w].pc # "idle"
  BY SendType DEF Accept
<1>3. /\ OnlyMoves(w) /\ KeepsJob(w)
      /\ (worker'[w].pc = "record" /\ worker'[w].event = SentStatus) \/
           (channel = "inapp" /\ worker'[w].pc = "reply" /\ worker[w].job \in handled')
  <2>1. CASE InTransaction
    <3>1. Settles(w, "record", SentStatus, SentStatus)
      BY <2>1 DEF Accept, Settles
    <3> QED BY <1>1, <3>1, SettleEffect, SentStatusType DEF PCs
  <2>2. CASE ~InTransaction
    <3>1. /\ SetWorker(w, [worker[w] EXCEPT !.pc = "reply"])
          /\ worker[w].job \in handled' /\ channel = "inapp"
      BY <2>2 DEF Accept, InTransaction
    <3> QED BY <1>1, <3>1, GoEffect DEF PCs
  <2> QED BY <2>1, <2>2
<1>4. handled \subseteq handled' /\ handled' \subseteq Jobs
  BY <1>1, <1>2 DEF Accept, TypeOK
<1>5. TypeOK' /\ Grows /\ GoneIsDone /\ NewsAreTrue
  BY <1>1, <1>2, <1>3, <1>4 DEF TypeOK, OnlyMoves, Grows, Tracing, GoneIsDone,
     NewsAreTrue, mail, world
<1>6. HasJob(w)'
  BY <1>1, <1>2, <1>3 DEF HasJob, KeepsJob
<1>7. MayReport(w)'
  BY <1>1, <1>2, <1>3 DEF MayReport, KeepsJob
<1>8. HasEvent(w)' /\ MayAck(w)' /\ HasTrace(w)'
  BY <1>1, <1>3, SentStatusType DEF HasEvent, MayAck, HasTrace, Tracing, KeepsJob, world
<1> QED BY <1>1, <1>3, <1>5, <1>6, <1>7, <1>8, WorkerStepKeeps DEF Promises

\* A provider refuses it, or takes it unheard.
LEMMA NextProviderKeeps ==
  ASSUME Inv, NEW w \in Workers, Reject(w) \/ AcceptUnheard(w)
  PROVE  Inv'
<1>1. /\ TypeOK /\ Sending(w) /\ TryNext(w)
      /\ UNCHANGED <<mail, rows, world, events, dlq, ghosts>>
      /\ accepted' \in {accepted, accepted \cup {Send(w)}}
  BY DEF Inv, Reject, AcceptUnheard
<1>2. /\ Send(w) \in Jobs \X (1 .. MaxDeliver) \X (1 .. Providers)
      /\ worker[w].pc # "idle"
  BY <1>1, SendType
<1>3. /\ OnlyMoves(w) /\ KeepsJob(w)
      /\ worker'[w].pc \in {"send", "record", "failed"}
      /\ worker'[w].write = worker[w].write
      /\ worker'[w].event \in {worker[w].event, "failed"}
      /\ worker'[w].pc = "record" => worker'[w].event = "failed"
  BY <1>1, TryNextEffect
<1>4. faults' \in 0 .. MaxFaults
  BY <1>1, NumbersAssumption DEF TypeOK, Reject, AcceptUnheard, Fault
<1>5. TypeOK' /\ Grows /\ GoneIsDone /\ NewsAreTrue
  BY <1>1, <1>2, <1>3, <1>4 DEF TypeOK, OnlyMoves, Grows, Tracing, GoneIsDone,
     NewsAreTrue, mail, world, ghosts
<1>6. HasEvent(w)' /\ MayAck(w)' /\ HasTrace(w)'
  BY <1>3 DEF HasEvent, EventTypes, MayAck, HasTrace
<1> QED BY <1>1, <1>2, <1>3, <1>5, <1>6, SameReport, WorkerStepKeeps DEF Promises

\* The event is published, or refused: the job leaves its trace.
LEMMA RecordKeeps ==
  ASSUME Inv, NEW w \in Workers, Record(w) \/ RecordFails(w)
  PROVE  Inv'
<1> DEFINE e == [job |-> worker[w].job, delivery |-> worker[w].delivery,
                 type |-> worker[w].event]
<1>1. /\ TypeOK /\ AfterRecord(w) /\ worker[w].pc = "record"
      /\ UNCHANGED <<mail, rows, world, accepted, dlq, handled, uncategorized>>
      /\ \/ events' = events \cup {e} /\ unreported' = unreported
         \/ events' = events /\ unreported' = unreported \cup {worker[w].job}
  BY DEF Inv, Record, RecordFails, ghosts
<1>2. /\ worker[w].job \in Jobs /\ worker[w].delivery \in 1 .. MaxDeliver
      /\ worker[w].event \in EventTypes /\ MayReport(w)
  BY <1>1 DEF Inv, Promises, HasJob, HasEvent
<1>3. /\ OnlyMoves(w) /\ KeepsJob(w)
      /\ worker'[w].pc \in {"commit", "failed"}
      /\ worker'[w].event = worker[w].event /\ worker'[w].write = worker[w].write
  BY <1>1, AfterRecordEffect
<1>4. e \in Events /\ e.job = worker[w].job
      /\ e.delivery = worker[w].delivery /\ e.type = worker[w].event
  BY <1>2 DEF Events
<1> HIDE DEF e
<1>5. faults' \in 0 .. MaxFaults
  BY <1>1, NumbersAssumption DEF TypeOK, Record, RecordFails, Fault
<1>6. TypeOK'
  BY <1>1, <1>2, <1>3, <1>4, <1>5 DEF TypeOK, OnlyMoves, mail, world
<1>7. Grows /\ GoneIsDone
  BY <1>1 DEF Grows, GoneIsDone, Tracing, mail, world
<1>8. NewsAreTrue
  <2>1. e.type = SentStatus =>
          \E q \in 1 .. Providers : <<e.job, e.delivery, q>> \in accepted
    BY <1>1, <1>2, <1>4 DEF MayReport
  <2>2. \A f \in events' : f \in events \/ f = e
    BY <1>1
  <2>3. rows' = rows
    BY <1>1
  <2>4. \A f \in events' : f \in events \/
          (f.type = SentStatus =>
             \E q \in 1 .. Providers : <<f.job, f.delivery, q>> \in accepted)
    BY <2>1, <2>2
  <2> QED BY <2>3, <2>4 DEF NewsAreTrue
<1>9. Traced(worker[w].job)'
  BY <1>1, <1>3, <1>4 DEF Traced, Reported, KeepsJob
<1>10. HasEvent(w)' /\ MayAck(w)' /\ HasTrace(w)'
  BY <1>3, <1>9 DEF HasEvent, MayAck, HasTrace, KeepsJob
<1> QED BY <1>1, <1>3, <1>6, <1>7, <1>8, <1>10, SameReport, WorkerStepKeeps DEF Promises

\* A job is handled once it is committed; its row says what was reported.
LEMMA CommitKeeps ==
  ASSUME Inv, NEW w \in Workers, Commit(w) \/ CommitFails(w)
  PROVE  Inv'
<1>1. /\ TypeOK /\ worker[w].pc = "commit" /\ worker[w].write \in Writes
      /\ UNCHANGED <<mail, world, accepted, events, dlq, unreported, uncategorized>>
      /\ rows' \in {rows, Write(worker[w].job, worker[w].write)}
  BY DEF Inv, TypeOK, WorkerStates, Writes, Commit, CommitFails, ghosts
<1>2. worker[w].job \in Jobs /\ MayReport(w) /\ HasTrace(w)
  BY <1>1 DEF Inv, Promises, HasJob
<1>3. \/ /\ SetWorker(w, [worker[w] EXCEPT !.pc = "reply"])
         /\ handled' = handled \cup {worker[w].job} /\ faults' = faults
      \/ /\ SetWorker(w, [worker[w] EXCEPT !.pc = "failed"])
         /\ handled' = handled /\ Fault
  BY DEF Commit, CommitFails, ghosts
<1>4. /\ OnlyMoves(w) /\ KeepsJob(w)
      /\ \/ worker'[w].pc = "reply" /\ worker[w].job \in handled'
         \/ worker'[w].pc = "failed"
      /\ worker'[w].event = worker[w].event /\ worker'[w].write = worker[w].write
      /\ worker'[w].reply = worker[w].reply
  BY <1>1, <1>3, GoEffect DEF PCs
<1>5. /\ handled \subseteq handled' /\ handled' \subseteq Jobs
      /\ faults' \in 0 .. MaxFaults
  BY <1>1, <1>2, <1>3, NumbersAssumption DEF TypeOK, Fault
<1>6. /\ rows' \in [Jobs -> RowStatuses]
      /\ \A j \in Jobs : rows'[j] = rows[j]
                        \/ (j = worker[w].job /\ rows'[j] = worker[w].write)
  BY <1>1, <1>2, WriteEffect DEF TypeOK
<1>7. TypeOK'
  BY <1>1, <1>4, <1>5, <1>6 DEF TypeOK, OnlyMoves, mail, world
<1>8. Grows /\ GoneIsDone
  BY <1>1, <1>5 DEF Grows, GoneIsDone, Tracing, mail, world
<1>9. NewsAreTrue
  <2>1. worker[w].write = SentStatus => WasAccepted(worker[w].job)
    <3>1. SUFFICES ASSUME worker[w].write = SentStatus
                   PROVE  WasAccepted(worker[w].job)
      OBVIOUS
    <3>2. PICK q \in 1 .. Providers :
            <<worker[w].job, worker[w].delivery, q>> \in accepted
      BY <1>1, <1>2, <3>1 DEF MayReport
    <3> QED BY <3>2 DEF WasAccepted
  <2>2. events' = events
    BY <1>1
  <2> QED BY <1>6, <2>1, <2>2 DEF NewsAreTrue
<1>10. HasEvent(w)' /\ MayAck(w)'
  BY <1>4 DEF HasEvent, MayAck, KeepsJob
<1>11. HasTrace(w)'
  BY <1>1, <1>2, <1>4 DEF HasTrace, Tracing, Traced, Reported, KeepsJob, world
<1> QED BY <1>1, <1>4, <1>7, <1>8, <1>9, <1>10, <1>11, SameReport, WorkerStepKeeps
        DEF Promises

\* The answer to the server: Ack only of a job that is done.
LEMMA ReplyKeeps ==
  ASSUME Inv, NEW w \in Workers, Reply(w)
  PROVE  Inv'
<1>1. /\ TypeOK /\ worker[w].pc = "reply" /\ SetWorker(w, Idle)
      /\ UNCHANGED <<delivered, rows, world, accepted, events, dlq, ghosts, faults>>
  BY DEF Inv, Reply
<1>2. worker[w].job \in Jobs /\ MayAck(w) /\ HasTrace(w)
  BY <1>1 DEF Inv, Promises, HasJob
<1>3. \/ worker[w].reply = "ack" /\ Remove(w)
      \/ PutBack(w, "window") \/ PutBack(w, "now")
  <2>1. worker[w].reply \in {"ack", "defer", "again"}
    BY <1>1 DEF TypeOK, WorkerStates
  <2> QED BY <2>1 DEF Reply
<1>4. OnlyMoves(w) /\ worker'[w].pc = "idle"
  BY <1>1, IdleEffect
<1>5. /\ waiting' \in [Jobs -> Waitings]
      /\ \A j \in Jobs : waiting'[j] = "gone" =>
           waiting[j] = "gone" \/ (j = worker[w].job /\ worker[w].reply = "ack")
  BY <1>1, <1>2, <1>3 DEF TypeOK, Waitings, Remove, PutBack
<1>6. TypeOK'
  BY <1>1, <1>4, <1>5 DEF TypeOK, OnlyMoves, world, ghosts
<1>7. Grows /\ NewsAreTrue
  BY <1>1 DEF Grows, Tracing, NewsAreTrue, world, ghosts
<1>8. GoneIsDone
  BY <1>1, <1>2, <1>5 DEF GoneIsDone, MayAck, HasTrace
<1>9. Promises(w)'
  BY <1>4 DEF Promises, HasJob, HasEvent, MayAck, MayReport, HasTrace
<1> QED BY <1>1, <1>4, <1>6, <1>7, <1>8, <1>9, WorkerStepKeeps

\* The delivery is given up: by a Nak, or with the worker.
LEMMA GiveUpKeeps ==
  ASSUME Inv, NEW w \in Workers, Nak(w) \/ DeadLetterFails(w) \/ Crash(w)
  PROVE  Inv'
<1>1. /\ TypeOK /\ worker[w].pc # "idle" /\ SetWorker(w, Idle)
      /\ UNCHANGED <<delivered, rows, world, accepted, events, dlq, ghosts>>
      /\ waiting' = waiting \/ PutBack(w, "now")
      /\ faults' = faults \/ Fault
  BY DEF Inv, Nak, DeadLetterFails, Crash, mail
<1>2. worker[w].job \in Jobs
  BY <1>1 DEF Inv, Promises, HasJob
<1>3. OnlyMoves(w) /\ worker'[w].pc = "idle"
  BY <1>1, IdleEffect
<1>4. /\ waiting' \in [Jobs -> Waitings]
      /\ \A j \in Jobs : waiting'[j] = "gone" => waiting[j] = "gone"
  BY <1>1, <1>2 DEF TypeOK, Waitings, PutBack
<1>5. faults' \in 0 .. MaxFaults
  BY <1>1, NumbersAssumption DEF TypeOK, Fault
<1>6. TypeOK'
  BY <1>1, <1>3, <1>4, <1>5 DEF TypeOK, OnlyMoves, world, ghosts
<1>7. Grows /\ NewsAreTrue /\ GoneIsDone
  BY <1>1, <1>4 DEF Grows, Tracing, NewsAreTrue, GoneIsDone, world, ghosts
<1>8. Promises(w)'
  BY <1>3 DEF Promises, HasJob, HasEvent, MayAck, MayReport, HasTrace
<1> QED BY <1>1, <1>3, <1>6, <1>7, <1>8, WorkerStepKeeps

\* The DLQ has a copy before the message is terminated.
LEMMA DeadLetterKeeps ==
  ASSUME Inv, NEW w \in Workers, DeadLetter(w)
  PROVE  Inv'
<1>1. /\ TypeOK /\ worker[w].pc # "idle"
      /\ SetWorker(w, [worker[w] EXCEPT !.pc = "reply", !.reply = "ack"])
      /\ dlq' = dlq \cup {worker[w].job}
      /\ UNCHANGED <<mail, rows, world, accepted, events, ghosts, faults>>
  BY DEF Inv, DeadLetter
<1>2. worker[w].job \in Jobs
  BY <1>1 DEF Inv, Promises, HasJob
<1>3. /\ OnlyMoves(w) /\ KeepsJob(w) /\ worker'[w].pc = "reply"
      /\ worker'[w].event = worker[w].event /\ worker'[w].write = worker[w].write
  BY <1>1, AnswerEffect DEF PCs
<1>4. TypeOK'
  BY <1>1, <1>2, <1>3 DEF TypeOK, OnlyMoves, mail, world, ghosts
<1>5. Grows /\ NewsAreTrue /\ GoneIsDone
  BY <1>1 DEF Grows, Tracing, NewsAreTrue, GoneIsDone, mail, world, ghosts
<1>6. HasEvent(w)' /\ MayAck(w)' /\ HasTrace(w)'
  BY <1>1, <1>3 DEF HasEvent, MayAck, HasTrace, Traced, KeepsJob
<1> QED BY <1>1, <1>3, <1>4, <1>5, <1>6, SameReport, WorkerStepKeeps DEF Promises

-----------------------------------------------------------------------------
(* The theorems.                                                           *)

\* Nothing is promised, taken or reported at first.
LEMMA InvInit ==
  ASSUME Init
  PROVE  Inv
<1>1. Idle \in WorkerStates /\ Idle.pc = "idle"
  BY NumbersAssumption DEF Idle, WorkerStates, EventTypes
<1>2. \A w \in Workers : worker[w] = Idle
  BY DEF Init
<1>3. TypeOK
  <2>1. 0 \in 0 .. MaxDeliver /\ 0 \in 0 .. MaxTurns /\ 0 \in 0 .. MaxFaults
    BY NumbersAssumption
  <2>2. /\ waiting \in [Jobs -> Waitings] /\ rows \in [Jobs -> RowStatuses]
        /\ delivered \in [Jobs -> 0 .. MaxDeliver]
    BY <2>1 DEF Init, Waitings, RowStatuses
  <2>3. worker \in [Workers -> WorkerStates]
    BY <1>1 DEF Init
  <2> QED BY <2>1, <2>2, <2>3 DEF Init, TypeOK
<1>4. \A w \in Workers : Promises(w)
  BY <1>1, <1>2 DEF Promises, HasJob, HasEvent, MayAck, MayReport, HasTrace
<1>5. WindowInv /\ AcknowledgedJobsAreDone /\ FinishedJobsLeaveATrace
  BY DEF Init, WindowInv, AcknowledgedJobsAreDone, FinishedJobsLeaveATrace
<1>6. ReportsAreTrue
  BY SentStatusType DEF Init, ReportsAreTrue
<1> QED BY <1>3, <1>4, <1>5, <1>6 DEF Inv

\* Every step keeps the invariant, a stuttering step too.
LEMMA InvNext ==
  ASSUME Inv, [Next]_vars
  PROVE  Inv'
<1>1. ASSUME NEW j \in Jobs, CommitRow(j) \/ AbortRow(j) \/ Expire(j)
      PROVE  Inv'
  BY <1>1, StreamKeeps
<1>2. CASE Suppress \/ Register \/ DeleteDLTTemplate
  BY <1>2, ListsKeep
<1>3. CASE OpenWindow \/ CloseWindow
  BY <1>3, OpenWindowKeeps, CloseWindowKeeps
<1>4. ASSUME NEW w \in Workers, NEW j \in Jobs, Receive(w, j)
      PROVE  Inv'
  BY <1>4, ReceiveKeeps
<1>5. ASSUME NEW w \in Workers, Work(w)
      PROVE  Inv'
  <2>1. CASE FailGates(w) \/ Match(w) \/ Scrub(w) \/ Hold(w)
    BY <2>1, GatesKeep
  <2>2. CASE Stop(w)
    BY <2>2, StopKeeps
  <2>3. CASE Defer(w)
    BY <2>3, DeferKeeps
  <2>4. CASE Pass(w)
    BY <2>4, PassKeeps
  <2>5. CASE Accept(w)
    BY <2>5, AcceptKeeps
  <2>6. CASE Reject(w)
    BY <2>6, NextProviderKeeps
  <2>7. CASE Record(w)
    BY <2>7, RecordKeeps
  <2>8. CASE Commit(w)
    BY <2>8, CommitKeeps
  <2>9. CASE Reply(w)
    BY <2>9, ReplyKeeps
  <2>10. CASE Nak(w)
    BY <2>10, GiveUpKeeps
  <2>11. CASE DeadLetter(w)
    BY <2>11, DeadLetterKeeps
  <2>12. CASE LookUpCategory(w)
    BY <2>12, CategoryKeeps
  <2> QED BY <1>5, <2>1, <2>2, <2>3, <2>4, <2>5, <2>6, <2>7, <2>8, <2>9, <2>10, <2>11,
          <2>12 DEF Work
<1>6. ASSUME NEW w \in Workers, WorkFault(w)
      PROVE  Inv'
  <2>1. CASE AcceptUnheard(w)
    BY <2>1, NextProviderKeeps
  <2>2. CASE RecordFails(w)
    BY <2>2, RecordKeeps
  <2>3. CASE CommitFails(w)
    BY <2>3, CommitKeeps
  <2>4. CASE DeadLetterFails(w) \/ Crash(w)
    BY <2>4, GiveUpKeeps
  <2>5. CASE CategoryFails(w)
    BY <2>5, CategoryKeeps
  <2> QED BY <1>6, <2>1, <2>2, <2>3, <2>4, <2>5 DEF WorkFault
<1>7. CASE UNCHANGED vars
  BY <1>7 DEF vars, mail, world, ghosts, Inv, TypeOK, Promises, HasJob, HasEvent, MayAck,
     MayReport, HasTrace, Traced, Tracing, WindowInv, AcknowledgedJobsAreDone,
     ReportsAreTrue, FinishedJobsLeaveATrace, WasAccepted, Reported, SentStatus
<1> QED BY <1>1, <1>2, <1>3, <1>4, <1>5, <1>6, <1>7 DEF Next

\* The invariant holds.
LEMMA InvHolds == Spec => []Inv
  BY InvInit, InvNext, PTL DEF Spec

\* Types: the deliveries of a job keep to MaxDeliver, whoever redelivers it.
THEOREM WorkerTypeCorrect == Spec => []TypeOK
<1>1. Inv => TypeOK
  BY DEF Inv
<1> QED BY <1>1, InvHolds, PTL

\* The stream gives a job up only when a handler has committed it or the DLQ
\* has a copy (the Ack of Run, the Term of HandleFailure).
THEOREM JobsAreDone == Spec => []AcknowledgedJobsAreDone
<1>1. Inv => AcknowledgedJobsAreDone
  BY DEF Inv
<1> QED BY <1>1, InvHolds, PTL

\* What recordDelivery publishes as sent, and what the row then says, was
\* taken by a provider.
THEOREM ReportsTrue == Spec => []ReportsAreTrue
<1>1. Inv => ReportsAreTrue
  BY DEF Inv
<1> QED BY <1>1, InvHolds, PTL

\* No handler ends a job without a delivery event, a copy in the DLQ or an
\* event the bus refused (the in-app worker, and SMS once the window moves, do).
THEOREM JobsLeaveATrace == Spec => []FinishedJobsLeaveATrace
<1>1. Inv => FinishedJobsLeaveATrace
  BY DEF Inv
<1> QED BY <1>1, InvHolds, PTL

-----------------------------------------------------------------------------
(* Duplicate sends.  What may still lead to a send of job j without another *)
(* fault is counted with the sends there have been: a delivery that is due, *)
(* and the handlers that have not sent it.  A send, a Nak and a new         *)
(* delivery each move one unit from one count to the other; only a fault    *)
(* adds one.  A handler that is sending in a transaction which cannot        *)
(* commit counts twice: it may send the job and have it delivered again.    *)

Sends(j) == {a \in accepted : a[1] = j}

\* A handler that has not sent its message: it may send it, or have it sent
\* by the next delivery.
MayStill(state) ==
  \/ state.pc \in {"gates", "category", "registry", "window", "defer", "send", "failed"}
  \/ state.pc = "record" /\ ~state.ok
  \/ state.pc \in {"commit", "reply"} /\ state.reply # "ack"

Torn(state) == state.pc = "send" /\ ~state.ok

Handlers(j) == {w \in Workers : worker[w].job = j /\ MayStill(worker[w])}
TornHandlers(j) == {w \in Workers : worker[w].job = j /\ Torn(worker[w])}

\* The stream will deliver job j again, unless a handler answers first.
Due(j) == IF \/ waiting[j] \in {"now", "window"}
             \/ waiting[j] = "taken" /\ ~\E w \in Workers : HeldBy(w, j)
          THEN 1 ELSE 0

Account(j) ==
  Cardinality(Sends(j)) + Cardinality(Handlers(j)) + Cardinality(TornHandlers(j)) + Due(j)

SendsInv(j) ==
  /\ IsFiniteSet(Sends(j)) /\ IsFiniteSet(Handlers(j)) /\ IsFiniteSet(TornHandlers(j))
  /\ Account(j) <= 1 + faults

\* Until it sends a handler's transaction is whole, but for the category; until
\* it is at its commit it has not decided on a deferral.
AtAGate(state) == state.pc \in {"gates", "category", "registry", "window", "defer"}

Fresh(state) ==
  /\ state.pc = "idle" => state.job = Nobody
  /\ AtAGate(state) => state.ok
  /\ AtAGate(state) \/ state.pc \in {"send", "record"} => state.reply = "ack"

AllSendsInv ==
  (\A w \in Workers : Fresh(worker[w])) /\ (\A j \in Jobs : SendsInv(j))

OthersStay(w) == \A v \in Workers \ {w} : worker'[v] = worker[v]
Unit(state) == (IF MayStill(state) THEN 1 ELSE 0) + (IF Torn(state) THEN 1 ELSE 0)
Count(j, state) == IF state.job = j THEN Unit(state) ELSE 0

LEMMA CountType ==
  ASSUME NEW j, NEW state
  PROVE  Unit(state) \in {0, 1, 2} /\ Count(j, state) \in {0, 1, 2}
  BY DEF Unit, Count

\* A set that differs by one element at most.
LEMMA OneElement ==
  ASSUME NEW S, IsFiniteSet(S), NEW w, NEW T, NEW old \in {0, 1}, NEW new \in {0, 1},
         w \in S <=> old = 1, T = IF new = 1 THEN S \cup {w} ELSE S \ {w}
  PROVE  /\ IsFiniteSet(T) /\ Cardinality(T) \in Nat /\ Cardinality(S) \in Nat
         /\ Cardinality(T) + old = Cardinality(S) + new
<1>1. /\ IsFiniteSet(S \cup {w}) /\ IsFiniteSet(S \ {w})
      /\ w \notin S => Cardinality(S \cup {w}) = Cardinality(S) + 1
      /\ w \in S => Cardinality(S \ {w}) = Cardinality(S) - 1
  BY FS_AddElement, FS_RemoveElement
<1>2. Cardinality(S) \in Nat
  BY FS_CardinalityType
<1>3. IsFiniteSet(T)
  BY <1>1
<1>4. Cardinality(T) \in Nat
  BY <1>3, FS_CardinalityType
<1>5. CASE w \in S /\ new = 1
  <2>1. T = S
    BY <1>5
  <2> QED BY <1>2, <1>3, <1>5, <2>1
<1>6. CASE w \in S /\ new = 0
  <2>1. T = S \ {w}
    BY <1>6
  <2> QED BY <1>1, <1>2, <1>3, <1>4, <1>6, <2>1
<1>7. CASE w \notin S /\ new = 1
  <2>1. T = S \cup {w}
    BY <1>7
  <2> QED BY <1>1, <1>2, <1>3, <1>4, <1>7, <2>1
<1>8. CASE w \notin S /\ new = 0
  <2>1. T = S
    BY <1>8
  <2> QED BY <1>2, <1>3, <1>8, <2>1
<1> QED BY <1>5, <1>6, <1>7, <1>8

\* The account of job j in numbers.
LEMMA AccountType ==
  ASSUME NEW j \in Jobs, SendsInv(j)
  PROVE  /\ Cardinality(Sends(j)) \in Nat /\ Cardinality(Handlers(j)) \in Nat
         /\ Cardinality(TornHandlers(j)) \in Nat /\ Due(j) \in {0, 1}
  BY FS_CardinalityType DEF SendsInv, Due

\* The account of job j after a step of worker w.
LEMMA Balance ==
  ASSUME NEW j \in Jobs, SendsInv(j), faults \in Nat, faults' \in Nat,
         NEW w \in Workers, OthersStay(w), NEW new \in {0, 1}, NEW x,
         Sends(j)' = IF new = 1 THEN Sends(j) \cup {x} ELSE Sends(j),
         new + Count(j, worker'[w]) + Due(j)' + faults
           <= Count(j, worker[w]) + Due(j) + faults'
  PROVE  SendsInv(j)'
<1>1. /\ IsFiniteSet(Sends(j)) /\ IsFiniteSet(Handlers(j)) /\ IsFiniteSet(TornHandlers(j))
      /\ Cardinality(Sends(j)) \in Nat /\ Account(j) <= 1 + faults
  BY AccountType DEF SendsInv
<1>2. /\ IsFiniteSet(Sends(j)') /\ Cardinality(Sends(j)') \in Nat
      /\ Cardinality(Sends(j)') <= Cardinality(Sends(j)) + new
  <2>1. IsFiniteSet(Sends(j) \cup {x})
        /\ Cardinality(Sends(j) \cup {x}) <= Cardinality(Sends(j)) + 1
    <3> DEFINE S == Sends(j)
    <3>1. IsFiniteSet(S) /\ Cardinality(S) \in Nat
      BY <1>1
    <3> HIDE DEF S
    <3>2. /\ IsFiniteSet(S \cup {x})
          /\ Cardinality(S \cup {x}) \in {Cardinality(S), Cardinality(S) + 1}
      BY <3>1, FS_AddElement
    <3> QED BY <3>1, <3>2 DEF S
  <2>2. Cardinality(Sends(j) \cup {x}) \in Nat
    BY <2>1, FS_CardinalityType
  <2>3. Sends(j)' \in {Sends(j), Sends(j) \cup {x}} /\ (new = 0 => Sends(j)' = Sends(j))
    OBVIOUS
  <2>4. CASE new = 0
    BY <1>1, <2>3, <2>4
  <2>5. CASE Sends(j)' = Sends(j) \cup {x} /\ new = 1
    BY <1>1, <2>1, <2>2, <2>5
  <2> QED BY <2>4, <2>5
<1> DEFINE Still(state) == IF state.job = j /\ MayStill(state) THEN 1 ELSE 0
           Tears(state) == IF state.job = j /\ Torn(state) THEN 1 ELSE 0
<1>3. /\ Still(worker[w]) \in {0, 1} /\ Still(worker'[w]) \in {0, 1}
      /\ Tears(worker[w]) \in {0, 1} /\ Tears(worker'[w]) \in {0, 1}
      /\ Count(j, worker[w]) = Still(worker[w]) + Tears(worker[w])
      /\ Count(j, worker'[w]) = Still(worker'[w]) + Tears(worker'[w])
  BY DEF Count, Unit
<1>4. /\ w \in Handlers(j) <=> Still(worker[w]) = 1
      /\ Handlers(j)' = IF Still(worker'[w]) = 1 THEN Handlers(j) \cup {w}
                        ELSE Handlers(j) \ {w}
  BY DEF Handlers, OthersStay
<1>5. /\ w \in TornHandlers(j) <=> Tears(worker[w]) = 1
      /\ TornHandlers(j)' = IF Tears(worker'[w]) = 1 THEN TornHandlers(j) \cup {w}
                            ELSE TornHandlers(j) \ {w}
  BY DEF TornHandlers, OthersStay
<1> HIDE DEF Still, Tears
<1>6. /\ IsFiniteSet(Handlers(j)')
      /\ Cardinality(Handlers(j)') \in Nat /\ Cardinality(Handlers(j)) \in Nat
      /\ Cardinality(Handlers(j)') + Still(worker[w])
           = Cardinality(Handlers(j)) + Still(worker'[w])
  BY <1>1, <1>3, <1>4, OneElement
<1>7. /\ IsFiniteSet(TornHandlers(j)')
      /\ Cardinality(TornHandlers(j)') \in Nat /\ Cardinality(TornHandlers(j)) \in Nat
      /\ Cardinality(TornHandlers(j)') + Tears(worker[w])
           = Cardinality(TornHandlers(j)) + Tears(worker'[w])
  BY <1>1, <1>3, <1>5, OneElement
<1>8. Due(j) \in {0, 1} /\ Due(j)' \in {0, 1}
  BY DEF Due
<1>9. Account(j)' <= 1 + faults'
  BY <1>1, <1>2, <1>3, <1>6, <1>7, <1>8 DEF Account
<1> QED BY <1>2, <1>6, <1>7, <1>9 DEF SendsInv

\* Nothing that concerns the delivery of job j has changed.
LEMMA DueStays ==
  ASSUME NEW j \in Jobs, NEW w \in Workers, OthersStay(w),
         waiting'[j] = waiting[j], delivered'[j] = delivered[j],
         HeldBy(w, j)' <=> HeldBy(w, j)
  PROVE  Due(j)' = Due(j)
<1>1. (\E v \in Workers : HeldBy(v, j)') <=> (\E v \in Workers : HeldBy(v, j))
  BY DEF OthersStay, HeldBy
<1> QED BY <1>1 DEF Due

\* The same of a step that leaves the handlers of job j alone.
LEMMA QuietBalance ==
  ASSUME NEW j \in Jobs, SendsInv(j), faults \in Nat, faults' \in Nat,
         Sends(j)' = Sends(j), Handlers(j)' = Handlers(j),
         TornHandlers(j)' = TornHandlers(j), Due(j)' + faults <= Due(j) + faults'
  PROVE  SendsInv(j)'
<1>1. /\ Cardinality(Sends(j)) \in Nat /\ Cardinality(Handlers(j)) \in Nat
      /\ Cardinality(TornHandlers(j)) \in Nat /\ Account(j) <= 1 + faults
  BY AccountType DEF SendsInv
<1>2. Due(j) \in {0, 1} /\ Due(j)' \in {0, 1}
  BY DEF Due
<1>3. Account(j)' <= 1 + faults'
  BY <1>1, <1>2 DEF Account
<1> QED BY <1>3 DEF SendsInv

\* A handler that goes on pays for what it sends, and for what it may still do,
\* with the unit it had or with a fault.
LEMMA WalkBalance ==
  ASSUME Inv, AllSendsInv, NEW w \in Workers, OnlyMoves(w), KeepsJob(w),
         UNCHANGED mail, faults' \in Nat, faults <= faults', Fresh(worker'[w]),
         NEW new \in {0, 1}, NEW x, x[1] = worker[w].job,
         accepted' = IF new = 1 THEN accepted \cup {x} ELSE accepted,
         new + Unit(worker'[w]) + faults <= Unit(worker[w]) + faults'
  PROVE  AllSendsInv'
<1>1. faults \in Nat /\ OthersStay(w)
  BY NumbersAssumption DEF Inv, TypeOK, OnlyMoves, OthersStay
<1>2. ASSUME NEW j \in Jobs
      PROVE  SendsInv(j)'
  <2>1. SendsInv(j) /\ Due(j)' = Due(j) /\ Due(j) \in {0, 1}
    <3>1. HeldBy(w, j)' <=> HeldBy(w, j)
      BY DEF HeldBy, KeepsJob, mail
    <3>2. Due(j) \in {0, 1}
      BY DEF Due
    <3> QED BY <1>1, <3>1, <3>2, DueStays DEF AllSendsInv, mail
  <2>2. CASE worker[w].job = j
    <3>1. Sends(j)' = IF new = 1 THEN Sends(j) \cup {x} ELSE Sends(j)
      BY <2>2 DEF Sends
    <3>2. /\ Count(j, worker'[w]) = Unit(worker'[w])
          /\ Count(j, worker[w]) = Unit(worker[w])
          /\ Unit(worker'[w]) \in {0, 1, 2} /\ Unit(worker[w]) \in {0, 1, 2}
      BY <2>2, CountType DEF Count, KeepsJob
    <3>3. new + Count(j, worker'[w]) + Due(j)' + faults
            <= Count(j, worker[w]) + Due(j) + faults'
      BY <1>1, <2>1, <3>2
    <3> QED BY <1>1, <2>1, <3>1, <3>3, Balance
  <2>3. CASE worker[w].job # j
    <3>1. Sends(j)' = Sends(j)
      BY <2>3 DEF Sends
    <3>2. Count(j, worker'[w]) = 0 /\ Count(j, worker[w]) = 0
      BY <2>3 DEF Count, KeepsJob
    <3>3. 0 + Count(j, worker'[w]) + Due(j)' + faults
            <= Count(j, worker[w]) + Due(j) + faults'
      BY <1>1, <2>1, <3>2
    <3>4. 0 \in {0, 1} /\ Sends(j)' = IF 0 = 1 THEN Sends(j) \cup {x} ELSE Sends(j)
      BY <3>1
    <3> QED BY <1>1, <2>1, <3>3, <3>4, Balance
  <2> QED BY <2>2, <2>3
<1>3. ASSUME NEW v \in Workers
      PROVE  Fresh(worker'[v])
  BY DEF AllSendsInv, OnlyMoves
<1> QED BY <1>2, <1>3 DEF AllSendsInv

\* A handler that ends hands its unit to the stream, or gives it up.
LEMMA ReleaseBalance ==
  ASSUME Inv, AllSendsInv, NEW w \in Workers, SetWorker(w, Idle), worker[w].pc # "idle",
         UNCHANGED <<delivered, accepted>>, faults' \in Nat, faults <= faults',
         \A j \in Jobs \ {worker[w].job} : waiting'[j] = waiting[j],
         \/ MayStill(worker[w])
         \/ waiting'[worker[w].job] = "gone"
         \/ faults' = faults + 1
  PROVE  AllSendsInv'
<1>1. faults \in Nat /\ worker[w].job \in Jobs
  BY NumbersAssumption DEF Inv, TypeOK, Promises, HasJob
<1>2. OnlyMoves(w) /\ worker'[w] = Idle /\ OthersStay(w)
  <2>1. Idle \in WorkerStates
    BY NumbersAssumption DEF Idle, WorkerStates, EventTypes
  <2> QED BY <2>1, SetWorkerEffect DEF Inv, OnlyMoves, OthersStay
<1>3. Idle.job = Nobody /\ Idle.pc = "idle" /\ Unit(Idle) = 0 /\ Fresh(Idle)
  BY DEF Idle, Unit, MayStill, Torn, Fresh, AtAGate
<1>4. ASSUME NEW j \in Jobs
      PROVE  SendsInv(j)'
  <2>1. SendsInv(j) /\ Sends(j)' = Sends(j)
    BY DEF AllSendsInv, Sends
  <2>2. Due(j) \in {0, 1} /\ Due(j)' \in {0, 1}
    BY DEF Due
  <2>3. Count(j, worker'[w]) = 0 /\ Count(j, worker[w]) \in {0, 1, 2}
    BY <1>2, <1>3, CountType DEF Count
  <2>4. Count(j, worker'[w]) + Due(j)' + faults <= Count(j, worker[w]) + Due(j) + faults'
    <3>1. CASE j # worker[w].job
      <4>1. HeldBy(w, j)' <=> HeldBy(w, j)
        BY <1>2, <1>3, <3>1, ChannelAssumption DEF HeldBy
      <4>2. Due(j)' = Due(j)
        BY <1>2, <3>1, <4>1, DueStays
      <4> QED BY <1>1, <2>2, <2>3, <4>2
    <3>2. CASE j = worker[w].job /\ MayStill(worker[w])
      <4>1. Count(j, worker[w]) \in {1, 2}
        BY <3>2 DEF Count, Unit
      <4> QED BY <1>1, <2>2, <2>3, <4>1
    <3>3. CASE j = worker[w].job /\ waiting'[worker[w].job] = "gone"
      <4>1. Due(j)' = 0
        BY <3>3 DEF Due
      <4> QED BY <1>1, <2>2, <2>3, <4>1
    <3>4. CASE faults' = faults + 1
      BY <1>1, <2>2, <2>3, <3>4
    <3> QED BY <3>1, <3>2, <3>3, <3>4
  <2>5. 0 + Count(j, worker'[w]) + Due(j)' + faults
          <= Count(j, worker[w]) + Due(j) + faults'
    BY <1>1, <2>2, <2>3, <2>4
  <2>6. 0 \in {0, 1} /\ Sends(j)' = IF 0 = 1 THEN Sends(j) \cup {w} ELSE Sends(j)
    BY <2>1
  <2> QED BY <1>1, <1>2, <2>1, <2>5, <2>6, Balance
<1>5. ASSUME NEW v \in Workers
      PROVE  Fresh(worker'[v])
  BY <1>2, <1>3 DEF AllSendsInv, OthersStay
<1> QED BY <1>4, <1>5 DEF AllSendsInv

\* The gates, the deferral and the way to the provider neither send nor fail.
LEMMA GatesBalance ==
  ASSUME Inv, AllSendsInv, NEW w \in Workers,
         \/ FailGates(w) \/ Stop(w) \/ Match(w) \/ Scrub(w)
         \/ Hold(w) \/ Defer(w) \/ Pass(w)
  PROVE  AllSendsInv'
<1>1. /\ TypeOK /\ Fresh(worker[w]) /\ faults \in Nat
      /\ AtAGate(worker[w])
      /\ UNCHANGED <<mail, accepted, faults>>
  <2>1. TypeOK /\ Fresh(worker[w]) /\ faults \in Nat
    BY NumbersAssumption DEF Inv, TypeOK, AllSendsInv
  <2>2. UNCHANGED <<mail, accepted, faults>>
    BY DEF FailGates, Stop, Match, Scrub, Hold, Defer, Pass
  <2>3. AtAGate(worker[w])
    BY DEF FailGates, Stop, Match, Scrub, Hold, Defer, Pass, MayPass,
       SuppressedStop, UnmatchedStop, RegistryStop, SessionStop, AtGates, AtAGate
  <2> QED BY <2>1, <2>2, <2>3
<1>2. /\ OnlyMoves(w) /\ KeepsJob(w) /\ worker'[w].ok = worker[w].ok
      /\ \/ worker'[w].pc \in {"failed", "category", "window", "defer", "send", "record"}
            /\ worker'[w].reply = worker[w].reply
         \/ worker'[w].pc = "commit"
  <2>1. CASE FailGates(w) \/ Match(w) \/ Scrub(w) \/ Hold(w) \/ Pass(w)
    <3>1. PICK pc \in {"failed", "category", "window", "defer", "send"} :
            SetWorker(w, [worker[w] EXCEPT !.pc = pc])
      BY <2>1 DEF FailGates, Match, Scrub, Hold, Pass
    <3>2. pc \in PCs
      BY DEF PCs
    <3> QED BY <1>1, <3>1, <3>2, GoEffect
  <2>2. CASE Stop(w)
    BY <1>1, <2>2, StopEffect
  <2>3. CASE Defer(w)
    <3>1. PICK reply \in {"ack", "defer", "again"} :
            SetWorker(w, [worker[w] EXCEPT !.pc = "commit", !.reply = reply])
      BY <2>3 DEF Defer
    <3>2. "commit" \in PCs
      BY DEF PCs
    <3> QED BY <1>1, <3>1, <3>2, AnswerEffect
  <2> QED BY <1>1, <2>1, <2>2, <2>3
<1>3. Fresh(worker'[w])
  BY <1>1, <1>2 DEF Fresh, AtAGate
<1>4. Unit(worker[w]) = 1 /\ Unit(worker'[w]) \in {0, 1}
  BY <1>1, <1>2 DEF Fresh, AtAGate, Unit, MayStill, Torn
<1>5. PICK x : x = <<worker[w].job>>
  OBVIOUS
<1>6. x[1] = worker[w].job
  BY <1>5
<1>7. /\ 0 \in {0, 1} /\ accepted' = IF 0 = 1 THEN accepted \cup {x} ELSE accepted
      /\ faults' \in Nat /\ faults <= faults' /\ UNCHANGED mail
      /\ 0 + Unit(worker'[w]) + faults <= Unit(worker[w]) + faults'
  BY <1>1, <1>4
<1> QED BY <1>2, <1>3, <1>6, <1>7, WalkBalance

\* The category: a query that fails is a fault, and pays for the second unit.
LEMMA CategoryBalance ==
  ASSUME Inv, AllSendsInv, NEW w \in Workers, LookUpCategory(w) \/ CategoryFails(w)
  PROVE  AllSendsInv'
<1>1. /\ TypeOK /\ Fresh(worker[w]) /\ faults \in Nat
      /\ UNCHANGED <<mail, accepted>>
  BY NumbersAssumption DEF Inv, TypeOK, AllSendsInv, LookUpCategory, CategoryFails
<1>2. /\ OnlyMoves(w) /\ KeepsJob(w)
      /\ worker[w].pc = "category" /\ worker'[w].pc \in {"registry", "send"}
      /\ worker'[w].reply = worker[w].reply
      /\ \/ worker'[w].ok = worker[w].ok /\ faults' = faults
         \/ worker'[w].pc = "send" /\ faults' = faults + 1
  BY <1>1, CategoryEffect
<1>3. Fresh(worker'[w])
  BY <1>1, <1>2 DEF Fresh, AtAGate
<1>4. /\ Unit(worker[w]) = 1
      /\ \/ Unit(worker'[w]) = 1 /\ faults' = faults
         \/ Unit(worker'[w]) \in {1, 2} /\ faults' = faults + 1
  BY <1>1, <1>2 DEF Fresh, AtAGate, Unit, MayStill, Torn
<1>5. PICK x : x = <<worker[w].job>>
  OBVIOUS
<1>6. x[1] = worker[w].job
  BY <1>5
<1>7. /\ 0 \in {0, 1} /\ accepted' = IF 0 = 1 THEN accepted \cup {x} ELSE accepted
      /\ faults' \in Nat /\ faults <= faults' /\ UNCHANGED mail
      /\ 0 + Unit(worker'[w]) + faults <= Unit(worker[w]) + faults'
  BY <1>1, <1>4
<1> QED BY <1>2, <1>3, <1>6, <1>7, WalkBalance

\* A send is paid for with the unit of the handler, or it is the fault of a
\* reply that was lost.
LEMMA SendBalance ==
  ASSUME Inv, AllSendsInv, NEW w \in Workers, Accept(w) \/ Reject(w) \/ AcceptUnheard(w)
  PROVE  AllSendsInv'
<1>1. /\ TypeOK /\ Fresh(worker[w]) /\ faults \in Nat
      /\ worker[w].pc = "send" /\ Sending(w) /\ UNCHANGED mail
  BY DEF Inv, TypeOK, AllSendsInv, Accept, Reject, AcceptUnheard, Sending
<1>2. PICK x : x = Send(w)
  OBVIOUS
<1>3. x[1] = worker[w].job
  BY <1>2 DEF Send
<1>4. /\ worker[w].reply = "ack"
      /\ Unit(worker[w]) = IF worker[w].ok THEN 1 ELSE 2
  BY <1>1 DEF Fresh, Unit, MayStill, Torn
<1>5. Unit(worker'[w]) \in {0, 1, 2}
  BY CountType
<1>6. CASE Accept(w)
  <2>1. /\ OnlyMoves(w) /\ KeepsJob(w) /\ worker'[w].pc \in {"record", "reply"}
        /\ worker'[w].ok = worker[w].ok /\ worker'[w].reply = worker[w].reply
    <3>1. CASE InTransaction
      <4>1. Settles(w, "record", SentStatus, SentStatus)
        BY <1>6, <3>1 DEF Accept, Settles
      <4> QED BY <1>1, <4>1, SettleEffect, SentStatusType DEF PCs
    <3>2. CASE ~InTransaction
      <4>1. SetWorker(w, [worker[w] EXCEPT !.pc = "reply"])
        BY <1>6, <3>2 DEF Accept
      <4> QED BY <1>1, <4>1, GoEffect DEF PCs
    <3> QED BY <3>1, <3>2
  <2>2. Fresh(worker'[w]) /\ 1 + Unit(worker'[w]) <= Unit(worker[w])
    BY <1>4, <2>1 DEF Fresh, AtAGate, Unit, MayStill, Torn
  <2>3. /\ 1 \in {0, 1} /\ accepted' = IF 1 = 1 THEN accepted \cup {x} ELSE accepted
        /\ faults' \in Nat /\ faults <= faults'
        /\ 1 + Unit(worker'[w]) + faults <= Unit(worker[w]) + faults'
    BY <1>1, <1>2, <1>4, <1>5, <1>6, <2>2 DEF Accept
  <2> QED BY <1>1, <1>3, <2>1, <2>2, <2>3, WalkBalance
<1>7. CASE Reject(w) \/ AcceptUnheard(w)
  <2>1. /\ OnlyMoves(w) /\ KeepsJob(w) /\ Fresh(worker'[w])
        /\ Unit(worker'[w]) <= Unit(worker[w])
    <3>1. TryNext(w)
      BY <1>7 DEF Reject, AcceptUnheard
    <3>2. /\ OnlyMoves(w) /\ KeepsJob(w)
          /\ worker'[w].pc \in {"send", "record", "failed"}
          /\ worker'[w].reply = worker[w].reply
          /\ worker'[w].pc = "send" => worker'[w].ok = worker[w].ok
      BY <1>1, <3>1, TryNextEffect
    <3> QED BY <1>4, <3>2 DEF Fresh, AtAGate, Unit, MayStill, Torn
  <2>2. CASE Reject(w)
    <3>1. /\ 0 \in {0, 1} /\ accepted' = IF 0 = 1 THEN accepted \cup {x} ELSE accepted
          /\ faults' \in Nat /\ faults <= faults'
          /\ 0 + Unit(worker'[w]) + faults <= Unit(worker[w]) + faults'
      BY <1>1, <1>4, <1>5, <2>1, <2>2 DEF Reject
    <3> QED BY <1>1, <1>3, <2>1, <3>1, WalkBalance
  <2>3. CASE AcceptUnheard(w)
    <3>1. /\ 1 \in {0, 1} /\ accepted' = IF 1 = 1 THEN accepted \cup {x} ELSE accepted
          /\ faults' \in Nat /\ faults <= faults'
          /\ 1 + Unit(worker'[w]) + faults <= Unit(worker[w]) + faults'
      BY <1>1, <1>2, <1>4, <1>5, <2>1, <2>3 DEF AcceptUnheard, Fault
    <3> QED BY <1>1, <1>3, <2>1, <3>1, WalkBalance
  <2> QED BY <1>7, <2>2, <2>3
<1> QED BY <1>6, <1>7

\* After the send: the record, the commit, the copy to the DLQ.
LEMMA CommitBalance ==
  ASSUME Inv, AllSendsInv, NEW w \in Workers,
         \/ Record(w) \/ RecordFails(w) \/ Commit(w) \/ CommitFails(w) \/ DeadLetter(w)
  PROVE  AllSendsInv'
<1>1. /\ TypeOK /\ Fresh(worker[w]) /\ faults \in Nat
      /\ UNCHANGED <<mail, accepted>>
      /\ faults' = faults \/ faults' = faults + 1
  BY DEF Inv, TypeOK, AllSendsInv, Record, RecordFails, Commit, CommitFails, DeadLetter, Fault
<1>2. Unit(worker[w]) \in {0, 1, 2} /\ Unit(worker'[w]) \in {0, 1, 2}
  BY CountType
<1>3. /\ OnlyMoves(w) /\ KeepsJob(w)
      /\ worker'[w].pc \in {"commit", "reply", "failed"}
      /\ Unit(worker'[w]) <= Unit(worker[w]) \/ faults' = faults + 1
  <2>1. CASE Record(w) \/ RecordFails(w)
    <3>1. AfterRecord(w) /\ worker[w].pc = "record"
      BY <2>1 DEF Record, RecordFails
    <3>2. /\ OnlyMoves(w) /\ KeepsJob(w)
          /\ worker'[w].pc = IF worker[w].ok THEN "commit" ELSE "failed"
          /\ worker'[w].reply = worker[w].reply
      BY <1>1, <3>1, AfterRecordEffect
    <3>3. worker[w].reply = "ack"
      BY <1>1, <3>1 DEF Fresh
    <3>4. Unit(worker'[w]) <= Unit(worker[w])
      BY <3>1, <3>2, <3>3 DEF Unit, MayStill, Torn
    <3> QED BY <3>2, <3>4
  <2>2. CASE Commit(w)
    <3>1. SetWorker(w, [worker[w] EXCEPT !.pc = "reply"]) /\ worker[w].pc = "commit"
      BY <2>2 DEF Commit
    <3>2. /\ OnlyMoves(w) /\ KeepsJob(w)
          /\ worker'[w].pc = "reply" /\ worker'[w].reply = worker[w].reply
      BY <1>1, <3>1, GoEffect DEF PCs
    <3>3. Unit(worker'[w]) <= Unit(worker[w])
      BY <3>1, <3>2 DEF Unit, MayStill, Torn
    <3> QED BY <3>2, <3>3
  <2>3. CASE CommitFails(w)
    <3>1. SetWorker(w, [worker[w] EXCEPT !.pc = "failed"]) /\ faults' = faults + 1
      BY <2>3 DEF CommitFails, Fault
    <3> QED BY <1>1, <3>1, GoEffect DEF PCs
  <2>4. CASE DeadLetter(w)
    <3>1. /\ SetWorker(w, [worker[w] EXCEPT !.pc = "reply", !.reply = "ack"])
          /\ worker[w].pc = "failed"
      BY <2>4 DEF DeadLetter
    <3>2. /\ OnlyMoves(w) /\ KeepsJob(w)
          /\ worker'[w].pc = "reply" /\ worker'[w].reply = "ack"
      BY <1>1, <3>1, AnswerEffect DEF PCs
    <3>3. Unit(worker'[w]) <= Unit(worker[w])
      BY <3>1, <3>2 DEF Unit, MayStill, Torn
    <3> QED BY <3>2, <3>3
  <2> QED BY <2>1, <2>2, <2>3, <2>4
<1>4. Unit(worker'[w]) \in {0, 1}
  BY <1>3 DEF Unit, Torn
<1>5. Fresh(worker'[w])
  BY <1>3 DEF Fresh, AtAGate
<1>6. PICK x : x = <<worker[w].job>>
  OBVIOUS
<1>7. x[1] = worker[w].job
  BY <1>6
<1>8. /\ 0 \in {0, 1} /\ accepted' = IF 0 = 1 THEN accepted \cup {x} ELSE accepted
      /\ faults' \in Nat /\ faults <= faults' /\ UNCHANGED mail
      /\ 0 + Unit(worker'[w]) + faults <= Unit(worker[w]) + faults'
  BY <1>1, <1>2, <1>3, <1>4
<1> QED BY <1>3, <1>5, <1>7, <1>8, WalkBalance

\* The answer to the server, and the end of the handler.
LEMMA EndBalance ==
  ASSUME Inv, AllSendsInv, NEW w \in Workers,
         Reply(w) \/ Nak(w) \/ DeadLetterFails(w) \/ Crash(w)
  PROVE  AllSendsInv'
<1>1. /\ faults \in Nat /\ SetWorker(w, Idle) /\ worker[w].pc # "idle"
      /\ UNCHANGED <<delivered, accepted>>
      /\ faults' = faults \/ faults' = faults + 1
  <2>1. faults \in Nat
    BY NumbersAssumption DEF Inv, TypeOK
  <2>2. /\ SetWorker(w, Idle) /\ worker[w].pc # "idle"
        /\ UNCHANGED <<delivered, accepted>>
        /\ faults' = faults \/ faults' = faults + 1
    BY DEF Reply, Nak, DeadLetterFails, Crash, Fault, mail
  <2> QED BY <2>1, <2>2
<1>2. worker[w].job \in Jobs /\ waiting \in [Jobs -> Waitings]
  BY <1>1 DEF Inv, TypeOK, Promises, HasJob
<1>3. /\ \A j \in Jobs \ {worker[w].job} : waiting'[j] = waiting[j]
      /\ \/ MayStill(worker[w])
         \/ waiting'[worker[w].job] = "gone"
         \/ faults' = faults + 1
  <2>1. CASE Reply(w) /\ worker[w].reply = "ack"
    BY <1>2, <2>1 DEF Reply, Remove
  <2>2. CASE Reply(w) /\ worker[w].reply # "ack"
    <3>1. worker[w].reply \in {"defer", "again"}
      BY <2>2 DEF Inv, TypeOK, WorkerStates
    <3> QED BY <1>2, <2>2, <3>1 DEF Reply, PutBack, MayStill
  <2>3. CASE Nak(w)
    BY <1>2, <2>3 DEF Nak, PutBack, MayStill
  <2>4. CASE DeadLetterFails(w)
    BY <1>2, <2>4 DEF DeadLetterFails, PutBack, Fault
  <2>5. CASE Crash(w)
    BY <1>2, <2>5 DEF Crash, Fault, mail
  <2> QED BY <2>1, <2>2, <2>3, <2>4, <2>5
<1>4. faults' \in Nat /\ faults <= faults'
  BY <1>1
<1> QED BY <1>1, <1>3, <1>4, ReleaseBalance

\* A delivery moves its unit from the stream to the handler.
LEMMA ReceiveBalance ==
  ASSUME Inv, AllSendsInv, NEW w \in Workers, NEW i \in Jobs, Receive(w, i)
  PROVE  AllSendsInv'
<1> DEFINE state == [Idle EXCEPT !.pc = "gates", !.job = i, !.delivery = delivered[i] + 1]
<1>1. /\ state.pc = "gates" /\ state.job = i /\ state.delivery = delivered[i] + 1
      /\ Unit(state) = 1 /\ Fresh(state)
  BY DEF Idle, Unit, MayStill, Torn, Fresh, AtAGate
<1>2. worker'[w] = state /\ OthersStay(w)
  BY DEF Receive, SetWorker, Inv, TypeOK, OthersStay
<1> HIDE DEF state
<1>3. worker[w].job = Nobody /\ Unit(worker[w]) = 0
  BY DEF AllSendsInv, Fresh, Receive, Unit, MayStill, Torn
<1>4. /\ waiting[i] = "now" /\ waiting'[i] = "taken" /\ delivered'[i] = delivered[i] + 1
      /\ \A j \in Jobs \ {i} : waiting'[j] = waiting[j] /\ delivered'[j] = delivered[j]
      /\ faults \in Nat /\ faults' = faults /\ accepted' = accepted
  BY DEF Inv, TypeOK, Receive
<1>5. ASSUME NEW j \in Jobs
      PROVE  SendsInv(j)'
  <2>1. SendsInv(j) /\ Sends(j)' = Sends(j) /\ Count(j, worker[w]) = 0
    BY <1>3, <1>4 DEF AllSendsInv, Sends, Count
  <2>2. Count(j, worker'[w]) + Due(j)' = Due(j) /\ Due(j) \in {0, 1}
    <3>1. CASE j = i
      <4>1. HeldBy(w, j)'
        BY <1>1, <1>2, <1>4, <3>1 DEF HeldBy
      <4>2. Due(j) = 1 /\ Due(j)' = 0
        BY <1>4, <3>1, <4>1 DEF Due
      <4> QED BY <1>1, <1>2, <3>1, <4>2 DEF Count
    <3>2. CASE j # i
      <4>1. ~HeldBy(w, j) /\ ~HeldBy(w, j)'
        BY <1>1, <1>2, <1>3, <3>2, ChannelAssumption DEF HeldBy
      <4>2. Due(j)' = Due(j) /\ Due(j) \in {0, 1}
        <5>1. Due(j)' = Due(j)
          BY <1>2, <1>4, <3>2, <4>1, DueStays
        <5> QED BY <5>1 DEF Due
      <4> QED BY <1>1, <1>2, <3>2, <4>2 DEF Count
    <3> QED BY <3>1, <3>2
  <2>3. Count(j, worker'[w]) \in {0, 1} /\ Due(j)' \in {0, 1}
    BY <1>1, <1>2 DEF Count, Due
  <2>4. 0 + Count(j, worker'[w]) + Due(j)' + faults
          <= Count(j, worker[w]) + Due(j) + faults'
    BY <1>4, <2>1, <2>2, <2>3
  <2>5. 0 \in {0, 1} /\ Sends(j)' = IF 0 = 1 THEN Sends(j) \cup {w} ELSE Sends(j)
    BY <2>1
  <2>6. faults \in Nat /\ faults' \in Nat
    BY <1>4
  <2> QED BY <1>2, <2>1, <2>4, <2>5, <2>6, Balance
<1>6. ASSUME NEW v \in Workers
      PROVE  Fresh(worker'[v])
  BY <1>1, <1>2 DEF AllSendsInv, OthersStay
<1> QED BY <1>5, <1>6 DEF AllSendsInv

\* AckWait makes a job due again: of a handler that is there, by a fault.
LEMMA ExpireBalance ==
  ASSUME Inv, AllSendsInv, NEW i \in Jobs, Expire(i)
  PROVE  AllSendsInv'
<1>1. /\ faults \in Nat /\ faults' \in Nat /\ faults <= faults'
      /\ UNCHANGED <<worker, delivered, accepted>>
      /\ \A j \in Jobs \ {i} : waiting'[j] = waiting[j]
      /\ (\E w \in Workers : HeldBy(w, i)) => faults' = faults + 1
      /\ waiting[i] = "taken"
  BY DEF Inv, TypeOK, Expire, Fault
<1>2. ASSUME NEW j \in Jobs
      PROVE  SendsInv(j)'
  <2>1. SendsInv(j) /\ Sends(j)' = Sends(j) /\ Handlers(j)' = Handlers(j)
        /\ TornHandlers(j)' = TornHandlers(j)
    BY <1>1 DEF AllSendsInv, Sends, Handlers, TornHandlers
  <2>2. Due(j) \in {0, 1} /\ Due(j)' \in {0, 1}
    BY DEF Due
  <2>3. CASE j = i
    <3>1. Due(j) = 1 \/ faults' = faults + 1
      BY <1>1, <2>3 DEF Due
    <3>2. Due(j)' + faults <= Due(j) + faults'
      BY <1>1, <2>2, <3>1
    <3> QED BY <1>1, <2>1, <3>2, QuietBalance
  <2>4. CASE j # i
    <3>1. Due(j)' = Due(j)
      BY <1>1, <2>4 DEF Due, HeldBy
    <3>2. Due(j)' + faults <= Due(j) + faults'
      BY <1>1, <2>2, <3>1
    <3> QED BY <1>1, <2>1, <3>2, QuietBalance
  <2> QED BY <2>3, <2>4
<1>3. \A v \in Workers : Fresh(worker'[v])
  BY <1>1 DEF AllSendsInv
<1> QED BY <1>2, <1>3 DEF AllSendsInv

\* The window opens: what was held back is due as it was, and a handler that
\* was to defer its job will return it all the same.
LEMMA OpenWindowBalance ==
  ASSUME Inv, AllSendsInv, OpenWindow
  PROVE  AllSendsInv'
<1>1. faults \in Nat /\ UNCHANGED <<delivered, accepted, faults>>
  BY DEF Inv, TypeOK, OpenWindow
<1>2. ASSUME NEW w \in Workers
      PROVE  /\ worker'[w].job = worker[w].job /\ worker'[w].delivery = worker[w].delivery
             /\ MayStill(worker'[w]) <=> MayStill(worker[w])
             /\ Torn(worker'[w]) <=> Torn(worker[w])
             /\ Fresh(worker'[w])
  <2>1. worker[w] \in WorkerStates /\ Fresh(worker[w])
    BY DEF Inv, TypeOK, AllSendsInv
  <2>2. worker'[w] = IF worker[w].reply = "defer"
                     THEN [worker[w] EXCEPT !.reply = "again"] ELSE worker[w]
    BY DEF OpenWindow
  <2>3. CASE worker[w].reply = "defer"
    <3>1. /\ worker'[w].pc = worker[w].pc /\ worker'[w].job = worker[w].job
          /\ worker'[w].delivery = worker[w].delivery /\ worker'[w].ok = worker[w].ok
          /\ worker'[w].reply = "again"
      BY <2>1, <2>2, <2>3 DEF WorkerStates
    <3> QED BY <2>1, <2>3, <3>1 DEF MayStill, Torn, Fresh, AtAGate
  <2> QED BY <2>1, <2>2, <2>3
<1>3. ASSUME NEW j \in Jobs
      PROVE  SendsInv(j)'
  <2>1. SendsInv(j) /\ Sends(j)' = Sends(j) /\ Handlers(j)' = Handlers(j)
        /\ TornHandlers(j)' = TornHandlers(j)
    BY <1>1, <1>2 DEF AllSendsInv, Sends, Handlers, TornHandlers
  <2>2. Due(j)' = Due(j) /\ Due(j) \in {0, 1}
    <3>1. \A w \in Workers : HeldBy(w, j)' <=> HeldBy(w, j)
      BY <1>1, <1>2 DEF HeldBy
    <3>2. /\ waiting'[j] \in {"now", "window"} <=> waiting[j] \in {"now", "window"}
          /\ waiting'[j] = "taken" <=> waiting[j] = "taken"
      BY DEF OpenWindow
    <3> QED BY <3>1, <3>2 DEF Due
  <2>3. Due(j)' + faults <= Due(j) + faults'
    BY <1>1, <2>2
  <2> QED BY <1>1, <2>1, <2>3, QuietBalance
<1> QED BY <1>2, <1>3 DEF AllSendsInv

\* The rows, the lists and the end of the window: nothing is sent or delivered.
LEMMA OthersBalance ==
  ASSUME Inv, AllSendsInv, UNCHANGED <<mail, worker, accepted>>,
         faults' = faults \/ faults' = faults + 1
  PROVE  AllSendsInv'
<1>1. faults \in Nat /\ faults' \in Nat /\ faults <= faults'
  BY DEF Inv, TypeOK
<1>2. ASSUME NEW j \in Jobs
      PROVE  SendsInv(j)'
  <2>1. /\ SendsInv(j) /\ Sends(j)' = Sends(j) /\ Handlers(j)' = Handlers(j)
        /\ TornHandlers(j)' = TornHandlers(j)
        /\ Due(j)' = Due(j) /\ Due(j) \in {0, 1}
    BY DEF AllSendsInv, Sends, Handlers, TornHandlers, Due, HeldBy, mail
  <2>2. Due(j)' + faults <= Due(j) + faults'
    BY <1>1, <2>1
  <2> QED BY <1>1, <2>1, <2>2, QuietBalance
<1> QED BY <1>2 DEF AllSendsInv

\* At first every job is due once, and nothing has been sent.
LEMMA SendsInit ==
  ASSUME Init
  PROVE  AllSendsInv
<1>1. ASSUME NEW w \in Workers
      PROVE  Fresh(worker[w]) /\ ~MayStill(worker[w]) /\ ~Torn(worker[w])
  BY DEF Init, Idle, Fresh, AtAGate, MayStill, Torn
<1>2. ASSUME NEW j \in Jobs
      PROVE  SendsInv(j)
  <2>1. /\ Sends(j) = {} /\ Handlers(j) = {} /\ TornHandlers(j) = {}
        /\ Due(j) = 1 /\ faults = 0
    BY <1>1 DEF Init, Sends, Handlers, TornHandlers, Due
  <2> QED BY <2>1, FS_EmptySet DEF SendsInv, Account
<1> QED BY <1>1, <1>2 DEF AllSendsInv

\* Every step keeps the account, a stuttering step too.
LEMMA SendsNext ==
  ASSUME Inv, AllSendsInv, [Next]_vars
  PROVE  AllSendsInv'
<1>1. ASSUME NEW j \in Jobs, CommitRow(j) \/ AbortRow(j) \/ Expire(j)
      PROVE  AllSendsInv'
  <2>1. CASE CommitRow(j) \/ AbortRow(j)
    BY <2>1, OthersBalance DEF CommitRow, AbortRow, Fault
  <2> QED BY <1>1, <2>1, ExpireBalance
<1>2. CASE Suppress \/ Register \/ DeleteDLTTemplate \/ CloseWindow
  BY <1>2, OthersBalance DEF Suppress, Register, DeleteDLTTemplate, CloseWindow
<1>3. CASE OpenWindow
  BY <1>3, OpenWindowBalance
<1>4. ASSUME NEW w \in Workers, NEW j \in Jobs, Receive(w, j)
      PROVE  AllSendsInv'
  BY <1>4, ReceiveBalance
<1>5. ASSUME NEW w \in Workers, Work(w) \/ WorkFault(w)
      PROVE  AllSendsInv'
  BY <1>5, GatesBalance, CategoryBalance, SendBalance, CommitBalance, EndBalance
     DEF Work, WorkFault
<1>6. CASE UNCHANGED vars
  BY <1>6, OthersBalance DEF vars
<1> QED BY <1>1, <1>2, <1>3, <1>4, <1>5, <1>6 DEF Next

\* Providers take a message once, and once more for every fault, whatever the
\* redeliveries, the fallbacks between providers and the deferrals
\* (sendWithFallback, HandleFailure, handle).
THEOREM SendsAreBounded == Spec => []DuplicateSendsBounded
<1>1. Inv /\ AllSendsInv => DuplicateSendsBounded
  <2> SUFFICES ASSUME Inv, AllSendsInv, NEW j \in Jobs
               PROVE  Cardinality({a \in accepted : a[1] = j}) <= 1 + faults
    BY DEF DuplicateSendsBounded
  <2>1. SendsInv(j) /\ faults \in Nat
    BY DEF AllSendsInv, Inv, TypeOK
  <2>2. Cardinality(Sends(j)) <= 1 + faults
    BY <2>1, AccountType DEF SendsInv, Account
  <2> QED BY <2>2 DEF Sends
<1>2. Init => Inv /\ AllSendsInv
  BY InvInit, SendsInit
<1>3. Inv /\ AllSendsInv /\ [Next]_vars => (Inv /\ AllSendsInv)'
  BY InvNext, SendsNext
<1> QED BY <1>1, <1>2, <1>3, PTL DEF Spec

-----------------------------------------------------------------------------
(* What the gates guarantee of every delivery that gets past them.          *)

\* The gates are passed in order: a worker looks up the category past the list,
\* asks the registry of a promotional job, looks at the clock past the registry,
\* and goes to the providers as MayPass allows or without having learned the
\* category.
InOrder(w) ==
  /\ worker'[w].pc = "category" => ~Refused
  /\ worker'[w].pc = "registry" => worker[w].pc = "category"
  /\ worker'[w].pc = "window" => worker[w].pc = "registry" /\ ~dnd
  /\ worker'[w].pc = "send" =>
       \/ Sending(w) \/ MayPass(w)
       \/ /\ worker[w].pc = "category"
          /\ IsPromotional(w) =>
               <<worker[w].job, worker[w].delivery>> \in uncategorized'

\* A step of worker w: it ends its delivery, or it stays with it and may have
\* sent.
Moves(w) ==
  /\ OnlyMoves(w) /\ UNCHANGED <<world, delivered>>
  /\ uncategorized \subseteq uncategorized'
  /\ \/ worker'[w] = Idle /\ accepted' = accepted
     \/ /\ KeepsJob(w) /\ worker[w].pc # "idle"
        /\ accepted' = accepted \/ (Sending(w) /\ accepted' = accepted \cup {Send(w)})
        /\ InOrder(w)

LEMMA GatesMove ==
  ASSUME Inv, NEW w \in Workers,
         \/ FailGates(w) \/ Stop(w) \/ Match(w) \/ Scrub(w)
         \/ Hold(w) \/ Defer(w) \/ Pass(w)
  PROVE  Moves(w)
<1>1. /\ TypeOK /\ worker[w].pc # "idle"
      /\ UNCHANGED <<accepted, uncategorized, world, delivered>>
  <2>1. TypeOK
    BY DEF Inv
  <2>2. UNCHANGED <<accepted, uncategorized, world, delivered>>
    BY DEF FailGates, Stop, Match, Scrub, Hold, Defer, Pass, mail, ghosts
  <2>3. worker[w].pc \in {"gates", "category", "registry", "window", "defer"}
    BY DEF FailGates, Stop, Match, Scrub, Hold, Defer, Pass, MayPass, SuppressedStop,
       UnmatchedStop, RegistryStop, SessionStop, AtGates
  <2> QED BY <2>1, <2>2, <2>3
<1>2. OnlyMoves(w) /\ KeepsJob(w) /\ InOrder(w)
  <2>1. CASE FailGates(w) \/ Match(w) \/ Scrub(w) \/ Hold(w) \/ Pass(w)
    <3>1. PICK pc \in {"failed", "category", "window", "defer", "send"} :
            /\ SetWorker(w, [worker[w] EXCEPT !.pc = pc])
            /\ pc = "category" => ~Refused
            /\ pc = "window" => worker[w].pc = "registry" /\ ~dnd
            /\ pc = "send" => MayPass(w)
      BY <2>1 DEF FailGates, Match, Scrub, Hold, Pass
    <3>2. pc \in PCs
      BY DEF PCs
    <3>3. OnlyMoves(w) /\ KeepsJob(w) /\ worker'[w].pc = pc
      BY <1>1, <3>1, <3>2, GoEffect
    <3> QED BY <3>1, <3>3 DEF InOrder
  <2>2. CASE Stop(w)
    BY <1>1, <2>2, StopEffect DEF InOrder
  <2>3. CASE Defer(w)
    <3>1. PICK reply \in {"ack", "defer", "again"} :
            SetWorker(w, [worker[w] EXCEPT !.pc = "commit", !.reply = reply])
      BY <2>3 DEF Defer
    <3>2. "commit" \in PCs
      BY DEF PCs
    <3> QED BY <1>1, <3>1, <3>2, AnswerEffect DEF InOrder
  <2> QED BY <2>1, <2>2, <2>3
<1> QED BY <1>1, <1>2 DEF Moves

LEMMA CategoryMoves ==
  ASSUME Inv, NEW w \in Workers, LookUpCategory(w) \/ CategoryFails(w)
  PROVE  Moves(w)
<1>1. TypeOK /\ UNCHANGED <<accepted, world, delivered>>
  BY DEF Inv, LookUpCategory, CategoryFails, mail
<1>2. /\ OnlyMoves(w) /\ KeepsJob(w)
      /\ worker[w].pc = "category" /\ worker'[w].pc \in {"registry", "send"}
      /\ \/ uncategorized' = uncategorized /\ (worker'[w].pc = "send" => ~IsPromotional(w))
         \/ uncategorized' = uncategorized \cup {<<worker[w].job, worker[w].delivery>>}
  BY <1>1, CategoryEffect
<1> QED BY <1>1, <1>2 DEF Moves, InOrder

LEMMA WorkMoves ==
  ASSUME Inv, NEW w \in Workers, Work(w) \/ WorkFault(w)
  PROVE  Moves(w)
<1>1. TypeOK
  BY DEF Inv
<1>2. CASE \/ FailGates(w) \/ Stop(w) \/ Match(w) \/ Scrub(w)
           \/ Hold(w) \/ Defer(w) \/ Pass(w)
  BY <1>2, GatesMove
<1>3. CASE Accept(w)
  <2>1. /\ OnlyMoves(w) /\ KeepsJob(w) /\ worker'[w].pc \in {"record", "reply"}
    <3>1. CASE InTransaction
      <4>1. Settles(w, "record", SentStatus, SentStatus)
        BY <1>3, <3>1 DEF Accept, Settles
      <4> QED BY <1>1, <4>1, SettleEffect, SentStatusType DEF PCs
    <3>2. CASE ~InTransaction
      <4>1. SetWorker(w, [worker[w] EXCEPT !.pc = "reply"])
        BY <1>3, <3>2 DEF Accept
      <4> QED BY <1>1, <4>1, GoEffect DEF PCs
    <3> QED BY <3>1, <3>2
  <2> QED BY <1>3, <2>1 DEF Moves, InOrder, Accept, Sending, mail
<1>4. CASE Reject(w) \/ AcceptUnheard(w)
  <2>1. TryNext(w) /\ Sending(w)
    BY <1>4 DEF Reject, AcceptUnheard
  <2>2. /\ OnlyMoves(w) /\ KeepsJob(w)
        /\ worker'[w].pc \in {"send", "record", "failed"}
    BY <1>1, <2>1, TryNextEffect
  <2> QED BY <1>4, <2>1, <2>2
       DEF Moves, InOrder, Reject, AcceptUnheard, Sending, mail, ghosts
<1>5. CASE Record(w) \/ RecordFails(w)
  <2>1. AfterRecord(w) /\ worker[w].pc = "record"
    BY <1>5 DEF Record, RecordFails
  <2>2. /\ OnlyMoves(w) /\ KeepsJob(w)
        /\ worker'[w].pc = IF worker[w].ok THEN "commit" ELSE "failed"
    BY <1>1, <2>1, AfterRecordEffect
  <2> QED BY <1>5, <2>1, <2>2 DEF Moves, InOrder, Record, RecordFails, mail, ghosts
<1>6. CASE Commit(w) \/ CommitFails(w)
  <2>1. PICK pc \in {"reply", "failed"} : SetWorker(w, [worker[w] EXCEPT !.pc = pc])
    BY <1>6 DEF Commit, CommitFails
  <2>2. pc \in PCs
    BY DEF PCs
  <2>3. OnlyMoves(w) /\ KeepsJob(w) /\ worker'[w].pc = pc
    BY <1>1, <2>1, <2>2, GoEffect
  <2> QED BY <1>6, <2>3 DEF Moves, InOrder, Commit, CommitFails, mail, ghosts
<1>7. CASE DeadLetter(w)
  <2>1. SetWorker(w, [worker[w] EXCEPT !.pc = "reply", !.reply = "ack"])
    BY <1>7 DEF DeadLetter
  <2>2. OnlyMoves(w) /\ KeepsJob(w) /\ worker'[w].pc = "reply"
    BY <1>1, <2>1, AnswerEffect DEF PCs
  <2> QED BY <1>7, <2>2 DEF Moves, InOrder, DeadLetter, mail, ghosts
<1>8. CASE Reply(w) \/ Nak(w) \/ DeadLetterFails(w) \/ Crash(w)
  <2>1. SetWorker(w, Idle) /\ UNCHANGED <<world, delivered, accepted, uncategorized>>
    BY <1>8 DEF Reply, Nak, DeadLetterFails, Crash, mail, ghosts
  <2>2. Idle \in WorkerStates
    BY NumbersAssumption DEF Idle, WorkerStates, EventTypes
  <2> QED BY <1>1, <2>1, <2>2, SetWorkerEffect DEF Moves
<1>9. CASE LookUpCategory(w) \/ CategoryFails(w)
  BY <1>9, CategoryMoves
<1> QED BY <1>2, <1>3, <1>4, <1>5, <1>6, <1>7, <1>8, <1>9 DEF Work, WorkFault

\* Every other step leaves the workers where they are.
StreamStep ==
  \/ \E j \in Jobs : CommitRow(j) \/ AbortRow(j) \/ Expire(j)
  \/ Suppress \/ Register \/ DeleteDLTTemplate \/ OpenWindow \/ CloseWindow
  \/ UNCHANGED vars

LEMMA StreamMoves ==
  ASSUME Inv, StreamStep
  PROVE  /\ UNCHANGED <<channel, accepted, delivered, uncategorized>>
         /\ suppressed' = suppressed \/ (Screened /\ suppressed')
         /\ dnd' = dnd \/ (channel = "sms" /\ dnd')
         /\ (turns' = turns /\ window' = window) \/ turns' = turns + 1
         /\ \A w \in Workers : /\ worker'[w].pc = worker[w].pc
                               /\ worker'[w].job = worker[w].job
                               /\ worker'[w].delivery = worker[w].delivery
<1>1. CASE OpenWindow
  <2>1. ASSUME NEW w \in Workers
        PROVE  /\ worker'[w].pc = worker[w].pc /\ worker'[w].job = worker[w].job
               /\ worker'[w].delivery = worker[w].delivery
    <3>1. worker[w] \in WorkerStates
      BY DEF Inv, TypeOK
    <3>2. worker'[w] \in {worker[w], [worker[w] EXCEPT !.reply = "again"]}
      BY <1>1 DEF OpenWindow
    <3> QED BY <3>1, <3>2 DEF WorkerStates
  <2> QED BY <1>1, <2>1 DEF OpenWindow, ghosts
<1>2. CASE ~OpenWindow
  BY <1>2 DEF StreamStep, CommitRow, AbortRow, Expire, Suppress, Register,
     DeleteDLTTemplate, CloseWindow, vars, mail, world, ghosts
<1> QED BY <1>1, <1>2

\* No delivery is under way, or was taken by a provider, before it was made; and
\* only a channel that asks for a list is told of it.
DeliveriesInv ==
  /\ suppressed => Screened
  /\ dnd => channel = "sms"
  /\ \A a \in accepted : a[2] <= delivered[a[1]]
  /\ \A w \in Workers : worker[w].pc # "idle" =>
       worker[w].delivery <= delivered[worker[w].job]

\* Delivery d of job j is not past the gates, and will not get past them.
Barred(j, d) ==
  /\ suppressed /\ Screened
  /\ \A p \in 1 .. Providers : <<j, d, p>> \notin accepted
  /\ \A w \in Workers : worker[w].job = j /\ worker[w].delivery = d =>
       worker[w].pc \notin {"category", "registry", "window", "send"}

LEMMA DeliveriesInit ==
  ASSUME Init
  PROVE  DeliveriesInv
<1>1. \A w \in Workers : worker[w].pc = "idle"
  BY DEF Init, Idle
<1> QED BY <1>1 DEF Init, DeliveriesInv

LEMMA DeliveriesNext ==
  ASSUME Inv, DeliveriesInv, [Next]_vars
  PROVE  DeliveriesInv'
<1>1. CASE StreamStep
  <2>1. Screened' = Screened
    BY <1>1, StreamMoves DEF Screened
  <2> QED BY <1>1, <2>1, StreamMoves DEF DeliveriesInv
<1>2. ASSUME NEW w \in Workers, NEW j \in Jobs, Receive(w, j)
      PROVE  DeliveriesInv'
  <2>1. delivered \in [Jobs -> Nat] /\ delivered' = [delivered EXCEPT ![j] = @ + 1]
    BY <1>2 DEF Receive, Inv, TypeOK
  <2>2. \A i \in Jobs : delivered'[i] \in Nat /\ delivered[i] <= delivered'[i]
    BY <2>1
  <2>3. \A a \in accepted : a[1] \in Jobs /\ a[2] \in Nat /\ a[2] <= delivered[a[1]]
    BY DEF Inv, TypeOK, DeliveriesInv
  <2>4. \A a \in accepted' : a[2] <= delivered'[a[1]]
    BY <1>2, <2>1, <2>2, <2>3 DEF Receive
  <2>5. \A v \in Workers \ {w} : worker'[v] = worker[v]
    BY <1>2 DEF Receive, SetWorker
  <2>6. worker'[w].job = j /\ worker'[w].delivery = delivered'[j]
    BY <1>2, <2>1 DEF Receive, SetWorker, Inv, TypeOK, Idle
  <2>7. ASSUME NEW v \in Workers, worker'[v].pc # "idle"
        PROVE  worker'[v].delivery <= delivered'[worker'[v].job]
    <3>1. CASE v = w
      BY <2>2, <2>6, <3>1
    <3>2. CASE v # w
      <4>1. /\ worker[v].job \in Jobs /\ worker[v].delivery \in Nat
            /\ worker[v].delivery <= delivered[worker[v].job]
        BY <2>5, <2>7, <3>2 DEF Inv, Promises, HasJob, DeliveriesInv
      <4> QED BY <2>1, <2>2, <2>5, <3>2, <4>1
    <3> QED BY <3>1, <3>2
  <2>8. (suppressed => Screened)' /\ (dnd => channel = "sms")'
    BY <1>2 DEF Receive, world, DeliveriesInv, Screened
  <2> QED BY <2>4, <2>7, <2>8 DEF DeliveriesInv
<1>3. ASSUME NEW w \in Workers, Work(w) \/ WorkFault(w)
      PROVE  DeliveriesInv'
  <2>1. Moves(w)
    BY <1>3, WorkMoves
  <2>2. (suppressed => Screened)' /\ (dnd => channel = "sms")'
    BY <2>1 DEF Moves, world, DeliveriesInv, Screened
  <2>3. \A a \in accepted' : a[2] <= delivered'[a[1]]
    BY <2>1 DEF Moves, DeliveriesInv, Send, Sending
  <2>4. \A v \in Workers : worker'[v].pc # "idle" =>
          worker'[v].delivery <= delivered'[worker'[v].job]
    BY <2>1 DEF Moves, OnlyMoves, KeepsJob, DeliveriesInv, Idle
  <2> QED BY <2>2, <2>3, <2>4 DEF DeliveriesInv
<1> QED BY <1>1, <1>2, <1>3 DEF Next, StreamStep

\* A delivery that has been barred stays so.
LEMMA BarredNext ==
  ASSUME Inv, DeliveriesInv, [Next]_vars, NEW j \in Jobs, NEW d \in 1 .. MaxDeliver,
         Barred(j, d)
  PROVE  Barred(j, d)'
<1>1. CASE StreamStep
  <2>1. suppressed' /\ Screened' = Screened
    BY <1>1, StreamMoves DEF Screened, Barred
  <2> QED BY <1>1, <2>1, StreamMoves DEF Barred
<1>2. ASSUME NEW w \in Workers, NEW i \in Jobs, Receive(w, i)
      PROVE  Barred(j, d)'
  <2>1. \A v \in Workers : worker'[v] = worker[v] \/ worker'[v].pc = "gates"
    BY <1>2 DEF Receive, SetWorker, Inv, TypeOK, Idle
  <2> QED BY <1>2, <2>1 DEF Receive, world, Barred, Screened
<1>3. ASSUME NEW w \in Workers, Work(w) \/ WorkFault(w)
      PROVE  Barred(j, d)'
  <2>1. Moves(w)
    BY <1>3, WorkMoves
  <2>2. (suppressed /\ Screened)'
    BY <2>1 DEF Moves, world, Barred, Screened
  <2>3. \A p \in 1 .. Providers : <<j, d, p>> \notin accepted'
    BY <2>1 DEF Moves, Barred, Send, Sending
  <2>4. ASSUME worker'[w].job = j, worker'[w].delivery = d
        PROVE  worker'[w].pc \notin {"category", "registry", "window", "send"}
    <3>1. KeepsJob(w) /\ InOrder(w)
      BY <2>1, <2>4, ChannelAssumption DEF Moves, Idle
    <3>2. Refused /\ worker[w].pc \notin {"category", "registry", "window", "send"}
      BY <2>4, <3>1 DEF Barred, Refused, KeepsJob
    <3> QED BY <3>1, <3>2 DEF InOrder, Sending, MayPass
  <2> QED BY <2>1, <2>2, <2>3, <2>4 DEF Moves, OnlyMoves, Barred
<1> QED BY <1>1, <1>2, <1>3 DEF Next, StreamStep

\* Once the address is on the suppression list, no later delivery of a job
\* reaches a provider (IsSuppressed at the head of every handleJob, on every
\* delivery and not only the first).
THEOREM SuppressedAreSpared == Spec => SuppressionHolds
<1> SUFFICES ASSUME NEW j \in Jobs, NEW d \in 1 .. MaxDeliver
             PROVE  Spec => [](suppressed /\ delivered[j] < d =>
                                 [](\A p \in 1 .. Providers : <<j, d, p>> \notin accepted))
  BY DEF SuppressionHolds
<1>1. Init => Inv /\ DeliveriesInv
  BY InvInit, DeliveriesInit
<1>2. Inv /\ DeliveriesInv /\ [Next]_vars => (Inv /\ DeliveriesInv)'
  BY InvNext, DeliveriesNext
<1>3. Inv /\ DeliveriesInv /\ suppressed /\ delivered[j] < d => Barred(j, d)
  <2> SUFFICES ASSUME Inv, DeliveriesInv, suppressed, delivered[j] < d
               PROVE  Barred(j, d)
    OBVIOUS
  <2>1. delivered[j] \in Nat /\ d \in Nat /\ ~(d <= delivered[j])
    BY DEF Inv, TypeOK
  <2>2. \A p \in 1 .. Providers : <<j, d, p>> \notin accepted
    BY <2>1 DEF DeliveriesInv
  <2>3. \A w \in Workers : worker[w].pc # "idle" =>
          ~(worker[w].job = j /\ worker[w].delivery = d)
    BY <2>1 DEF DeliveriesInv
  <2> QED BY <2>2, <2>3 DEF Barred, DeliveriesInv
<1>4. Inv /\ DeliveriesInv /\ Barred(j, d) /\ [Next]_vars => Barred(j, d)'
  BY BarredNext
<1>5. Barred(j, d) => \A p \in 1 .. Providers : <<j, d, p>> \notin accepted
  BY DEF Barred
<1> QED BY <1>1, <1>2, <1>3, <1>4, <1>5, PTL DEF Spec

\* What may still send delivery d of promotional job j is at most a handler that
\* has not learned its category.
Learned(j, d) == <<j, d>> \notin uncategorized

\* The number is on the registry: no handler of delivery d is past it.
Scrubbed(j, d) ==
  /\ dnd /\ channel = "sms"
  /\ Learned(j, d) =>
       /\ ~WasSent(j, d)
       /\ \A w \in Workers : worker[w].job = j /\ worker[w].delivery = d =>
            worker[w].pc \notin {"window", "send"}

\* The window has turned n times and is closed: no handler of delivery d is
\* sending, until it turns again.
HeldBack(j, d, n) ==
  /\ turns >= n /\ channel = "sms"
  /\ turns = n =>
       /\ window = "closed"
       /\ Learned(j, d) =>
            /\ ~WasSent(j, d)
            /\ \A w \in Workers : worker[w].job = j /\ worker[w].delivery = d =>
                 worker[w].pc # "send"

\* A delivery that is yet to be made is past no gate.
LEMMA NotYetDelivered ==
  ASSUME Inv, DeliveriesInv, NEW j \in Jobs, NEW d \in 1 .. MaxDeliver, delivered[j] < d
  PROVE  /\ ~WasSent(j, d)
         /\ \A w \in Workers : worker[w].pc # "idle" =>
              ~(worker[w].job = j /\ worker[w].delivery = d)
<1>1. delivered[j] \in Nat /\ d \in Nat /\ ~(d <= delivered[j])
  BY DEF Inv, TypeOK
<1>2. ~WasSent(j, d)
  BY <1>1 DEF DeliveriesInv, WasSent
<1> QED BY <1>1, <1>2 DEF DeliveriesInv

\* A worker's step on a promotional job past the category: it sends only from
\* "send", and gets there only through the window or uncategorized.
LEMMA PromotionalMoves ==
  ASSUME Inv, NEW w \in Workers, Moves(w), channel = "sms",
         NEW j \in Promotional, NEW d \in 1 .. MaxDeliver, Learned(j, d)'
  PROVE  /\ Learned(j, d)
         /\ WasSent(j, d)' =>
              WasSent(j, d) \/ (Sending(w) /\ worker[w].job = j /\ worker[w].delivery = d)
         /\ worker'[w].job = j /\ worker'[w].delivery = d =>
              /\ worker[w].job = j /\ worker[w].delivery = d
              /\ worker'[w].pc = "window" => ~dnd
              /\ worker'[w].pc = "send" =>
                   Sending(w) \/ (worker[w].pc = "window" /\ window = "open")
<1>1. Learned(j, d)
  BY DEF Learned, Moves
<1>2. ASSUME WasSent(j, d)', ~WasSent(j, d)
      PROVE  Sending(w) /\ worker[w].job = j /\ worker[w].delivery = d
  <2>1. PICK p \in 1 .. Providers : <<j, d, p>> \in accepted' /\ <<j, d, p>> \notin accepted
    BY <1>2 DEF WasSent
  <2>2. Sending(w) /\ <<j, d, p>> = Send(w)
    BY <2>1 DEF Moves
  <2> QED BY <2>2 DEF Send
<1>3. ASSUME worker'[w].job = j, worker'[w].delivery = d
      PROVE  /\ worker[w].job = j /\ worker[w].delivery = d
             /\ worker'[w].pc = "window" => ~dnd
             /\ worker'[w].pc = "send" =>
                  Sending(w) \/ (worker[w].pc = "window" /\ window = "open")
  <2>1. KeepsJob(w) /\ InOrder(w)
    BY <1>3, ChannelAssumption DEF Moves, Idle
  <2>2. worker[w].job = j /\ worker[w].delivery = d /\ IsPromotional(w)
    BY <1>3, <2>1 DEF KeepsJob, IsPromotional
  <2> QED BY <2>1, <2>2 DEF InOrder, Learned, MayPass
<1> QED BY <1>1, <1>2, <1>3

\* The number stays on the registry, and the handlers before it.
LEMMA ScrubbedNext ==
  ASSUME Inv, [Next]_vars, NEW j \in Promotional, NEW d \in 1 .. MaxDeliver, Scrubbed(j, d)
  PROVE  Scrubbed(j, d)'
<1>1. CASE StreamStep
  BY <1>1, StreamMoves DEF Scrubbed, Learned, WasSent
<1>2. ASSUME NEW w \in Workers, NEW i \in Jobs, Receive(w, i)
      PROVE  Scrubbed(j, d)'
  <2>1. \A v \in Workers : worker'[v] = worker[v] \/ worker'[v].pc = "gates"
    BY <1>2 DEF Receive, SetWorker, Inv, TypeOK, Idle
  <2> QED BY <1>2, <2>1 DEF Receive, world, ghosts, Scrubbed, Learned, WasSent
<1>3. ASSUME NEW w \in Workers, Work(w) \/ WorkFault(w)
      PROVE  Scrubbed(j, d)'
  <2>1. Moves(w)
    BY <1>3, WorkMoves
  <2>2. (dnd /\ channel = "sms")' /\ channel = "sms" /\ dnd
    BY <2>1 DEF Moves, world, Scrubbed
  <2>3. ASSUME Learned(j, d)'
        PROVE  /\ ~WasSent(j, d)'
               /\ \A v \in Workers : worker'[v].job = j /\ worker'[v].delivery = d =>
                    worker'[v].pc \notin {"window", "send"}
    BY <2>1, <2>2, <2>3, PromotionalMoves DEF Scrubbed, Sending, Moves, OnlyMoves
  <2> QED BY <2>2, <2>3 DEF Scrubbed
<1> QED BY <1>1, <1>2, <1>3 DEF Next, StreamStep

\* The window stays closed until it turns, and what it held back stays before it.
LEMMA HeldBackNext ==
  ASSUME Inv, [Next]_vars, NEW j \in Promotional, NEW d \in 1 .. MaxDeliver,
         NEW n \in 0 .. MaxTurns, HeldBack(j, d, n)
  PROVE  HeldBack(j, d, n)'
<1>1. turns \in Nat /\ n \in Nat
  BY DEF Inv, TypeOK
<1>2. CASE StreamStep
  <2>1. CASE turns' = turns /\ window' = window
    BY <1>2, <2>1, StreamMoves DEF HeldBack, Learned, WasSent
  <2>2. CASE turns' = turns + 1
    BY <1>1, <1>2, <2>2, StreamMoves DEF HeldBack
  <2> QED BY <1>2, <2>1, <2>2, StreamMoves
<1>3. ASSUME NEW w \in Workers, NEW i \in Jobs, Receive(w, i)
      PROVE  HeldBack(j, d, n)'
  <2>1. \A v \in Workers : worker'[v] = worker[v] \/ worker'[v].pc = "gates"
    BY <1>3 DEF Receive, SetWorker, Inv, TypeOK, Idle
  <2> QED BY <1>3, <2>1 DEF Receive, world, ghosts, HeldBack, Learned, WasSent
<1>4. ASSUME NEW w \in Workers, Work(w) \/ WorkFault(w)
      PROVE  HeldBack(j, d, n)'
  <2>1. Moves(w)
    BY <1>4, WorkMoves
  <2>2. channel = "sms" /\ UNCHANGED <<channel, turns, window>>
    BY <2>1 DEF Moves, world, HeldBack
  <2>3. ASSUME turns = n, Learned(j, d)'
        PROVE  /\ ~WasSent(j, d)'
               /\ \A v \in Workers : worker'[v].job = j /\ worker'[v].delivery = d =>
                    worker'[v].pc # "send"
    BY <2>1, <2>2, <2>3, PromotionalMoves DEF HeldBack, Sending, Moves, OnlyMoves
  <2> QED BY <2>2, <2>3 DEF HeldBack
<1> QED BY <1>2, <1>3, <1>4 DEF Next, StreamStep

\* The registry: asked in every delivery whose category is learned.
LEMMA RegistryHolds ==
  ASSUME NEW j \in Promotional, NEW d \in 1 .. MaxDeliver
  PROVE  Spec => [](dnd /\ delivered[j] < d
                      => [](WasSent(j, d) => <<j, d>> \in uncategorized))
<1>1. Init => Inv /\ DeliveriesInv
  BY InvInit, DeliveriesInit
<1>2. Inv /\ DeliveriesInv /\ [Next]_vars => (Inv /\ DeliveriesInv)'
  BY InvNext, DeliveriesNext
<1>3. Inv /\ DeliveriesInv /\ dnd /\ delivered[j] < d => Scrubbed(j, d)
  <2> SUFFICES ASSUME Inv, DeliveriesInv, dnd, delivered[j] < d
               PROVE  Scrubbed(j, d)
    OBVIOUS
  <2>1. j \in Jobs
    BY ChannelAssumption
  <2> QED BY <2>1, NotYetDelivered DEF Scrubbed, DeliveriesInv
<1>4. Inv /\ Scrubbed(j, d) /\ [Next]_vars => Scrubbed(j, d)'
  BY ScrubbedNext
<1>5. Scrubbed(j, d) => (WasSent(j, d) => <<j, d>> \in uncategorized)
  BY DEF Scrubbed, Learned
<1> QED BY <1>1, <1>2, <1>3, <1>4, <1>5, PTL DEF Spec

\* The clock: read in every delivery whose category is learned.
LEMMA WindowHolds ==
  ASSUME NEW j \in Promotional, NEW d \in 1 .. MaxDeliver, NEW n \in 0 .. MaxTurns
  PROVE  Spec => [](channel = "sms" /\ window = "closed" /\ turns = n /\ delivered[j] < d
                      => [](turns = n /\ WasSent(j, d) => <<j, d>> \in uncategorized))
<1>1. Init => Inv /\ DeliveriesInv
  BY InvInit, DeliveriesInit
<1>2. Inv /\ DeliveriesInv /\ [Next]_vars => (Inv /\ DeliveriesInv)'
  BY InvNext, DeliveriesNext
<1>3. Inv /\ DeliveriesInv /\ channel = "sms" /\ window = "closed" /\ turns = n
        /\ delivered[j] < d => HeldBack(j, d, n)
  <2> SUFFICES ASSUME Inv, DeliveriesInv, channel = "sms", window = "closed", turns = n,
                      delivered[j] < d
               PROVE  HeldBack(j, d, n)
    OBVIOUS
  <2>1. j \in Jobs /\ turns >= n
    BY ChannelAssumption
  <2> QED BY <2>1, NotYetDelivered DEF HeldBack
<1>4. Inv /\ HeldBack(j, d, n) /\ [Next]_vars => HeldBack(j, d, n)'
  BY HeldBackNext
<1>5. HeldBack(j, d, n) => (turns = n /\ WasSent(j, d) => <<j, d>> \in uncategorized)
  BY DEF HeldBack, Learned
<1> QED BY <1>1, <1>2, <1>3, <1>4, <1>5, PTL DEF Spec

\* No promotional SMS whose category the worker learned reaches a number on the
\* registry, or a provider while the window is closed, in any delivery that
\* begins after that: not after a deferral, a crash or an expired AckWait
\* (handleJob's IsRegistered and IsPromotionalWindowOpen, on every delivery).
THEOREM PromotionalsScreened == Spec => PromotionalsAreScreened
  BY RegistryHolds, WindowHolds DEF PromotionalsAreScreened

=============================================================================
