--------------------------- MODULE ChannelWorker ---------------------------
(***************************************************************************)
(* A channel worker (domains/channels): from the channel job on its stream *)
(* to the provider, the notifications row and the acknowledgement, or the  *)
(* dead-letter queue.  channel says which of the five workers it is: they   *)
(* share the consumer loop, HandleFailure and the shape of their handlers, *)
(* and differ in the gates a job must pass before it is sent, and in what  *)
(* they report and write.                                                  *)
(*                                                                         *)
(* The jobs have just been published by the engine, whose transaction, and *)
(* with it the notifications row, is still open.  They all go to the same  *)
(* subscriber.                                                             *)
(***************************************************************************)
EXTENDS Naturals, FiniteSets

CONSTANTS
  Workers,      \* worker processes, or AckWait overlapping deliveries
  Jobs,         \* channel jobs, each with its notification
  Nobody,       \* the job of an idle worker
  Channels,     \* the channels whose workers are looked at
  Promotional,  \* jobs of a promotional (sms) or marketing (whatsapp) template
  Providers,    \* providers tried in turn (email, sms, whatsapp)
  MaxDeliver,   \* DefaultMaxDeliver, or maxRetries of the webhook worker
  MaxFaults,    \* bound: crashes, errors, expired AckWaits and lost replies
  MaxTurns      \* bound: openings and closings of the promotional window

ASSUME ChannelAssumption ==
  /\ Channels \subseteq {"email", "sms", "whatsapp", "webhook", "inapp"}
  /\ Promotional \subseteq Jobs /\ Nobody \notin Jobs

ASSUME NumbersAssumption ==
  /\ Providers \in Nat \ {0} /\ MaxDeliver \in Nat \ {0}
  /\ MaxFaults \in Nat /\ MaxTurns \in Nat

VARIABLES
  channel,     \* the channel of the jobs and of the workers
  waiting,     \* waiting[j]: what the stream does with job j
  delivered,   \* delivered[j]: how often it has been delivered
  worker,      \* worker[w]: the handler of worker w
  rows,        \* notifications: the status of the row of each job
  suppressed,  \* the subscriber's address is on the suppression list
  dnd,         \* the subscriber's number is on the national DND registry
  window,      \* the promotional window, 10:00 to 21:00 IST
  registered,  \* the DLT template of the promotional jobs exists
  accepted,    \* what the providers took: <<job, delivery, provider>>
  events,      \* what was published to NOTIFY_DELIVERY
  dlq,         \* jobs in NOTIFY_DLQ
  handled,     \* jobs a handler returned nil for
  unreported,  \* jobs with a delivery event that the bus refused
  uncategorized,  \* deliveries <<job, number>> of promotional jobs whose category
                  \* the worker did not learn
  faults, turns

mail == <<waiting, delivered>>
world == <<channel, suppressed, dnd, window, registered, turns>>
ghosts == <<handled, unreported, uncategorized>>
vars == <<mail, worker, rows, world, accepted, events, dlq, ghosts, faults>>

-----------------------------------------------------------------------------
Screened == channel \in {"email", "sms", "whatsapp"}     \* IsSuppressed is asked
ReportsFailures == Screened
Tried == IF Screened THEN Providers ELSE 1
InTransaction == channel # "inapp"

SentStatus == IF channel = "webhook" THEN "delivered" ELSE "sent"

\* open: inserted and not committed; none: rolled back.
RowStatuses == {"open", "none", "queued", "sent", "delivered", "suppressed"}

\* now: to be delivered; window: held back until the window opens; taken:
\* delivered, AckWait running; gone: acknowledged or terminated.
Waitings == {"now", "window", "taken", "gone"}

EventTypes == {"sent", "delivered", "failed", "suppressed", "ndnc_blocked", "skipped"}
Events == [job : Jobs, delivery : 1 .. MaxDeliver, type : EventTypes]

WorkerStates == [pc : {"idle", "gates", "category", "registry", "window", "defer",
                       "send", "record", "commit", "reply", "failed"},
                 job : Jobs \cup {Nobody}, delivery : 0 .. MaxDeliver,
                 provider : 1 .. Providers,
                 event : EventTypes \cup {"none"},
                 write : {"nothing", "sent", "delivered", "suppressed"},
                 ok : BOOLEAN,  \* the transaction can still commit
                 reply : {"ack", "defer", "again"}]

Idle == [pc |-> "idle", job |-> Nobody, delivery |-> 0, provider |-> 1,
         event |-> "none", write |-> "nothing", ok |-> TRUE, reply |-> "ack"]

Init ==
  /\ channel \in Channels
  /\ waiting = [j \in Jobs |-> "now"] /\ delivered = [j \in Jobs |-> 0]
  /\ worker = [w \in Workers |-> Idle]
  /\ rows = [j \in Jobs |-> "open"]
  /\ suppressed = FALSE /\ dnd = FALSE /\ window = "closed" /\ registered = TRUE /\ turns = 0
  /\ accepted = {} /\ events = {} /\ dlq = {}
  /\ handled = {} /\ unreported = {} /\ uncategorized = {}
  /\ faults = 0

Fault == faults < MaxFaults /\ faults' = faults + 1

-----------------------------------------------------------------------------
(* The engine's transaction, the suppression list, the clock.              *)

CommitRow(j) ==
  /\ rows[j] = "open"
  /\ rows' = [rows EXCEPT ![j] = "queued"]
  /\ UNCHANGED <<mail, worker, world, accepted, events, dlq, ghosts, faults>>

AbortRow(j) ==
  /\ Fault
  /\ rows[j] = "open"
  /\ rows' = [rows EXCEPT ![j] = "none"]
  /\ UNCHANGED <<mail, worker, world, accepted, events, dlq, ghosts>>

\* A bounce, a complaint or an operator puts the address on the list.
Suppress ==
  /\ Screened
  /\ ~suppressed /\ suppressed' = TRUE
  /\ UNCHANGED <<mail, worker, rows, channel, dnd, window, registered, turns, accepted,
                 events, dlq, ghosts, faults>>

\* The operator's import puts the number on the registry.
Register ==
  /\ channel = "sms"
  /\ ~dnd /\ dnd' = TRUE
  /\ UNCHANGED <<mail, worker, rows, channel, suppressed, window, registered, turns,
                 accepted, events, dlq, ghosts, faults>>

DeleteDLTTemplate ==
  /\ channel = "sms"
  /\ registered /\ registered' = FALSE
  /\ UNCHANGED <<mail, worker, rows, channel, suppressed, dnd, window, turns, accepted,
                 events, dlq, ghosts, faults>>

\* The delays of NakWithDelay run out as the window opens, also of a job whose
\* delay was computed and is not sent yet.
OpenWindow ==
  /\ channel = "sms"
  /\ turns < MaxTurns /\ turns' = turns + 1
  /\ window = "closed" /\ window' = "open"
  /\ waiting' = [j \in Jobs |-> IF waiting[j] = "window" THEN "now" ELSE waiting[j]]
  /\ worker' = [w \in Workers |-> IF worker[w].reply = "defer"
                                  THEN [worker[w] EXCEPT !.reply = "again"]
                                  ELSE worker[w]]
  /\ UNCHANGED <<delivered, rows, channel, suppressed, dnd, registered, accepted, events,
                 dlq, ghosts, faults>>

CloseWindow ==
  /\ channel = "sms"
  /\ turns < MaxTurns /\ turns' = turns + 1
  /\ window = "open" /\ window' = "closed"
  /\ UNCHANGED <<mail, worker, rows, channel, suppressed, dnd, registered, accepted, events,
                 dlq, ghosts, faults>>

-----------------------------------------------------------------------------
(* The consumer.                                                           *)

SetWorker(w, state) == worker' = [worker EXCEPT ![w] = state]

\* Mutant of Receive: a consumer without MaxDeliver.
ReceiveForEver(w, j) ==
  /\ worker[w].pc = "idle"
  /\ waiting[j] = "now"
  /\ waiting' = [waiting EXCEPT ![j] = "taken"]
  /\ delivered' = [delivered EXCEPT ![j] = @ + 1]
  /\ SetWorker(w, [Idle EXCEPT !.pc = "gates", !.job = j,
                     !.delivery = delivered[j] + 1])
  /\ UNCHANGED <<rows, world, accepted, events, dlq, ghosts, faults>>

Receive(w, j) ==
  /\ worker[w].pc = "idle"
  /\ waiting[j] = "now" /\ delivered[j] < MaxDeliver
  /\ waiting' = [waiting EXCEPT ![j] = "taken"]
  /\ delivered' = [delivered EXCEPT ![j] = @ + 1]
  /\ SetWorker(w, [Idle EXCEPT !.pc = "gates", !.job = j,
                     !.delivery = delivered[j] + 1])
  /\ UNCHANGED <<rows, world, accepted, events, dlq, ghosts, faults>>

HeldBy(w, j) == worker[w].job = j /\ worker[w].delivery = delivered[j]

\* AckWait runs out: on a worker that is gone, or on a slow one.
Expire(j) ==
  /\ waiting[j] = "taken"
  /\ waiting' = [waiting EXCEPT ![j] = "now"]
  /\ IF \E w \in Workers : HeldBy(w, j) THEN Fault ELSE UNCHANGED faults
  /\ UNCHANGED <<delivered, worker, rows, world, accepted, events, dlq, ghosts>>

\* What a Nak or NakWithDelay does to the message of worker w.
PutBack(w, when) ==
  waiting' = [waiting EXCEPT ![worker[w].job] = IF @ = "taken" THEN when ELSE @]
Remove(w) == waiting' = [waiting EXCEPT ![worker[w].job] = "gone"]

-----------------------------------------------------------------------------
(* The gates: no provider is asked before they are passed.                 *)

AtGates(w) == worker[w].pc = "gates"
Refused == Screened /\ suppressed
IsPromotional(w) == worker[w].job \in Promotional

\* An address, a template, a config is missing, or a query fails.
FailGates(w) ==
  /\ worker[w].pc \in {"gates", "registry"}
  /\ SetWorker(w, [worker[w] EXCEPT !.pc = "failed"])
  /\ UNCHANGED <<mail, rows, world, accepted, events, dlq, ghosts, faults>>

\* How the gates stop a job for good: the event and the status they leave.
SuppressedStop(w) ==
  IF AtGates(w) /\ Refused THEN {<<"suppressed", "suppressed">>} ELSE {}
UnmatchedStop(w) ==
  IF AtGates(w) /\ ~Refused /\ channel = "sms" THEN {<<"failed", "nothing">>} ELSE {}
RegistryStop(w) ==
  IF worker[w].pc = "registry" /\ dnd THEN {<<"ndnc_blocked", "suppressed">>} ELSE {}
SessionStop(w) ==
  IF AtGates(w) /\ ~Refused /\ channel = "whatsapp" /\ IsPromotional(w)
  THEN {<<"skipped", "nothing">>} ELSE {}

\* Mutant of Stop: no event is recorded.
StopUnrecorded(w) ==
  /\ \E s \in SuppressedStop(w) \cup UnmatchedStop(w) \cup RegistryStop(w)
            \cup SessionStop(w) :
       SetWorker(w, [worker[w] EXCEPT !.pc = "commit", !.event = s[1], !.write = s[2]])
  /\ UNCHANGED <<mail, rows, world, accepted, events, dlq, ghosts, faults>>

Stop(w) ==
  /\ \E s \in SuppressedStop(w) \cup UnmatchedStop(w) \cup RegistryStop(w)
            \cup SessionStop(w) :
       SetWorker(w, [worker[w] EXCEPT !.pc = "record", !.event = s[1], !.write = s[2]])
  /\ UNCHANGED <<mail, rows, world, accepted, events, dlq, ghosts, faults>>

\* MatchTemplate finds a template that allows the body of an SMS.
Match(w) ==
  /\ channel = "sms"
  /\ AtGates(w) /\ ~Refused
  /\ IsPromotional(w) => registered
  /\ SetWorker(w, [worker[w] EXCEPT !.pc = "category"])
  /\ UNCHANGED <<mail, rows, world, accepted, events, dlq, ghosts, faults>>

Uncategorized(w) ==
  uncategorized' = IF IsPromotional(w)
                   THEN uncategorized \cup {<<worker[w].job, worker[w].delivery>>}
                   ELSE uncategorized

\* Mutant of LookUpCategory: the registry is asked only on the first delivery.
LookUpCategoryOnce(w) ==
  /\ worker[w].pc = "category"
  /\ IF IsPromotional(w) /\ registered
     THEN /\ SetWorker(w, [worker[w] EXCEPT !.pc =
                              IF worker[w].delivery > 1 THEN "window" ELSE "registry"])
          /\ UNCHANGED uncategorized
     ELSE SetWorker(w, [worker[w] EXCEPT !.pc = "send"]) /\ Uncategorized(w)
  /\ UNCHANGED <<mail, rows, world, accepted, events, dlq, handled, unreported, faults>>

\* The category is looked up in a query of its own, whose error is ignored: a
\* message whose template has been deleted since it matched is taken for
\* transactional.
LookUpCategory(w) ==
  /\ worker[w].pc = "category"
  /\ IF IsPromotional(w) /\ registered
     THEN SetWorker(w, [worker[w] EXCEPT !.pc = "registry"]) /\ UNCHANGED uncategorized
     ELSE SetWorker(w, [worker[w] EXCEPT !.pc = "send"]) /\ Uncategorized(w)
  /\ UNCHANGED <<mail, rows, world, accepted, events, dlq, handled, unreported, faults>>

\* So is every other message when the query fails, and it goes to the providers
\* in a transaction that Postgres has aborted.
CategoryFails(w) ==
  /\ Fault
  /\ worker[w].pc = "category"
  /\ SetWorker(w, [worker[w] EXCEPT !.pc = "send", !.ok = FALSE])
  /\ Uncategorized(w)
  /\ UNCHANGED <<mail, rows, world, accepted, events, dlq, handled, unreported>>

\* ndnc.IsRegistered is false.
Scrub(w) ==
  /\ worker[w].pc = "registry" /\ ~dnd
  /\ SetWorker(w, [worker[w] EXCEPT !.pc = "window"])
  /\ UNCHANGED <<mail, rows, world, accepted, events, dlq, ghosts, faults>>

\* IsPromotionalWindowOpen is false.
Hold(w) ==
  /\ worker[w].pc = "window" /\ window = "closed"
  /\ SetWorker(w, [worker[w] EXCEPT !.pc = "defer"])
  /\ UNCHANGED <<mail, rows, world, accepted, events, dlq, ghosts, faults>>

\* time.Until(ResumeAtNextWindow()): the delay until the window opens.  When
\* it has opened since, that is a day, or not positive if ResumeAtNextWindow
\* read the clock before; handle takes a job without a delay for done.
Defer(w) ==
  /\ worker[w].pc = "defer"
  /\ \E reply \in IF window = "closed" THEN {"defer"} ELSE {"defer", "ack"} :
       SetWorker(w, [worker[w] EXCEPT !.pc = "commit", !.reply = reply])
  /\ UNCHANGED <<mail, rows, world, accepted, events, dlq, ghosts, faults>>

\* A row is written if it is visible: an UPDATE of no row is no error.
Write(j, status) ==
  IF status = "nothing" \/ rows[j] \in {"open", "none"} THEN rows
  ELSE [rows EXCEPT ![j] = status]

\* Mutant of MayPass: the suppression list is asked only on the first delivery.
MayPassOnRetry(w) ==
  \/ worker[w].pc = "window" /\ window = "open"
  \/ AtGates(w) /\ channel # "sms" /\ (worker[w].delivery > 1 \/ ~Refused)

MayPass(w) ==
  \/ worker[w].pc = "window" /\ window = "open"
  \/ AtGates(w) /\ channel # "sms" /\ ~Refused

\* The in-app worker writes the status here, on the pool.
Pass(w) ==
  /\ MayPass(w)
  /\ SetWorker(w, [worker[w] EXCEPT !.pc = "send"])
  /\ rows' = IF InTransaction THEN rows ELSE Write(worker[w].job, SentStatus)
  /\ UNCHANGED <<mail, world, accepted, events, dlq, ghosts, faults>>

-----------------------------------------------------------------------------
(* The send, the delivery event, the commit.                               *)

Sending(w) == worker[w].pc = "send"
Send(w) == <<worker[w].job, worker[w].delivery, worker[w].provider>>

\* Mutant of Accept: the loop over the providers goes on after a success.
AcceptAndTryNext(w) ==
  /\ Sending(w)
  /\ accepted' = accepted \cup {Send(w)}
  /\ SetWorker(w, IF worker[w].provider < Tried
                  THEN [worker[w] EXCEPT !.provider = @ + 1]
                  ELSE [worker[w] EXCEPT !.pc = "record", !.event = SentStatus,
                          !.write = SentStatus])
  /\ UNCHANGED <<mail, rows, world, events, dlq, ghosts, faults>>

\* The in-app worker (which publishes to Redis) reports and commits nothing.
Accept(w) ==
  /\ Sending(w)
  /\ accepted' = accepted \cup {Send(w)}
  /\ IF InTransaction
     THEN /\ SetWorker(w, [worker[w] EXCEPT !.pc = "record", !.event = SentStatus,
                             !.write = SentStatus])
          /\ UNCHANGED handled
     ELSE /\ SetWorker(w, [worker[w] EXCEPT !.pc = "reply"])
          /\ handled' = handled \cup {worker[w].job}
  /\ UNCHANGED <<mail, rows, world, events, dlq, unreported, uncategorized, faults>>

\* Mutant of TryNext: the last error is lost.
TryNextLosingError(w) ==
  SetWorker(w,
    IF worker[w].provider < Tried
    THEN [worker[w] EXCEPT !.provider = @ + 1]
    ELSE [worker[w] EXCEPT !.pc = "record", !.event = SentStatus, !.write = SentStatus])

\* The next provider is tried, or the last error is reported and returned.
TryNext(w) ==
  SetWorker(w,
    IF worker[w].provider < Tried
    THEN [worker[w] EXCEPT !.provider = @ + 1]
    ELSE IF ReportsFailures
    THEN [worker[w] EXCEPT !.pc = "record", !.event = "failed", !.ok = FALSE]
    ELSE [worker[w] EXCEPT !.pc = "failed"])

Reject(w) ==
  /\ Sending(w)
  /\ TryNext(w)
  /\ UNCHANGED <<mail, rows, world, accepted, events, dlq, ghosts, faults>>

\* The provider takes the message and its reply is lost.
AcceptUnheard(w) ==
  /\ Fault
  /\ Sending(w)
  /\ accepted' = accepted \cup {Send(w)}
  /\ TryNext(w)
  /\ UNCHANGED <<mail, rows, world, events, dlq, ghosts>>

AfterRecord(w) ==
  SetWorker(w, [worker[w] EXCEPT !.pc = IF worker[w].ok THEN "commit" ELSE "failed"])

\* recordDelivery
Record(w) ==
  /\ worker[w].pc = "record"
  /\ events' = events \cup {[job |-> worker[w].job, delivery |-> worker[w].delivery,
                             type |-> worker[w].event]}
  /\ AfterRecord(w)
  /\ UNCHANGED <<mail, rows, world, accepted, dlq, ghosts, faults>>

\* The bus refuses the event: ignored.
RecordFails(w) ==
  /\ Fault
  /\ worker[w].pc = "record"
  /\ unreported' = unreported \cup {worker[w].job}
  /\ AfterRecord(w)
  /\ UNCHANGED <<mail, rows, world, accepted, events, dlq, handled,
                 uncategorized>>

\* The UPDATE and the commit.  (A row that becomes visible between the two is
\* not written; nor would it be had both come before, which is a behaviour
\* too.)
Commit(w) ==
  /\ worker[w].pc = "commit"
  /\ rows' = Write(worker[w].job, worker[w].write)
  /\ handled' = handled \cup {worker[w].job}
  /\ SetWorker(w, [worker[w] EXCEPT !.pc = "reply"])
  /\ UNCHANGED <<mail, world, accepted, events, dlq, unreported, uncategorized, faults>>

\* Mutant of CommitFails: the error is not returned.
CommitFailsUnnoticed(w) ==
  /\ Fault
  /\ worker[w].pc = "commit"
  /\ rows' \in {rows, Write(worker[w].job, worker[w].write)}
  /\ SetWorker(w, [worker[w] EXCEPT !.pc = "reply"])
  /\ UNCHANGED <<mail, world, accepted, events, dlq, ghosts>>

\* A statement or the commit fails, or the reply to the commit is lost.  (The
\* statement may be one before the send whose error was ignored, as that of the
\* SMS worker's sender_id: then it is the UPDATE that Postgres refuses.)
CommitFails(w) ==
  /\ Fault
  /\ worker[w].pc = "commit"
  /\ rows' \in {rows, Write(worker[w].job, worker[w].write)}
  /\ SetWorker(w, [worker[w] EXCEPT !.pc = "failed"])
  /\ UNCHANGED <<mail, world, accepted, events, dlq, ghosts>>

-----------------------------------------------------------------------------
(* What becomes of the message.                                            *)

\* Mutant of Reply: a message that was handled is not acknowledged.
ReplyWithoutAck(w) ==
  /\ worker[w].pc = "reply"
  /\ CASE worker[w].reply = "ack"   -> UNCHANGED waiting
       [] worker[w].reply = "defer" -> PutBack(w, "window")
       [] worker[w].reply = "again" -> PutBack(w, "now")
  /\ SetWorker(w, Idle)
  /\ UNCHANGED <<delivered, rows, world, accepted, events, dlq, ghosts, faults>>

\* Ack, Term or, for a deferred job, NakWithDelay.
Reply(w) ==
  /\ worker[w].pc = "reply"
  /\ CASE worker[w].reply = "ack"   -> Remove(w)
       [] worker[w].reply = "defer" -> PutBack(w, "window")
       [] worker[w].reply = "again" -> PutBack(w, "now")
  /\ SetWorker(w, Idle)
  /\ UNCHANGED <<delivered, rows, world, accepted, events, dlq, ghosts, faults>>

\* HandleFailure, with deliveries left.
Nak(w) ==
  /\ worker[w].pc = "failed" /\ worker[w].delivery < MaxDeliver
  /\ PutBack(w, "now")
  /\ SetWorker(w, Idle)
  /\ UNCHANGED <<delivered, rows, world, accepted, events, dlq, ghosts, faults>>

\* HandleFailure on the last delivery: a copy to the DLQ, then Term.
DeadLetter(w) ==
  /\ worker[w].pc = "failed" /\ worker[w].delivery >= MaxDeliver
  /\ dlq' = dlq \cup {worker[w].job}
  /\ SetWorker(w, [worker[w] EXCEPT !.pc = "reply", !.reply = "ack"])
  /\ UNCHANGED <<mail, rows, world, accepted, events, ghosts, faults>>

\* The DLQ refuses it: a Nak that no delivery can follow.
DeadLetterFails(w) ==
  /\ Fault
  /\ worker[w].pc = "failed" /\ worker[w].delivery >= MaxDeliver
  /\ PutBack(w, "now")
  /\ SetWorker(w, Idle)
  /\ UNCHANGED <<delivered, rows, world, accepted, events, dlq, ghosts>>

\* The worker dies, or its Ack, Nak or Term is lost.
Crash(w) ==
  /\ Fault
  /\ worker[w].pc # "idle"
  /\ SetWorker(w, Idle)
  /\ UNCHANGED <<mail, rows, world, accepted, events, dlq, ghosts>>

-----------------------------------------------------------------------------
Work(w) ==
  \/ FailGates(w) \/ Stop(w) \/ Match(w) \/ LookUpCategory(w) \/ Scrub(w) \/ Hold(w)
  \/ Defer(w) \/ Pass(w)
  \/ Accept(w) \/ Reject(w) \/ Record(w) \/ Commit(w)
  \/ Reply(w) \/ Nak(w) \/ DeadLetter(w)

WorkFault(w) ==
  \/ CategoryFails(w) \/ AcceptUnheard(w) \/ RecordFails(w) \/ CommitFails(w)
  \/ DeadLetterFails(w) \/ Crash(w)

Next ==
  \/ \E j \in Jobs : CommitRow(j) \/ AbortRow(j) \/ Expire(j)
  \/ Suppress \/ Register \/ DeleteDLTTemplate \/ OpenWindow \/ CloseWindow
  \/ \E w \in Workers : (\E j \in Jobs : Receive(w, j)) \/ Work(w) \/ WorkFault(w)

Spec == Init /\ [][Next]_vars

\* The worker processes are scheduled, the engine's transactions end, and the
\* server delivers and times out.  Nothing is assumed of the window, of the
\* list or of the faults; a provider that rejects for ever is possible.
FairSpec ==
  /\ Spec
  /\ \A j \in Jobs : WF_vars(Expire(j)) /\ WF_vars(CommitRow(j))
  /\ \A w \in Workers : WF_vars(Work(w)) /\ \A j \in Jobs : WF_vars(Receive(w, j))

-----------------------------------------------------------------------------
(* Properties.                                                             *)

\* Types: the shape of the state; deliveries and faults keep to their bounds.
TypeOK ==
  /\ channel \in Channels
  /\ waiting \in [Jobs -> Waitings]
  /\ delivered \in [Jobs -> 0 .. MaxDeliver]
  /\ worker \in [Workers -> WorkerStates]
  /\ rows \in [Jobs -> RowStatuses]
  /\ suppressed \in BOOLEAN /\ dnd \in BOOLEAN /\ registered \in BOOLEAN
  /\ window \in {"open", "closed"} /\ turns \in 0 .. MaxTurns
  /\ accepted \subseteq Jobs \X (1 .. MaxDeliver) \X (1 .. Providers)
  /\ events \subseteq Events
  /\ dlq \subseteq Jobs /\ handled \subseteq Jobs /\ unreported \subseteq Jobs
  /\ uncategorized \subseteq Promotional \X (1 .. MaxDeliver)
  /\ faults \in 0 .. MaxFaults

WasAccepted(j) == \E a \in accepted : a[1] = j
Reported(j) == \E e \in events : e.job = j

\* The stream gives a job up only when a handler has committed it or the DLQ
\* has a copy (Run's Ack, HandleFailure's Term), whatever expires or crashes.
AcknowledgedJobsAreDone ==
  \A j \in Jobs : waiting[j] = "gone" => j \in handled \cup dlq

\* Providers take a message once, and once more for every fault: a crash, a
\* failed commit, an AckWait that runs out, a lost reply.
DuplicateSendsBounded ==
  \A j \in Jobs : Cardinality({a \in accepted : a[1] = j}) <= 1 + faults

\* A sent or delivered event names a delivery in which a provider took the
\* message (recordDelivery, sendWithFallback), and a sent or delivered row is of
\* a message some provider took.  (The in-app worker writes its row first.)
ReportsAreTrue ==
  /\ \A e \in events :
       e.type = SentStatus =>
         \E p \in 1 .. Providers : <<e.job, e.delivery, p>> \in accepted
  /\ channel # "inapp" =>
       \A j \in Jobs : rows[j] = SentStatus => WasAccepted(j)

\* An acknowledged job has left a delivery event or is in the DLQ, unless the
\* bus refused the event: no path of the handlers ends a job unseen.  (The
\* in-app worker reports nothing; an SMS can be lost as the window opens: Defer.)
FinishedJobsLeaveATrace ==
  channel # "inapp" /\ (channel = "sms" => turns = 0) =>
    \A j \in Jobs : waiting[j] = "gone" =>
      j \in dlq \cup unreported \/ Reported(j)

\* Once the address is on the suppression list no later delivery of a job
\* reaches a provider; a delivery that had passed IsSuppressed still may.
SuppressionHolds ==
  \A j \in Jobs, d \in 1 .. MaxDeliver :
    [](suppressed /\ delivered[j] < d =>
         [](\A p \in 1 .. Providers : <<j, d, p>> \notin accepted))

WasSent(j, d) == \E p \in 1 .. Providers : <<j, d, p>> \in accepted

\* sms/worker.go:157: "promotional traffic must never reach a number on the
\* national DND registry", and 167: "Promotional timing enforcement".  However
\* often it is deferred and delivered again, and whatever a worker has read in an
\* earlier delivery: once the number is on the registry no later delivery of a
\* promotional SMS reaches a provider, and none that begins while the window is
\* closed does before it opens, but for those whose category the worker did not
\* learn (line 155).
PromotionalsAreScreened ==
  \A j \in Promotional, d \in 1 .. MaxDeliver :
    /\ [](dnd /\ delivered[j] < d
           => [](WasSent(j, d) => <<j, d>> \in uncategorized))
    /\ \A n \in 0 .. MaxTurns :
         [](channel = "sms" /\ window = "closed" /\ turns = n /\ delivered[j] < d
             => [](turns = n /\ WasSent(j, d) => <<j, d>> \in uncategorized))

\* Unless a fault intervenes every job is acknowledged or terminated in the end:
\* none is left with its deliveries used up and no copy in the DLQ (Run,
\* HandleFailure).  (An SMS may be, that was deferred until then.)
JobsSettle ==
  channel # "sms" /\ [](faults = 0) => \A j \in Jobs : <>(waiting[j] = "gone")
=============================================================================
