-------------------------- MODULE DeliveryReports --------------------------
(***************************************************************************)
(* What becomes of an e-mail after it was sent: the worker's report, which *)
(* the aggregator (domains/analytics/aggregator.go) takes from the stream  *)
(* NOTIFY_DELIVERY, and the provider's callbacks (handler/webhooks.go),    *)
(* against the notifications row that the engine and the worker are still  *)
(* writing.  One notification, whose job is delivered up to MaxSends times,*)
(* to a subscriber whose address may change or be erased meanwhile.        *)
(***************************************************************************)
EXTENDS Naturals, FiniteSets

CONSTANTS
  Kinds,     \* what the provider calls back for: "delivered", "bounced", "opened"
  MaxSends,  \* bound: deliveries of the job that are handled
  Addresses, \* e-mail addresses the subscriber may have
  NoAddress, \* the address of a subscriber without one, as erasure leaves it
  MaxCalls,  \* bound: callbacks
  MaxFaults, \* bound: crashes, errors of the database and lost acknowledgements
  MaxChanges \* bound: changes of the subscriber's address

ASSUME ReportBounds ==
  /\ Kinds \subseteq {"delivered", "bounced", "opened"}
  /\ NoAddress \notin Addresses
  /\ MaxSends \in Nat /\ MaxCalls \in Nat /\ MaxFaults \in Nat /\ MaxChanges \in Nat

Sends == 1 .. MaxSends
Callbacks == Kinds \X Sends  \* a callback carries the provider's message id
Report(s) == <<"report", s>>
Entries == {Report(s) : s \in Sends} \cup Callbacks
Open == [pc |-> "new", aborted |-> FALSE, wrote |-> {}, address |-> NoAddress]

VARIABLES
  row,         \* notifications: status and provider_message_id, as committed
  sends,       \* deliveries of the job that have come so far
  mailed,      \* those in which the provider took the e-mail
  worker,      \* the handler of the job
  callback,    \* callback[c]: the goroutine that handles it, with its transaction
  report,      \* report[s]: the worker's message on NOTIFY_DELIVERY
  stored,      \* delivery_events: rows of each report and each callback
  address,     \* subscribers: the decrypted e-mail address
  changes,     \* how often it has changed
  suppressed,  \* the addresses on the suppression list
  faults

subscriber == <<address, changes>>
vars == <<row, sends, mailed, worker, callback, report, stored, subscriber, suppressed, faults>>

Init ==
  /\ row = [status |-> "absent", id |-> 0]
  /\ sends = 0 /\ mailed = {} /\ worker = "waiting"
  /\ callback = [c \in Callbacks |-> Open]
  /\ report = [s \in Sends |-> "none"]
  /\ stored = [k \in Entries |-> 0]
  /\ address \in Addresses \cup {NoAddress} /\ changes = 0
  /\ suppressed = {} /\ faults = 0

Fault == faults < MaxFaults /\ faults' = faults + 1
There == row.status \notin {"absent", "rolled back"}

-----------------------------------------------------------------------------
(* The engine has published the job; its transaction is still open. *)

EngineCommits ==
  /\ row.status = "absent" /\ row' = [row EXCEPT !.status = "queued"]
  /\ UNCHANGED <<sends, mailed, worker, callback, report, stored, subscriber, suppressed, faults>>

EngineRollsBack ==
  /\ Fault
  /\ row.status = "absent" /\ row' = [row EXCEPT !.status = "rolled back"]
  /\ UNCHANGED <<sends, mailed, worker, callback, report, stored, subscriber, suppressed>>

-----------------------------------------------------------------------------
(* The worker. *)

\* No callback's transaction has updated the row and is still open.
RowIsFree == \A c \in Callbacks : "status" \notin callback[c].wrote

\* The address is read and looked up on the suppression list when the job comes.
Send ==
  /\ worker = "waiting" /\ sends < MaxSends /\ address \notin suppressed \cup {NoAddress}
  /\ sends' = sends + 1 /\ mailed' = mailed \cup {sends + 1} /\ worker' = "sent"
  /\ UNCHANGED <<row, callback, report, stored, subscriber, suppressed, faults>>

\* Without an address the job fails: it is delivered again, or dead-lettered.
FetchFails ==
  /\ worker = "waiting" /\ sends < MaxSends /\ address = NoAddress
  /\ sends' = sends + 1
  /\ UNCHANGED <<row, mailed, worker, callback, report, stored, subscriber, suppressed, faults>>

\* markSuppressed updates the row, which stays locked until the commit, and
\* reports.
MarkSuppressed ==
  /\ worker = "waiting" /\ sends < MaxSends /\ address \in suppressed /\ RowIsFree
  /\ sends' = sends + 1 /\ worker' = "marked"
  /\ report' = [report EXCEPT ![sends + 1] = "queued"]
  /\ UNCHANGED <<row, mailed, callback, stored, subscriber, suppressed, faults>>

CommitSuppressed ==
  /\ worker = "marked" /\ worker' = "done"
  /\ row' = [row EXCEPT !.status = "suppressed"]
  /\ UNCHANGED <<sends, mailed, callback, report, stored, subscriber, suppressed, faults>>

\* recordDelivery, before the row is written.
RecordDelivery ==
  /\ worker = "sent" /\ worker' = "reported"
  /\ report' = [report EXCEPT ![sends] = "queued"]
  /\ UNCHANGED <<row, sends, mailed, callback, stored, subscriber, suppressed, faults>>

\* The error of its publish is dropped.
ReportLost ==
  /\ Fault
  /\ worker = "sent" /\ worker' = "reported"
  /\ UNCHANGED <<row, sends, mailed, callback, report, stored, subscriber, suppressed>>

\* The update of the row and its commit; there may be no row yet.
WriteSent ==
  /\ worker = "reported" /\ RowIsFree
  /\ worker' = "done"
  /\ row' = IF There THEN [status |-> "sent", id |-> sends] ELSE row
  /\ UNCHANGED <<sends, mailed, callback, report, stored, subscriber, suppressed, faults>>

\* The worker dies, or its transaction fails; the job is delivered again.
WorkerFails ==
  /\ Fault
  /\ worker \in {"sent", "reported", "marked"} /\ worker' = "waiting"
  /\ UNCHANGED <<row, sends, mailed, callback, report, stored, subscriber, suppressed>>

\* The acknowledgement is lost after the commit.
JobComesBack ==
  /\ Fault
  /\ worker = "done" /\ worker' = "waiting"
  /\ UNCHANGED <<row, sends, mailed, callback, report, stored, subscriber, suppressed>>

-----------------------------------------------------------------------------
(* A callback is answered 200 at once and handled by a goroutine. *)

Called == {c \in Callbacks : callback[c].pc # "new"}
Arrives(c) == c \notin Called /\ c[2] \in mailed /\ Cardinality(Called) < MaxCalls

\* The goroutine ends; the address it has read is kept as history.
End(c) ==
  callback' = [callback EXCEPT ![c] = [Open EXCEPT !.pc = "over", !.address = callback[c].address]]

\* Mutant of LookUp: the notification is found by the tag that goes with the
\* message.
LookUpTag(c) ==
  /\ Arrives(c)
  /\ IF There THEN callback' = [callback EXCEPT ![c].pc = "address"] ELSE End(c)
  /\ UNCHANGED <<row, sends, mailed, worker, report, stored, subscriber, suppressed, faults>>

\* The notification is looked up by the provider's message id; if there is
\* none, the callback is dropped.
LookUp(c) ==
  /\ Arrives(c)
  /\ IF There /\ row.id = c[2]
     THEN callback' = [callback EXCEPT ![c].pc = "address"] ELSE End(c)
  /\ UNCHANGED <<row, sends, mailed, worker, report, stored, subscriber, suppressed, faults>>

\* Mutant of Execute: an error does not abort the transaction.
ExecuteAlone(c, write, fails, next) ==
  callback' = [callback EXCEPT ![c].pc = next,
                 ![c].wrote = IF fails THEN @ ELSE @ \cup {write}]

\* One of the statements of the transaction.  Its error is dropped, but makes
\* all that follow fail, and the commit.
Execute(c, write, fails, next) ==
  callback' = [callback EXCEPT ![c].pc = next,
                 ![c].aborted = @ \/ fails,
                 ![c].wrote = IF fails \/ callback[c].aborted THEN @ ELSE @ \cup {write}]

\* The subscriber's address as it is now; an error of this query is dropped too.
ReadAddress(c, fails) ==
  /\ callback[c].pc = "address"
  /\ callback' = [callback EXCEPT ![c].pc = "event", ![c].aborted = fails,
                                 ![c].address = IF fails THEN NoAddress ELSE address]
  /\ UNCHANGED <<row, sends, mailed, worker, report, stored, subscriber, suppressed>>

\* Only a bounce whose address is known goes on to be suppressed.
RecordEvent(c, fails) ==
  /\ callback[c].pc = "event"
  /\ Execute(c, "event", fails,
       IF c[1] = "bounced" /\ callback[c].address # NoAddress THEN "suppress" ELSE "status")
  /\ UNCHANGED <<row, sends, mailed, worker, report, stored, subscriber, suppressed>>

Suppress(c, fails) ==
  /\ callback[c].pc = "suppress"
  /\ Execute(c, "suppression", fails, "status")
  /\ UNCHANGED <<row, sends, mailed, worker, report, stored, subscriber, suppressed>>

\* Mutant of UpdateStatus: the status written is the provider's word for it.
UpdateStatusVerbatim(c, fails) ==
  /\ callback[c].pc = "status" /\ worker # "marked"
  /\ \A d \in Callbacks \ {c} : "status" \notin callback[d].wrote
  /\ Execute(c, "status", fails \/ c[1] \in {"opened", "bounced"}, "commit")
  /\ UNCHANGED <<row, sends, mailed, worker, report, stored, subscriber, suppressed>>

\* 'opened' is not one of the statuses that the CHECK of the column allows.
UpdateStatus(c, fails) ==
  /\ callback[c].pc = "status" /\ worker # "marked"
  /\ \A d \in Callbacks \ {c} : "status" \notin callback[d].wrote
  /\ Execute(c, "status", fails \/ c[1] = "opened", "commit")
  /\ UNCHANGED <<row, sends, mailed, worker, report, stored, subscriber, suppressed>>

Statement(c, fails) ==
  ReadAddress(c, fails) \/ RecordEvent(c, fails) \/ Suppress(c, fails) \/ UpdateStatus(c, fails)

Commit(c) ==
  /\ callback[c].pc = "commit"
  /\ LET wrote == IF callback[c].aborted THEN {} ELSE callback[c].wrote
     IN  /\ stored' = [stored EXCEPT ![c] = IF "event" \in wrote THEN @ + 1 ELSE @]
         /\ suppressed' = suppressed \cup
                            (IF "suppression" \in wrote THEN {callback[c].address} ELSE {})
         /\ row' = IF "status" \in wrote
                   THEN [row EXCEPT !.status = IF c[1] = "bounced" THEN "failed" ELSE c[1]]
                   ELSE row
  /\ End(c)
  /\ UNCHANGED <<sends, mailed, worker, report, subscriber, faults>>

\* The server dies, or the commit fails: nobody handles the callback again.
CallbackLost(c) ==
  /\ Fault
  /\ callback[c].pc \notin {"new", "over"}
  /\ End(c)
  /\ UNCHANGED <<row, sends, mailed, worker, report, stored, subscriber, suppressed>>

-----------------------------------------------------------------------------
(* The aggregator. *)

\* Mutant of Handle: an event that cannot be stored is acknowledged.
HandleOrDrop(s) ==
  /\ report[s] = "queued"
  /\ report' = [report EXCEPT ![s] = IF There THEN "stored" ELSE "acked"]
  /\ stored' = [stored EXCEPT ![Report(s)] = IF There THEN @ + 1 ELSE @]
  /\ UNCHANGED <<row, sends, mailed, worker, callback, subscriber, suppressed, faults>>

\* handle inserts the event; without a notification the foreign key refuses it
\* and the message is Nak'ed, to be delivered again.
Handle(s) ==
  /\ report[s] = "queued" /\ There
  /\ report' = [report EXCEPT ![s] = "stored"]
  /\ stored' = [stored EXCEPT ![Report(s)] = @ + 1]
  /\ UNCHANGED <<row, sends, mailed, worker, callback, subscriber, suppressed, faults>>

Acknowledge(s) ==
  /\ report[s] = "stored" /\ report' = [report EXCEPT ![s] = "acked"]
  /\ UNCHANGED <<row, sends, mailed, worker, callback, stored, subscriber, suppressed, faults>>

\* The aggregator dies, the reply to its INSERT or its Ack is lost.
ReportComesBack(s) ==
  /\ Fault
  /\ report[s] = "stored" /\ report' = [report EXCEPT ![s] = "queued"]
  /\ UNCHANGED <<row, sends, mailed, worker, callback, stored, subscriber, suppressed>>

-----------------------------------------------------------------------------
(* The subscriber: EraseSubscriber, or an update from Qeet ID. *)

ChangeAddress(a) ==
  /\ changes < MaxChanges /\ changes' = changes + 1
  /\ a # address /\ address' = a
  /\ UNCHANGED <<row, sends, mailed, worker, callback, report, stored, suppressed, faults>>

-----------------------------------------------------------------------------
Work ==
  Send \/ FetchFails \/ MarkSuppressed \/ CommitSuppressed \/ RecordDelivery \/ WriteSent
Aggregate(s) == Handle(s) \/ Acknowledge(s)
Process(c) == (Statement(c, FALSE) /\ UNCHANGED faults) \/ Commit(c)

Next ==
  \/ EngineCommits \/ EngineRollsBack
  \/ Work \/ ReportLost \/ WorkerFails \/ JobComesBack
  \/ \E c \in Callbacks :
       LookUp(c) \/ Process(c) \/ (Fault /\ Statement(c, TRUE)) \/ CallbackLost(c)
  \/ \E s \in Sends : Aggregate(s) \/ ReportComesBack(s)
  \/ \E a \in Addresses \cup {NoAddress} : ChangeAddress(a)

\* The programs run: as long as one of them can go on, one does.  The provider
\* need not call back.
Spec ==
  /\ Init /\ [][Next]_vars
  /\ WF_vars(EngineCommits \/ Work \/ (\E c \in Callbacks : Process(c))
                \/ \E s \in Sends : Aggregate(s))

-----------------------------------------------------------------------------
\* The row's message id is that of an e-mail that was sent; no two open
\* transactions, of callbacks or the worker, have updated the row.
TypeOK ==
  /\ row \in [status : {"absent", "rolled back", "queued", "sent", "delivered", "failed",
                        "suppressed"}, id : mailed \cup {0}]
  /\ mailed \subseteq 1 .. sends /\ sends \in 0 .. MaxSends
  /\ worker \in {"waiting", "sent", "reported", "marked", "done"}
  /\ callback \in [Callbacks ->
       [pc : {"new", "address", "event", "suppress", "status", "commit", "over"},
        aborted : BOOLEAN, wrote : SUBSET {"event", "suppression", "status"},
        address : Addresses \cup {NoAddress}]]
  /\ \A c, d \in Callbacks :
       "status" \in callback[c].wrote /\ "status" \in callback[d].wrote => c = d
  /\ worker = "marked" => There /\ RowIsFree
  /\ report \in [Sends -> {"none", "queued", "stored", "acked"}]
  /\ stored \in [Entries -> Nat]
  /\ address \in Addresses \cup {NoAddress} /\ changes \in 0 .. MaxChanges
  /\ suppressed \subseteq Addresses /\ faults \in 0 .. MaxFaults

\* The bounces on record.
Bounces == {c \in Callbacks : c[1] = "bounced" /\ stored[c] > 0}

\* "Hard bounces and spam complaints -> add to suppressions" (webhooks.go:128):
\* an address is suppressed exactly when a bounce is on record whose goroutine
\* read it, although the errors of all four statements are dropped.  A bounce
\* is stored without a suppression only if the address was erased since the
\* e-mail went out.
BouncesAreWhole ==
  /\ suppressed = {callback[c].address : c \in Bounces} \ {NoAddress}
  /\ Bounces # {} /\ changes = 0 => suppressed = {address}

\* The aggregator acknowledges what is stored, and stores a report again only
\* after a fault.
ReportsAreStoredOnce ==
  \A s \in Sends :
    /\ report[s] = "acked" => stored[Report(s)] > 0
    /\ stored[Report(s)] <= 1 + faults

\* Without a fault, what the provider has called back for is not overwritten by
\* the worker that is still writing 'sent', however early the callback is.
OutcomeIsKept ==
  [][faults = 0 /\ row.status \in {"delivered", "failed"}
       => row'.status \in {"delivered", "failed"}]_vars

\* Every report about a notification that exists gets into delivery_events,
\* also when it was there before the notification was.
ReportsArrive ==
  \A s \in Sends : report[s] # "none" /\ There ~> stored[Report(s)] > 0

\* A callback that has found its notification is on record in the end, unless a
\* fault intervenes ('opened' is not: see UpdateStatus).
CallbacksArrive ==
  \A c \in Callbacks :
    callback[c].pc = "address" /\ c[1] # "opened" ~> stored[c] > 0 \/ faults > 0
=============================================================================
