------------------------ MODULE DeliveryReportsProofs ------------------------
(***************************************************************************)
(* Theorems about DeliveryReports: its types, that a bounce is recorded    *)
(* and suppressed or neither, that a report is stored once and once more   *)
(* per fault, and that outcomes are kept, for any number of deliveries,    *)
(* callbacks and faults.                                                   *)
(***************************************************************************)
EXTENDS DeliveryReports, TLAPS

\* What the position of a callback's goroutine says of its transaction: an
\* aborted one writes nothing, another has written all it has come past.
Progress(c, state) ==
  /\ state.pc \in {"new", "address", "event", "over"} => state.wrote = {}
  /\ ~state.aborted /\ state.pc \in {"suppress", "status", "commit"} => "event" \in state.wrote
  /\ /\ ~state.aborted /\ c[1] = "bounced" /\ state.address # NoAddress
     /\ state.pc \in {"status", "commit"}
     => "suppression" \in state.wrote
  /\ state.pc = "suppress" \/ "suppression" \in state.wrote =>
       c[1] = "bounced" /\ state.address # NoAddress
  /\ c[1] = "opened" => "status" \notin state.wrote

\* What the callback has read is the address the e-mail went to, as long as that
\* has not changed.
Reached(state) ==
  changes = 0 /\ state.pc \in {"event", "suppress", "status", "commit"} /\ ~state.aborted
    => state.address = address

\* A callback that goes on, and a suppression, are of a notification that exists
\* and went out; it did not go out to no address.
OfARow ==
  /\ \A c \in Callbacks : callback[c].pc \notin {"new", "over"} => There /\ mailed # {}
  /\ suppressed # {} => There
  /\ changes = 0 /\ mailed # {} => address # NoAddress

\* A callback that is on record is over.
OnRecord == \A c \in Callbacks : stored[c] > 0 => callback[c].pc = "over"

\* How often a report may have been stored, by where its message is.
Copies(s) ==
  /\ s > sends => report[s] = "none"
  /\ report[s] = "none" => stored[Report(s)] = 0
  /\ report[s] = "queued" => stored[Report(s)] <= faults
  /\ report[s] \in {"stored", "acked"} =>
       stored[Report(s)] > 0 /\ stored[Report(s)] <= 1 + faults

\* A delivery that is being handled was taken by the provider, and reported
\* only at its next step.
Unreported ==
  /\ worker \in {"sent", "reported"} => sends \in mailed
  /\ worker = "sent" => sends \in Sends /\ report[sends] = "none"

Inv ==
  /\ TypeOK
  /\ \A c \in Callbacks : Progress(c, callback[c]) /\ Reached(callback[c])
  /\ OfARow /\ OnRecord
  /\ BouncesAreWhole
  /\ \A s \in Sends : Copies(s)
  /\ Unreported

USE DEF subscriber

-----------------------------------------------------------------------------
\* Reports and callbacks have entries of their own.
LEMMA EntriesAreApart ==
  /\ \A s, t \in Sends : Report(s) = Report(t) => s = t
  /\ \A s \in Sends, c \in Callbacks : Report(s) # c
  BY ReportBounds DEF Report, Callbacks

LEMMA FaultBound ==
  ASSUME faults \in 0 .. MaxFaults, Fault
  PROVE  faults' \in 0 .. MaxFaults /\ faults' = faults + 1
  BY ReportBounds DEF Fault

LEMMA InitInv == Init => Inv
  <1> SUFFICES ASSUME Init PROVE Inv
    OBVIOUS
  <1>0. \A c \in Callbacks : callback[c] = Open BY DEF Init
  <1>1. TypeOK
    <2>1. row \in [status : {"absent", "rolled back", "queued", "sent", "delivered", "failed",
                            "suppressed"}, id : mailed \cup {0}]
      BY DEF Init
    <2>2. mailed \subseteq 1 .. sends /\ sends \in 0 .. MaxSends /\ faults \in 0 .. MaxFaults
          /\ changes \in 0 .. MaxChanges /\ address \in Addresses \cup {NoAddress}
      BY ReportBounds DEF Init
    <2>3. callback \in [Callbacks ->
            [pc : {"new", "address", "event", "suppress", "status", "commit", "over"},
             aborted : BOOLEAN, wrote : SUBSET {"event", "suppression", "status"},
             address : Addresses \cup {NoAddress}]]
      BY DEF Init, Open
    <2>4. \A c, d \in Callbacks :
            "status" \in callback[c].wrote /\ "status" \in callback[d].wrote => c = d
      BY <1>0 DEF Open
    <2>5. report \in [Sends -> {"none", "queued", "stored", "acked"}]
      BY DEF Init
    <2>6. stored \in [Entries -> Nat]
      BY DEF Init
    <2> QED BY <2>1, <2>2, <2>3, <2>4, <2>5, <2>6 DEF Init, TypeOK
  <1>2. \A c \in Callbacks : Progress(c, callback[c]) /\ Reached(callback[c])
    BY <1>0 DEF Progress, Reached, Open
  <1>3. \A c \in Callbacks : stored[c] = 0 BY DEF Init, Entries
  <1>4. OfARow /\ OnRecord BY <1>0, <1>3 DEF Init, OfARow, OnRecord, Open
  <1>7. BouncesAreWhole
    <2>1. Bounces = {} BY <1>3 DEF Bounces
    <2> QED BY <2>1 DEF Init, BouncesAreWhole
  <1>5. \A s \in Sends : Copies(s) BY DEF Init, Copies, Entries
  <1>6. Unreported BY DEF Init, Unreported
  <1> QED BY <1>1, <1>2, <1>4, <1>5, <1>6, <1>7 DEF Inv

-----------------------------------------------------------------------------
(* The parts of the invariant, each kept by whoever leaves its variables    *)
(* alone.                                                                   *)

\* A row stays.
LEMMA ThereStays ==
  ASSUME Inv, row'.status = row.status \/ row'.status \notin {"absent", "rolled back"}
  PROVE  There => There'
  BY DEF There

LEMMA CallbacksKept ==
  ASSUME Inv, UNCHANGED <<callback, suppressed, stored, address, changes>>, There => There',
         mailed \subseteq mailed',
         changes = 0 /\ mailed' # {} => address # NoAddress
  PROVE  /\ \A c \in Callbacks : Progress(c, callback[c])' /\ Reached(callback[c])'
         /\ OfARow' /\ OnRecord' /\ BouncesAreWhole'
  <1>1. Bounces' = Bounces BY DEF Bounces
  <1>2. BouncesAreWhole' BY <1>1 DEF Inv, BouncesAreWhole
  <1> QED BY <1>2 DEF Inv, Progress, Reached, OfARow, OnRecord

LEMMA CopiesKept ==
  ASSUME Inv, UNCHANGED report, \A s \in Sends : stored'[Report(s)] = stored[Report(s)],
         faults' = faults \/ Fault, sends' \in {sends, sends + 1}
  PROVE  \A s \in Sends : Copies(s)'
  <1>1. faults \in 0 .. MaxFaults /\ sends \in 0 .. MaxSends /\ stored \in [Entries -> Nat]
    BY DEF Inv, TypeOK
  <1>2. faults \in Nat /\ faults' \in Nat /\ faults' >= faults /\ sends \in Nat
    BY <1>1, FaultBound, ReportBounds
  <1>3. ASSUME NEW s \in Sends PROVE Copies(s)'
    <2>1. Copies(s) /\ s \in Nat /\ stored[Report(s)] \in Nat
      BY <1>1, <1>3 DEF Inv, Entries, Sends
    <2>2. report'[s] = report[s] /\ stored'[Report(s)] = stored[Report(s)]
      BY <1>3
    <2>3. s > sends' => s > sends BY <1>1, <1>2, <2>1
    <2> QED BY <1>2, <2>1, <2>2, <2>3 DEF Copies
  <1> QED BY <1>3

-----------------------------------------------------------------------------
(* The engine, the worker and the bus leave the callbacks and their entries *)
(* alone.                                                                   *)

\* What such a step owes for the invariant.
Elsewhere ==
  /\ UNCHANGED <<callback, suppressed, stored, address, changes>>
  /\ row' \in [status : {"absent", "rolled back", "queued", "sent", "delivered", "failed",
                         "suppressed"}, id : mailed' \cup {0}]
  /\ mailed' \subseteq 1 .. sends' /\ sends' \in 0 .. MaxSends /\ sends' \in {sends, sends + 1}
  /\ worker' \in {"waiting", "sent", "reported", "marked", "done"}
  /\ worker' = "marked" => There' /\ RowIsFree
  /\ There => There'
  /\ mailed \subseteq mailed' /\ (mailed' # mailed => address # NoAddress)
  /\ faults' = faults \/ Fault

LEMMA ElsewhereKeeps ==
  ASSUME Inv, Elsewhere, report' \in [Sends -> {"none", "queued", "stored", "acked"}],
         \A s \in Sends : Copies(s)', Unreported'
  PROVE  Inv'
  <1>1. faults' \in 0 .. MaxFaults
    BY FaultBound DEF Inv, TypeOK, Elsewhere
  <1>2. TypeOK' BY <1>1 DEF Inv, TypeOK, Elsewhere, RowIsFree
  <1>3. /\ \A c \in Callbacks : Progress(c, callback[c])' /\ Reached(callback[c])'
        /\ OfARow' /\ OnRecord' /\ BouncesAreWhole'
    <2>1. changes = 0 /\ mailed' # {} => address # NoAddress BY DEF Elsewhere, Inv, OfARow
    <2> QED BY <2>1, CallbacksKept DEF Elsewhere
  <1> QED BY <1>2, <1>3 DEF Inv

LEMMA QuietKeeps ==
  ASSUME Inv, Elsewhere, UNCHANGED report, Unreported'
  PROVE  Inv'
  <1>1. \A s \in Sends : Copies(s)' BY CopiesKept DEF Elsewhere
  <1>2. report' \in [Sends -> {"none", "queued", "stored", "acked"}]
    BY DEF Inv, TypeOK
  <1> QED BY <1>1, <1>2, ElsewhereKeeps

\* The facts about the state that these steps use.
LEMMA Facts ==
  ASSUME Inv
  PROVE  /\ row \in [status : {"absent", "rolled back", "queued", "sent", "delivered", "failed",
                               "suppressed"}, id : mailed \cup {0}]
         /\ mailed \subseteq 1 .. sends /\ sends \in 0 .. MaxSends /\ MaxSends \in Nat
         /\ sends \in Nat /\ worker \in {"waiting", "sent", "reported", "marked", "done"}
         /\ worker = "marked" => There /\ RowIsFree
         /\ suppressed # {} => There
         /\ worker \in {"sent", "reported"} => sends \in mailed
         /\ worker = "sent" => sends \in Sends /\ report[sends] = "none"
         /\ report \in [Sends -> {"none", "queued", "stored", "acked"}]
         /\ stored \in [Entries -> Nat] /\ faults \in 0 .. MaxFaults /\ faults \in Nat
  <1>1. TypeOK /\ OfARow /\ Unreported BY DEF Inv
  <1>2. MaxSends \in Nat /\ MaxFaults \in Nat BY ReportBounds
  <1>3. sends \in 0 .. MaxSends /\ faults \in 0 .. MaxFaults BY <1>1 DEF TypeOK
  <1>4. sends \in Nat /\ faults \in Nat BY <1>2, <1>3
  <1>5. suppressed # {} => There BY <1>1 DEF OfARow
  <1>6. /\ worker \in {"sent", "reported"} => sends \in mailed
        /\ worker = "sent" => sends \in Sends /\ report[sends] = "none"
    BY <1>1 DEF Unreported
  <1> QED BY <1>1, <1>2, <1>4, <1>5, <1>6 DEF TypeOK

LEMMA EngineKeeps ==
  ASSUME Inv, EngineCommits \/ EngineRollsBack
  PROVE  Inv'
  <1>1. PICK s \in {"queued", "rolled back"} :
           row.status = "absent" /\ row' = [row EXCEPT !.status = s]
    BY DEF EngineCommits, EngineRollsBack
  <1>2. Elsewhere
    BY <1>1, Facts DEF EngineCommits, EngineRollsBack, Elsewhere, There
  <1>3. Unreported' BY DEF Inv, Unreported, EngineCommits, EngineRollsBack
  <1> QED BY <1>2, <1>3, QuietKeeps DEF EngineCommits, EngineRollsBack

LEMMA SendKeeps ==
  ASSUME Inv, Send
  PROVE  Inv'
  <1>0. sends \in Nat /\ MaxSends \in Nat /\ sends < MaxSends /\ sends' = sends + 1
    BY Facts DEF Send
  <1>1. Elsewhere
    <2>1. mailed' \subseteq 1 .. sends'
      <3>1. mailed \subseteq 1 .. sends BY Facts
      <3>2. mailed' = mailed \cup {sends + 1} BY DEF Send
      <3>3. 1 .. sends \subseteq 1 .. sends' /\ sends + 1 \in 1 .. sends' BY <1>0
      <3> QED BY <3>1, <3>2, <3>3
    <2>2. row' = row /\ mailed \subseteq mailed' BY DEF Send
    <2>3. row' \in [status : {"absent", "rolled back", "queued", "sent", "delivered", "failed",
                             "suppressed"}, id : mailed' \cup {0}]
      BY <2>2, Facts
    <2>4. sends' \in 0 .. MaxSends BY <1>0
    <2> QED BY <1>0, <2>1, <2>2, <2>3, <2>4 DEF Send, Elsewhere, There
  <1>2. sends' \in Sends /\ sends' > sends BY <1>0 DEF Sends
  <1>3. Unreported'
    <2>1. sends' \in mailed' BY <1>0 DEF Send
    <2> QED BY <1>2, <2>1 DEF Inv, Copies, Unreported, Send
  <1> QED BY <1>1, <1>3, QuietKeeps DEF Send

LEMMA WriteKeeps ==
  ASSUME Inv, CommitSuppressed \/ WriteSent \/ FetchFails
  PROVE  Inv'
  <1>1. CASE CommitSuppressed
    <2>1. Elsewhere BY <1>1, Facts DEF CommitSuppressed, Elsewhere, There
    <2> QED BY <1>1, <2>1, QuietKeeps DEF CommitSuppressed, Unreported
  <1>2. CASE WriteSent
    <2>1. row' \in [status : {"absent", "rolled back", "queued", "sent", "delivered", "failed",
                             "suppressed"}, id : mailed' \cup {0}]
      <3>1. CASE There
        <4>1. sends' \in mailed' BY <1>2, <3>1, Facts DEF WriteSent
        <4> QED BY <1>2, <3>1, <4>1 DEF WriteSent
      <3>2. CASE ~There BY <1>2, <3>2, Facts DEF WriteSent
      <3> QED BY <3>1, <3>2
    <2>2. There => There' BY <1>2 DEF WriteSent, There
    <2>3. Elsewhere BY <1>2, <2>1, <2>2, Facts DEF WriteSent, Elsewhere
    <2> QED BY <1>2, <2>3, QuietKeeps DEF WriteSent, Unreported
  <1>3. CASE FetchFails
    <2>1. sends \in Nat /\ MaxSends \in Nat /\ sends < MaxSends /\ sends' = sends + 1
      BY <1>3, Facts DEF FetchFails
    <2>2. sends' \in 0 .. MaxSends /\ 1 .. sends \subseteq 1 .. sends' BY <2>1
    <2>3. Elsewhere BY <1>3, <2>2, Facts DEF FetchFails, Elsewhere, There
    <2> QED BY <1>3, <2>3, QuietKeeps DEF FetchFails, Unreported
  <1> QED BY <1>1, <1>2, <1>3

LEMMA RetryKeeps ==
  ASSUME Inv, ReportLost \/ WorkerFails \/ JobComesBack
  PROVE  Inv'
  <1>1. Elsewhere
    BY Facts DEF ReportLost, WorkerFails, JobComesBack, Elsewhere, There
  <1>2. Unreported'
    <2>1. CASE ReportLost BY <2>1, Facts DEF ReportLost, Unreported
    <2>2. CASE WorkerFails BY <2>2 DEF WorkerFails, Unreported
    <2>3. CASE JobComesBack BY <2>3 DEF JobComesBack, Unreported
    <2> QED BY <2>1, <2>2, <2>3
  <1> QED BY <1>1, <1>2, QuietKeeps DEF ReportLost, WorkerFails, JobComesBack

\* A first message about a delivery has not been stored.
LEMMA NewReport ==
  ASSUME Inv, NEW s \in Sends, report[s] = "none", report' = [report EXCEPT ![s] = "queued"],
         stored' = stored, faults' = faults, sends' = s, s >= sends
  PROVE  \A t \in Sends : Copies(t)'
  <1>1. ASSUME NEW t \in Sends PROVE Copies(t)'
    <2>1. Copies(s) /\ Copies(t) /\ report \in [Sends -> {"none", "queued", "stored", "acked"}]
      BY DEF Inv, TypeOK
    <2>2. faults \in Nat /\ sends \in Nat BY Facts
    <2>3. CASE t = s
      <3>1. report'[t] = "queued" /\ stored'[Report(t)] = 0
        BY <2>1, <2>3 DEF Copies
      <3> QED BY <2>2, <2>3, <3>1 DEF Copies, Sends
    <2>4. CASE t # s
      <3>1. report'[t] = report[t] /\ stored'[Report(t)] = stored[Report(t)]
        BY <2>1, <2>4
      <3>2. t > sends' => t > sends BY <2>2 DEF Sends
      <3> QED BY <2>1, <3>1, <3>2 DEF Copies
    <2> QED BY <2>3, <2>4
  <1> QED BY <1>1

LEMMA ReportKeeps ==
  ASSUME Inv, RecordDelivery \/ MarkSuppressed
  PROVE  Inv'
  <1>1. CASE RecordDelivery
    <2>1. sends \in Sends /\ report[sends] = "none" BY <1>1, Facts DEF RecordDelivery
    <2>2. \A t \in Sends : Copies(t)'
      <3>1. report' = [report EXCEPT ![sends] = "queued"] /\ stored' = stored
            /\ faults' = faults /\ sends' = sends
        BY <1>1 DEF RecordDelivery
      <3>2. sends >= sends
        <4>1. sends \in Nat BY Facts
        <4> QED BY <4>1
      <3> QED BY <2>1, <3>1, <3>2, NewReport
    <2>3. Elsewhere BY <1>1, Facts DEF RecordDelivery, Elsewhere, There
    <2>4. Unreported' BY <1>1, Facts DEF RecordDelivery, Unreported
    <2>5. report' \in [Sends -> {"none", "queued", "stored", "acked"}]
      BY <1>1, Facts DEF RecordDelivery
    <2> QED BY <2>2, <2>3, <2>4, <2>5, ElsewhereKeeps
  <1>2. CASE MarkSuppressed
    <2>1. sends \in Nat /\ MaxSends \in Nat /\ sends < MaxSends /\ sends' = sends + 1
      BY <1>2, Facts DEF MarkSuppressed
    <2>2. sends' \in Sends /\ sends' > sends BY <2>1 DEF Sends
    <2>3. report[sends'] = "none" BY <2>2 DEF Inv, Copies
    <2>4. \A t \in Sends : Copies(t)'
      <3>1. report' = [report EXCEPT ![sends'] = "queued"] /\ stored' = stored
            /\ faults' = faults /\ sends' >= sends
        BY <1>2, <2>1 DEF MarkSuppressed
      <3> DEFINE s == sends'
      <3>2. s \in Sends /\ report[s] = "none" /\ report' = [report EXCEPT ![s] = "queued"]
            /\ stored' = stored /\ faults' = faults /\ sends' = s /\ s >= sends
        BY <2>2, <2>3, <3>1
      <3> HIDE DEF s
      <3> QED BY <3>2, NewReport
    <2>5. Elsewhere
      <3>1. mailed' \subseteq 1 .. sends'
        <4>1. mailed \subseteq 1 .. sends /\ mailed' = mailed
          BY <1>2, Facts DEF MarkSuppressed
        <4>2. 1 .. sends \subseteq 1 .. sends' BY <2>1
        <4> QED BY <4>1, <4>2
      <3>2. sends' \in 0 .. MaxSends BY <2>1
      <3>3. There /\ RowIsFree BY <1>2, Facts DEF MarkSuppressed
      <3>4. row' = row /\ mailed' = mailed /\ worker' = "marked" /\ faults' = faults
            /\ UNCHANGED <<callback, suppressed, stored, address, changes>>
        BY <1>2 DEF MarkSuppressed
      <3>5. There' BY <3>3, <3>4 DEF There
      <3> QED BY <2>1, <3>1, <3>2, <3>3, <3>4, <3>5, Facts DEF Elsewhere
    <2>6. Unreported' BY <1>2 DEF MarkSuppressed, Unreported
    <2>7. report' \in [Sends -> {"none", "queued", "stored", "acked"}]
      BY <1>2, Facts DEF MarkSuppressed
    <2> QED BY <2>4, <2>5, <2>6, <2>7, ElsewhereKeeps
  <1> QED BY <1>1, <1>2

-----------------------------------------------------------------------------
(* The callbacks leave the worker and the reports alone.                    *)

\* What a step of the goroutine of c owes for the invariant.
Owes(c, state) ==
  /\ callback' = [callback EXCEPT ![c] = state]
  /\ state \in [pc : {"new", "address", "event", "suppress", "status", "commit", "over"},
                aborted : BOOLEAN, wrote : SUBSET {"event", "suppression", "status"},
                address : Addresses \cup {NoAddress}]
  /\ UNCHANGED <<sends, mailed, worker, report, address, changes>>
  /\ faults' = faults \/ Fault
  /\ row' \in [status : {"absent", "rolled back", "queued", "sent", "delivered", "failed",
                         "suppressed"}, id : mailed \cup {0}]
  /\ There => There'
  /\ Progress(c, state) /\ Reached(state)
  /\ state.pc \notin {"new", "over"} => There /\ mailed # {}
  /\ "status" \in state.wrote =>
       /\ worker # "marked"
       /\ \A d \in Callbacks \ {c} : "status" \notin callback[d].wrote
  /\ stored' \in [Entries -> Nat]
  /\ \A s \in Sends : stored'[Report(s)] = stored[Report(s)]
  /\ suppressed' \subseteq Addresses /\ (suppressed' # {} => There)
  /\ OnRecord' /\ BouncesAreWhole'

LEMMA CallbackKeeps ==
  ASSUME Inv, NEW c \in Callbacks, NEW state, Owes(c, state)
  PROVE  Inv'
  <1>1. /\ callback'[c] = state
        /\ \A d \in Callbacks : d # c => callback'[d] = callback[d]
        /\ callback' \in [Callbacks ->
             [pc : {"new", "address", "event", "suppress", "status", "commit", "over"},
              aborted : BOOLEAN, wrote : SUBSET {"event", "suppression", "status"},
              address : Addresses \cup {NoAddress}]]
    <2>1. callback' = [callback EXCEPT ![c] = state] BY DEF Owes
    <2>2. callback \in [Callbacks ->
            [pc : {"new", "address", "event", "suppress", "status", "commit", "over"},
             aborted : BOOLEAN, wrote : SUBSET {"event", "suppression", "status"},
             address : Addresses \cup {NoAddress}]]
      BY DEF Inv, TypeOK
    <2>3. state \in [pc : {"new", "address", "event", "suppress", "status", "commit", "over"},
                     aborted : BOOLEAN, wrote : SUBSET {"event", "suppression", "status"},
                     address : Addresses \cup {NoAddress}]
      BY DEF Owes
    <2> QED BY <2>1, <2>2, <2>3
  <1>2. faults' \in 0 .. MaxFaults
    BY FaultBound, Facts DEF Owes
  <1>3. \A d, e \in Callbacks :
          "status" \in callback'[d].wrote /\ "status" \in callback'[e].wrote => d = e
    <2>1. \A d, e \in Callbacks :
            "status" \in callback[d].wrote /\ "status" \in callback[e].wrote => d = e
      BY DEF Inv, TypeOK
    <2>2. "status" \in state.wrote =>
            \A d \in Callbacks \ {c} : "status" \notin callback[d].wrote
      BY DEF Owes
    <2> QED BY <1>1, <2>1, <2>2
  <1>4. worker' = "marked" => There' /\ RowIsFree'
    BY <1>1 DEF Owes, Inv, TypeOK, RowIsFree
  <1>5. TypeOK'
    BY <1>1, <1>2, <1>3, <1>4 DEF Owes, Inv, TypeOK
  <1>6. \A d \in Callbacks : Progress(d, callback[d])' /\ Reached(callback[d])'
    <2>1. \A d \in Callbacks : Progress(d, callback'[d]) /\ Reached(callback'[d])
      BY <1>1 DEF Owes, Inv
    <2>2. address' = address /\ changes' = changes BY DEF Owes
    <2> QED BY <2>1, <2>2 DEF Progress, Reached
  <1>7. OfARow' BY <1>1 DEF Owes, Inv, OfARow
  <1>8. \A s \in Sends : Copies(s)'
    BY CopiesKept DEF Owes
  <1>9. Unreported' BY DEF Owes, Inv, Unreported
  <1> QED BY <1>5, <1>6, <1>7, <1>8, <1>9 DEF Owes, Inv

\* The facts about a callback that these steps use.
LEMMA CallbackFacts ==
  ASSUME Inv, NEW c \in Callbacks
  PROVE  /\ callback[c] \in
              [pc : {"new", "address", "event", "suppress", "status", "commit", "over"},
              aborted : BOOLEAN, wrote : SUBSET {"event", "suppression", "status"},
              address : Addresses \cup {NoAddress}]
         /\ Progress(c, callback[c]) /\ Reached(callback[c])
         /\ callback[c].pc \notin {"new", "over"} => There /\ mailed # {}
         /\ stored[c] > 0 => callback[c].pc = "over"
         /\ address \in Addresses \cup {NoAddress}
         /\ changes = 0 /\ mailed # {} => address # NoAddress
         /\ "status" \in callback[c].wrote =>
              /\ worker # "marked"
              /\ \A d \in Callbacks \ {c} : "status" \notin callback[d].wrote
         /\ suppressed \subseteq Addresses /\ BouncesAreWhole
  <1>1. TypeOK BY DEF Inv
  <1>2. "status" \in callback[c].wrote =>
          /\ worker # "marked"
          /\ \A d \in Callbacks \ {c} : "status" \notin callback[d].wrote
    BY <1>1 DEF TypeOK, RowIsFree
  <1> QED BY <1>1, <1>2 DEF Inv, OfARow, OnRecord, TypeOK

\* A step that does not commit.
LEMMA Uncommitted ==
  ASSUME Inv, NEW c \in Callbacks, NEW state, callback' = [callback EXCEPT ![c] = state],
         state \in [pc : {"new", "address", "event", "suppress", "status", "commit", "over"},
                    aborted : BOOLEAN, wrote : SUBSET {"event", "suppression", "status"},
                    address : Addresses \cup {NoAddress}],
         UNCHANGED <<row, sends, mailed, worker, report, stored, subscriber, suppressed>>,
         faults' = faults \/ Fault, Progress(c, state), Reached(state),
         callback[c].pc # "over",
         state.pc \notin {"new", "over"} => There /\ mailed # {},
         "status" \in state.wrote =>
           \/ "status" \in callback[c].wrote
           \/ /\ worker # "marked"
              /\ \A d \in Callbacks \ {c} : "status" \notin callback[d].wrote
  PROVE  Inv'
  <1>0. ~(stored[c] > 0) /\ callback \in [Callbacks ->
          [pc : {"new", "address", "event", "suppress", "status", "commit", "over"},
           aborted : BOOLEAN, wrote : SUBSET {"event", "suppression", "status"},
           address : Addresses \cup {NoAddress}]]
    BY CallbackFacts DEF Inv, TypeOK
  <1>1. OnRecord' /\ BouncesAreWhole'
    <2>1. Bounces' = Bounces /\ \A d \in Bounces : callback'[d] = callback[d]
      BY <1>0 DEF Bounces
    <2>2. {callback'[d].address : d \in Bounces'} = {callback[d].address : d \in Bounces}
      BY <2>1
    <2>3. BouncesAreWhole' BY <2>1, <2>2, CallbackFacts DEF BouncesAreWhole
    <2>4. OnRecord' BY <1>0 DEF Inv, OnRecord
    <2> QED BY <2>3, <2>4
  <1>2. There' = There BY DEF There
  <1>3. "status" \in state.wrote =>
          /\ worker # "marked"
          /\ \A d \in Callbacks \ {c} : "status" \notin callback[d].wrote
    BY CallbackFacts
  <1>4. Owes(c, state) BY <1>1, <1>2, <1>3, Facts, CallbackFacts DEF Owes
  <1> QED BY <1>4, CallbackKeeps

\* The goroutine ends without a commit.
LEMMA EndKeeps ==
  ASSUME Inv, NEW c \in Callbacks, End(c), faults' = faults \/ Fault, callback[c].pc # "over",
         UNCHANGED <<row, sends, mailed, worker, report, stored, subscriber, suppressed>>
  PROVE  Inv'
  <1> DEFINE over == [Open EXCEPT !.pc = "over", !.address = callback[c].address]
  <1>1. callback' = [callback EXCEPT ![c] = over] BY DEF End
  <1>2. over \in [pc : {"new", "address", "event", "suppress", "status", "commit", "over"},
                  aborted : BOOLEAN, wrote : SUBSET {"event", "suppression", "status"},
                  address : Addresses \cup {NoAddress}]
    BY CallbackFacts DEF Open
  <1>3. /\ Progress(c, over) /\ Reached(over)
        /\ over.pc = "over" /\ "status" \notin over.wrote
    BY DEF Progress, Reached, Open
  <1> HIDE DEF over
  <1> QED BY <1>1, <1>2, <1>3, Uncommitted

LEMMA LookUpKeeps ==
  ASSUME Inv, NEW c \in Callbacks, LookUp(c)
  PROVE  Inv'
  <1>1. CASE There /\ row.id = c[2]
    <2> DEFINE found == [callback[c] EXCEPT !.pc = "address"]
    <2>1. callback[c].pc = "new" /\ mailed # {} BY DEF LookUp, Arrives, Called
    <2>2. callback' = [callback EXCEPT ![c] = found] BY <1>1 DEF LookUp
    <2>3. found \in [pc : {"new", "address", "event", "suppress", "status", "commit", "over"},
                     aborted : BOOLEAN, wrote : SUBSET {"event", "suppression", "status"},
                     address : Addresses \cup {NoAddress}]
          /\ found.pc = "address" /\ found.wrote = callback[c].wrote
      BY CallbackFacts
    <2>4. Progress(c, found) /\ Reached(found)
      BY <2>1, <2>3, CallbackFacts DEF Progress, Reached
    <2>5. UNCHANGED <<row, sends, mailed, worker, report, stored, subscriber, suppressed, faults>>
      BY DEF LookUp
    <2> HIDE DEF found
    <2> QED BY <1>1, <2>1, <2>2, <2>3, <2>4, <2>5, Uncommitted
  <1>2. CASE ~(There /\ row.id = c[2])
    BY <1>2, EndKeeps DEF LookUp, Arrives, Called
  <1> QED BY <1>1, <1>2

\* What Execute makes of the goroutine's state.
After(c, write, fails, next) ==
  [callback[c] EXCEPT !.pc = next, !.aborted = @ \/ fails,
     !.wrote = IF fails \/ callback[c].aborted THEN @ ELSE @ \cup {write}]

LEMMA ExecuteKeeps ==
  ASSUME Inv, NEW c \in Callbacks, NEW fails \in BOOLEAN,
         NEW write \in {"event", "suppression", "status"},
         NEW next \in {"suppress", "status", "commit"},
         Execute(c, write, fails, next),
         UNCHANGED <<row, sends, mailed, worker, report, stored, subscriber, suppressed>>,
         faults' = faults \/ Fault,
         callback[c].pc \notin {"new", "over"},
         Progress(c, After(c, write, fails, next)), Reached(After(c, write, fails, next)),
         write = "status" =>
           /\ worker # "marked"
           /\ \A d \in Callbacks \ {c} : "status" \notin callback[d].wrote
  PROVE  Inv'
  <1> DEFINE state == After(c, write, fails, next)
  <1>1. callback[c] \in [pc : {"new", "address", "event", "suppress", "status", "commit", "over"},
                         aborted : BOOLEAN, wrote : SUBSET {"event", "suppression", "status"},
                         address : Addresses \cup {NoAddress}]
    BY CallbackFacts
  <1>2. callback' = [callback EXCEPT ![c] = state]
    BY DEF Execute, Inv, TypeOK, After
  <1>3. state \in [pc : {"new", "address", "event", "suppress", "status", "commit", "over"},
                   aborted : BOOLEAN, wrote : SUBSET {"event", "suppression", "status"},
                   address : Addresses \cup {NoAddress}]
    BY <1>1 DEF After
  <1>4. "status" \in state.wrote => "status" \in callback[c].wrote \/ write = "status"
    BY <1>1 DEF After
  <1>5. There /\ mailed # {} /\ callback[c].pc # "over" BY CallbackFacts
  <1>6. Progress(c, state) /\ Reached(state) OBVIOUS
  <1> HIDE DEF state
  <1> QED BY <1>2, <1>3, <1>4, <1>5, <1>6, Uncommitted

LEMMA StatementKeeps ==
  ASSUME Inv, NEW c \in Callbacks, NEW fails \in BOOLEAN, Statement(c, fails),
         faults' = faults \/ Fault
  PROVE  Inv'
  <1>1. /\ Progress(c, callback[c]) /\ Reached(callback[c])
        /\ callback[c] \in
             [pc : {"new", "address", "event", "suppress", "status", "commit", "over"},
             aborted : BOOLEAN, wrote : SUBSET {"event", "suppression", "status"},
             address : Addresses \cup {NoAddress}]
    BY CallbackFacts
  <1>2. CASE RecordEvent(c, fails)
    <2> DEFINE next == IF c[1] = "bounced" /\ callback[c].address # NoAddress
                       THEN "suppress" ELSE "status"
    <2>1. Progress(c, After(c, "event", fails, next)) /\ Reached(After(c, "event", fails, next))
      BY <1>1, <1>2 DEF RecordEvent, After, Progress, Reached
    <2>2. /\ Execute(c, "event", fails, next) /\ next \in {"suppress", "status", "commit"}
          /\ callback[c].pc \notin {"new", "over"}
          /\ UNCHANGED <<row, sends, mailed, worker, report, stored, subscriber, suppressed>>
      BY <1>2 DEF RecordEvent
    <2> HIDE DEF next
    <2> QED BY <2>1, <2>2, ExecuteKeeps
  <1>3. CASE Suppress(c, fails)
    <2>1. /\ Progress(c, After(c, "suppression", fails, "status"))
          /\ Reached(After(c, "suppression", fails, "status"))
      BY <1>1, <1>3 DEF Suppress, After, Progress, Reached
    <2> QED BY <1>3, <2>1, ExecuteKeeps DEF Suppress
  <1>4. CASE UpdateStatus(c, fails)
    <2> DEFINE refused == fails \/ c[1] = "opened"
    <2>1. /\ Progress(c, After(c, "status", refused, "commit"))
          /\ Reached(After(c, "status", refused, "commit"))
      BY <1>1, <1>4 DEF UpdateStatus, After, Progress, Reached
    <2>2. /\ Execute(c, "status", refused, "commit") /\ refused \in BOOLEAN
          /\ callback[c].pc \notin {"new", "over"} /\ worker # "marked"
          /\ \A d \in Callbacks \ {c} : "status" \notin callback[d].wrote
          /\ UNCHANGED <<row, sends, mailed, worker, report, stored, subscriber, suppressed>>
      BY <1>4 DEF UpdateStatus
    <2> HIDE DEF refused
    <2> QED BY <2>1, <2>2, ExecuteKeeps
  <1>5. CASE ReadAddress(c, fails)
    <2> DEFINE read == [callback[c] EXCEPT !.pc = "event", !.aborted = fails,
                          !.address = IF fails THEN NoAddress ELSE address]
    <2>1. callback[c].pc = "address" /\ callback[c].wrote = {}
      BY <1>1, <1>5 DEF ReadAddress, Progress
    <2>2. callback' = [callback EXCEPT ![c] = read]
      BY <1>5 DEF ReadAddress, Inv, TypeOK
    <2>3. read \in [pc : {"new", "address", "event", "suppress", "status", "commit", "over"},
                    aborted : BOOLEAN, wrote : SUBSET {"event", "suppression", "status"},
                    address : Addresses \cup {NoAddress}]
      BY <1>1, CallbackFacts
    <2>4. Progress(c, read) /\ Reached(read) /\ "status" \notin read.wrote
      BY <1>1, <2>1 DEF Progress, Reached
    <2>5. There /\ mailed # {} BY <2>1, CallbackFacts
    <2>6. UNCHANGED <<row, sends, mailed, worker, report, stored, subscriber, suppressed>>
      BY <1>5 DEF ReadAddress
    <2> HIDE DEF read
    <2> QED BY <2>1, <2>2, <2>3, <2>4, <2>5, <2>6, Uncommitted
  <1> QED BY <1>2, <1>3, <1>4, <1>5 DEF Statement

\* What is committed of a bounce is the event and the suppression, or neither.
LEMMA CommitKeeps ==
  ASSUME Inv, NEW c \in Callbacks, Commit(c)
  PROVE  Inv'
  <1> DEFINE over == [Open EXCEPT !.pc = "over", !.address = callback[c].address]
             wrote == IF callback[c].aborted THEN {} ELSE callback[c].wrote
             status == IF c[1] = "bounced" THEN "failed" ELSE c[1]
  <1>1. /\ callback[c].pc = "commit" /\ callback' = [callback EXCEPT ![c] = over]
        /\ stored' = [stored EXCEPT ![c] = IF "event" \in wrote THEN @ + 1 ELSE @]
        /\ suppressed' = suppressed \cup
                           (IF "suppression" \in wrote THEN {callback[c].address} ELSE {})
        /\ row' = IF "status" \in wrote THEN [row EXCEPT !.status = status] ELSE row
        /\ UNCHANGED <<sends, mailed, worker, report, address, changes, faults>>
    BY DEF Commit, End
  <1>2. over \in [pc : {"new", "address", "event", "suppress", "status", "commit", "over"},
                  aborted : BOOLEAN, wrote : SUBSET {"event", "suppression", "status"},
                  address : Addresses \cup {NoAddress}]
        /\ Progress(c, over) /\ Reached(over) /\ over.pc = "over" /\ "status" \notin over.wrote
        /\ over.address = callback[c].address
    BY CallbackFacts DEF Progress, Reached, Open
  <1>3. There /\ mailed # {} /\ ~(stored[c] > 0) BY <1>1, CallbackFacts
  <1>4. /\ "suppression" \in wrote <=>
             c[1] = "bounced" /\ "event" \in wrote /\ callback[c].address # NoAddress
        /\ c[1] = "opened" => "status" \notin wrote
        /\ changes = 0 /\ "event" \in wrote =>
             callback[c].address = address /\ address # NoAddress
    BY <1>1, <1>3, CallbackFacts DEF Progress, Reached
  <1>5. "status" \in wrote => status \in {"delivered", "failed"}
    BY <1>4, ReportBounds DEF Callbacks
  <1> HIDE DEF over, wrote, status
  <1>6. /\ row' \in [status : {"absent", "rolled back", "queued", "sent", "delivered", "failed",
                               "suppressed"}, id : mailed \cup {0}]
        /\ There'
    BY <1>1, <1>3, <1>5, Facts DEF There
  <1>7. stored' \in [Entries -> Nat] /\ \A d \in Callbacks : d # c => stored'[d] = stored[d]
    <2>1. stored \in [Entries -> Nat] /\ Callbacks \subseteq Entries BY Facts DEF Entries
    <2>2. (IF "event" \in wrote THEN stored[c] + 1 ELSE stored[c]) \in Nat BY <2>1
    <2> QED BY <1>1, <2>1, <2>2
  <1>8. stored'[c] = (IF "event" \in wrote THEN stored[c] + 1 ELSE stored[c]) /\ stored[c] \in Nat
    BY <1>1, Facts DEF Entries
  <1>9. \A s \in Sends : stored'[Report(s)] = stored[Report(s)]
    BY <1>1, Facts, EntriesAreApart DEF Entries
  <1>10. OnRecord' /\ BouncesAreWhole'
    <2>1. callback'[c] = over /\ \A d \in Callbacks : d # c => callback'[d] = callback[d]
      BY <1>1 DEF Inv, TypeOK
    <2>2. OnRecord' BY <1>2, <1>7, <2>1 DEF Inv, OnRecord
    <2> DEFINE added == IF c[1] = "bounced" /\ "event" \in wrote THEN {c} ELSE {}
    <2>3. c \notin Bounces /\ Bounces' = Bounces \cup added
      BY <1>3, <1>7, <1>8 DEF Bounces
    <2>4. {callback'[d].address : d \in Bounces'} =
            {callback[d].address : d \in Bounces} \cup {callback[d].address : d \in added}
      <3>1. \A d \in Bounces' : callback'[d].address = callback[d].address
        BY <1>2, <2>1 DEF Bounces
      <3> HIDE DEF added
      <3>2. {callback'[d].address : d \in Bounces'} = {callback[d].address : d \in Bounces'}
        BY <3>1
      <3> QED BY <2>3, <3>2
    <2>5. suppressed' = suppressed \cup ({callback[d].address : d \in added} \ {NoAddress})
      BY <1>1, <1>4
    <2>6. BouncesAreWhole BY CallbackFacts
    <2>7. suppressed' = {callback'[d].address : d \in Bounces'} \ {NoAddress}
      BY <2>4, <2>5, <2>6 DEF BouncesAreWhole
    <2>8. ASSUME Bounces' # {}, changes = 0 PROVE suppressed' = {address}
      <3>1. CASE added = {}
        BY <2>3, <2>5, <2>6, <2>8, <3>1 DEF BouncesAreWhole
      <3>2. CASE added # {}
        <4>1. {callback[d].address : d \in added} \ {NoAddress} = {address}
          BY <1>4, <2>8, <3>2
        <4>2. suppressed \subseteq {address}
          BY <2>6, <2>8 DEF BouncesAreWhole
        <4> QED BY <2>5, <4>1, <4>2
      <3> QED BY <3>1, <3>2
    <2>9. address' = address /\ changes' = changes BY <1>1
    <2> HIDE DEF added
    <2> QED BY <2>2, <2>7, <2>8, <2>9 DEF BouncesAreWhole
  <1>11. suppressed' \subseteq Addresses /\ address \in Addresses \cup {NoAddress}
    BY <1>1, <1>4, CallbackFacts
  <1>12. Owes(c, over)
    BY <1>1, <1>2, <1>3, <1>6, <1>7, <1>9, <1>10, <1>11 DEF Owes
  <1> QED BY <1>12, CallbackKeeps

-----------------------------------------------------------------------------
(* The aggregator leaves all else alone.                                    *)

LEMMA AggregatorKeeps ==
  ASSUME Inv, NEW s \in Sends, NEW state \in {"queued", "stored", "acked"}, NEW copies \in Nat,
         report' = [report EXCEPT ![s] = state],
         stored' = [stored EXCEPT ![Report(s)] = copies],
         UNCHANGED <<row, sends, mailed, worker, callback, subscriber, suppressed>>,
         faults' = faults \/ Fault,
         report[s] # "none",
         state = "queued" => copies <= faults',
         state # "queued" => copies > 0 /\ copies <= 1 + faults'
  PROVE  Inv'
  <1>1. faults' \in 0 .. MaxFaults /\ faults' >= faults /\ faults \in Nat /\ faults' \in Nat
    <2>1. faults \in 0 .. MaxFaults /\ faults \in Nat /\ MaxFaults \in Nat
      BY Facts, ReportBounds
    <2>2. faults' \in 0 .. MaxFaults /\ faults' >= faults BY <2>1, FaultBound
    <2> QED BY <2>1, <2>2
  <1>2. stored' \in [Entries -> Nat] /\ report' \in [Sends -> {"none", "queued", "stored", "acked"}]
    BY Facts DEF Entries
  <1>3. TypeOK' BY <1>1, <1>2 DEF Inv, TypeOK, There, RowIsFree
  <1>4. \A c \in Callbacks : stored'[c] = stored[c]
    BY Facts, EntriesAreApart DEF Entries
  <1>5. BouncesAreWhole'
    <2>1. Bounces' = Bounces BY <1>4 DEF Bounces
    <2> QED BY <2>1 DEF Inv, BouncesAreWhole
  <1>6. OfARow' /\ OnRecord' BY <1>4 DEF Inv, OfARow, OnRecord, There
  <1>7. \A c \in Callbacks : Progress(c, callback[c])' /\ Reached(callback[c])'
    BY DEF Inv, Progress, Reached
  <1>8. ASSUME NEW t \in Sends PROVE Copies(t)'
    <2>1. Copies(t) /\ stored[Report(t)] \in Nat BY Facts DEF Inv, Entries
    <2>2. CASE t = s
      <3>1. report'[t] = state /\ stored'[Report(t)] = copies
        BY <2>2, Facts DEF Entries
      <3>2. ~(t > sends') BY <2>1, <2>2 DEF Copies
      <3> QED BY <3>1, <3>2 DEF Copies
    <2>3. CASE t # s
      <3>1. report'[t] = report[t] /\ stored'[Report(t)] = stored[Report(t)]
        BY <2>3, Facts, EntriesAreApart DEF Entries
      <3> QED BY <1>1, <2>1, <3>1 DEF Copies
    <2> QED BY <2>2, <2>3
  <1>9. Unreported' BY Facts DEF Unreported
  <1> QED BY <1>3, <1>5, <1>6, <1>7, <1>8, <1>9 DEF Inv

LEMMA AggregateKeeps ==
  ASSUME Inv, NEW s \in Sends, Aggregate(s) \/ ReportComesBack(s)
  PROVE  Inv'
  <1> DEFINE copies == stored[Report(s)]
  <1>1. copies \in Nat /\ stored = [stored EXCEPT ![Report(s)] = copies]
    BY Facts DEF Entries
  <1>2. Copies(s) /\ faults \in Nat BY Facts DEF Inv
  <1>3. CASE Handle(s)
    <2>1. copies + 1 \in Nat /\ copies + 1 > 0 /\ copies + 1 <= 1 + faults'
      BY <1>1, <1>2, <1>3 DEF Handle, Copies
    <2>2. stored' = [stored EXCEPT ![Report(s)] = copies + 1] BY <1>3 DEF Handle
    <2> HIDE DEF copies
    <2> QED BY <1>3, <2>1, <2>2, AggregatorKeeps DEF Handle
  <1>4. CASE Acknowledge(s)
    <2>1. copies > 0 /\ copies <= 1 + faults'
      BY <1>2, <1>4 DEF Acknowledge, Copies
    <2>2. stored' = [stored EXCEPT ![Report(s)] = copies] BY <1>1, <1>4 DEF Acknowledge
    <2> HIDE DEF copies
    <2> QED BY <1>1, <1>4, <2>1, <2>2, AggregatorKeeps DEF Acknowledge
  <1>5. CASE ReportComesBack(s)
    <2>1. copies <= faults'
      <3>1. faults \in 0 .. MaxFaults BY Facts
      <3>2. faults' = faults + 1 BY <1>5, <3>1, FaultBound DEF ReportComesBack
      <3>3. copies <= 1 + faults BY <1>2, <1>5 DEF ReportComesBack, Copies
      <3> QED BY <1>1, <1>2, <3>2, <3>3
    <2>2. stored' = [stored EXCEPT ![Report(s)] = copies] BY <1>1, <1>5 DEF ReportComesBack
    <2> HIDE DEF copies
    <2> QED BY <1>1, <1>5, <2>1, <2>2, AggregatorKeeps DEF ReportComesBack
  <1> QED BY <1>3, <1>4, <1>5 DEF Aggregate

-----------------------------------------------------------------------------
(* A change of the address undoes nothing that is on record.                *)

LEMMA ChangeKeeps ==
  ASSUME Inv, NEW a \in Addresses \cup {NoAddress}, ChangeAddress(a)
  PROVE  Inv'
  <1>1. changes' \in 0 .. MaxChanges /\ changes' # 0
    <2>1. changes \in 0 .. MaxChanges BY DEF Inv, TypeOK
    <2> QED BY <2>1, ReportBounds DEF ChangeAddress
  <1>2. TypeOK' BY <1>1 DEF Inv, TypeOK, ChangeAddress, There, RowIsFree
  <1>3. Bounces' = Bounces BY DEF Bounces, ChangeAddress
  <1>4. BouncesAreWhole' BY <1>1, <1>3 DEF Inv, BouncesAreWhole, ChangeAddress
  <1>5. OfARow' /\ OnRecord' BY <1>1 DEF Inv, OfARow, OnRecord, There, ChangeAddress
  <1>6. \A c \in Callbacks : Progress(c, callback[c])' /\ Reached(callback[c])'
    BY <1>1 DEF Inv, Progress, Reached, ChangeAddress
  <1>7. (\A s \in Sends : Copies(s)') /\ Unreported'
    BY DEF Inv, Copies, Unreported, ChangeAddress
  <1> QED BY <1>2, <1>4, <1>5, <1>6, <1>7 DEF Inv

-----------------------------------------------------------------------------
LEMMA NextInv == Inv /\ [Next]_vars => Inv'
  <1> SUFFICES ASSUME Inv, [Next]_vars PROVE Inv'
    OBVIOUS
  <1>1. ASSUME EngineCommits \/ EngineRollsBack \/ Work \/ ReportLost \/ WorkerFails \/ JobComesBack
        PROVE  Inv'
    BY <1>1, EngineKeeps, SendKeeps, WriteKeeps, RetryKeeps, ReportKeeps DEF Work
  <1>2. ASSUME NEW c \in Callbacks, LookUp(c) PROVE Inv'
    BY <1>2, LookUpKeeps
  <1>3. ASSUME NEW c \in Callbacks, Process(c) PROVE Inv'
    BY <1>3, StatementKeeps, CommitKeeps DEF Process
  <1>4. ASSUME NEW c \in Callbacks, Fault /\ Statement(c, TRUE) PROVE Inv'
    BY <1>4, StatementKeeps
  <1>5. ASSUME NEW c \in Callbacks, CallbackLost(c) PROVE Inv'
    BY <1>5, EndKeeps DEF CallbackLost
  <1>8. ASSUME NEW a \in Addresses \cup {NoAddress}, ChangeAddress(a) PROVE Inv'
    BY <1>8, ChangeKeeps
  <1>6. ASSUME NEW s \in Sends, Aggregate(s) \/ ReportComesBack(s) PROVE Inv'
    BY <1>6, AggregateKeeps
  <1>7. CASE UNCHANGED vars
    <2>1. Bounces' = Bounces BY <1>7 DEF vars, Bounces
    <2>2. BouncesAreWhole' BY <1>7, <2>1 DEF vars, Inv, BouncesAreWhole
    <2>3. (\A c \in Callbacks : Progress(c, callback[c])' /\ Reached(callback[c])')
          /\ TypeOK'
      BY <1>7 DEF vars, Inv, TypeOK, There, RowIsFree, Progress, Reached
    <2> QED BY <1>7, <2>2, <2>3 DEF vars, Inv, There, OfARow, OnRecord, Copies, Unreported
  <1> QED BY <1>1, <1>2, <1>3, <1>4, <1>5, <1>6, <1>7, <1>8 DEF Next

LEMMA Invariance == Spec => []Inv
  BY InitInv, NextInv, PTL DEF Spec

-----------------------------------------------------------------------------
\* Type correctness: the row's message id is that of a delivery the provider
\* took, and at most one open transaction has updated the row.
THEOREM ReportsTypeCorrect == Spec => []TypeOK
  <1>1. Inv => TypeOK BY DEF Inv
  <1> QED BY <1>1, Invariance, PTL

\* InboundEmailWebhook records a bounce and suppresses the address it has read,
\* or neither, whichever of its statements fails and whatever becomes of the
\* server; as long as the subscriber's address stays, that is the address the
\* e-mail went to.
THEOREM BouncesWhole == Spec => []BouncesAreWhole
  <1>1. Inv => BouncesAreWhole BY DEF Inv
  <1> QED BY <1>1, Invariance, PTL

\* The aggregator acknowledges what it has stored, and stores a report once
\* and once more per fault.
THEOREM ReportsOnce == Spec => []ReportsAreStoredOnce
  <1>1. Inv => ReportsAreStoredOnce
    <2> SUFFICES ASSUME Inv, NEW s \in Sends
                 PROVE  /\ report[s] = "acked" => stored[Report(s)] > 0
                        /\ stored[Report(s)] <= 1 + faults
      BY DEF ReportsAreStoredOnce
    <2>1. Copies(s) /\ report[s] \in {"none", "queued", "stored", "acked"}
          /\ stored[Report(s)] \in Nat /\ faults \in Nat
      BY Facts DEF Inv, Entries
    <2> QED BY <2>1 DEF Copies
  <1> QED BY <1>1, Invariance, PTL

-----------------------------------------------------------------------------
\* Without a fault the job is handled once; a callback finds its notification,
\* and so can write an outcome, only when the worker is done with the row.
Handled ==
  faults = 0 =>
    /\ row.id # 0 => worker = "done"
    /\ row.status \in {"delivered", "failed"} => worker = "done"
    /\ \A c \in Callbacks : callback[c].pc \notin {"new", "over"} => worker = "done"

LEMMA HandledInit == Init => Handled
  <1>1. Init => \A c \in Callbacks : callback[c].pc = "new" BY DEF Init, Open
  <1> QED BY <1>1 DEF Init, Handled

\* A step of the callback c, which was found at its first.
LEMMA CallbackGoesOn ==
  ASSUME Inv, NEW c \in Callbacks,
         \/ LookUp(c) \/ Process(c) \/ (Fault /\ Statement(c, TRUE)) \/ CallbackLost(c)
  PROVE  /\ worker' = worker
         /\ faults' = faults \/ faults' = faults + 1
         /\ \A d \in Callbacks : callback'[d].pc \notin {"new", "over"} =>
              \/ callback[d].pc \notin {"new", "over"}
              \/ row.id = d[2] /\ row' = row
         /\ row' = row \/ (callback[c].pc = "commit" /\ row'.id = row.id
                             /\ row'.status \in {"delivered", "failed"})
  <1>1. callback \in [Callbacks ->
          [pc : {"new", "address", "event", "suppress", "status", "commit", "over"},
           aborted : BOOLEAN, wrote : SUBSET {"event", "suppression", "status"},
           address : Addresses \cup {NoAddress}]]
    BY DEF Inv, TypeOK
  <1>2. CASE LookUp(c)
    <2>1. \A d \in Callbacks : d = c \/ callback'[d] = callback[d]
      BY <1>1, <1>2 DEF LookUp, End
    <2>2. ASSUME End(c) PROVE callback'[c].pc = "over"
      BY <1>1, <2>2 DEF End, Open
    <2>3. row.id = c[2] \/ callback'[c].pc = "over"
      BY <1>2, <2>2 DEF LookUp
    <2> QED BY <1>2, <2>1, <2>3 DEF LookUp
  <1>3. CASE Commit(c)
    <2>1. c[1] = "opened" => "status" \notin callback[c].wrote
      BY DEF Inv, Progress
    <2>2. c[1] \in {"delivered", "bounced", "opened"}
      BY ReportBounds DEF Callbacks
    <2>3. row \in [status : {"absent", "rolled back", "queued", "sent", "delivered", "failed",
                            "suppressed"}, id : mailed \cup {0}]
      BY DEF Inv, TypeOK
    <2>4. \A d \in Callbacks : d = c \/ callback'[d] = callback[d]
      BY <1>1, <1>3 DEF Commit, End
    <2>5. callback'[c].pc = "over"
      BY <1>1, <1>3 DEF Commit, End, Open
    <2>6. row' = row \/ (row'.id = row.id /\ row'.status \in {"delivered", "failed"})
      BY <1>3, <2>1, <2>2, <2>3 DEF Commit
    <2> QED BY <1>3, <2>4, <2>5, <2>6 DEF Commit
  <1>4. ASSUME NEW fails \in BOOLEAN, Statement(c, fails),
               faults' = faults \/ faults' = faults + 1
        PROVE  /\ UNCHANGED <<row, worker>> /\ callback[c].pc \notin {"new", "over"}
               /\ \A d \in Callbacks : d = c \/ callback'[d] = callback[d]
    BY <1>1, <1>4 DEF Statement, ReadAddress, RecordEvent, Suppress, UpdateStatus, Execute
  <1>5. CASE Process(c) /\ ~Commit(c)
    BY <1>4, <1>5 DEF Process
  <1>6. CASE Fault /\ Statement(c, TRUE)
    BY <1>4, <1>6 DEF Fault
  <1>7. CASE CallbackLost(c)
    BY <1>1, <1>7 DEF CallbackLost, End, Open, Fault
  <1> QED BY <1>2, <1>3, <1>5, <1>6, <1>7

LEMMA HandledNext == Inv /\ Handled /\ [Next]_vars => Handled'
  <1> SUFFICES ASSUME Inv, Handled, [Next]_vars, faults' = 0
               PROVE  /\ row'.id # 0 => worker' = "done"
                      /\ row'.status \in {"delivered", "failed"} => worker' = "done"
                      /\ \A c \in Callbacks :
                           callback'[c].pc \notin {"new", "over"} => worker' = "done"
    BY DEF Handled
  <1>1. faults \in Nat /\ 0 # faults + 1
    <2>1. faults \in 0 .. MaxFaults BY DEF Inv, TypeOK
    <2> QED BY <2>1, ReportBounds
  <1>2. CASE EngineCommits \/ EngineRollsBack \/ Work
    <2>1. row \in [status : {"absent", "rolled back", "queued", "sent", "delivered", "failed",
                            "suppressed"}, id : mailed \cup {0}]
      BY DEF Inv, TypeOK
    <2>2. faults = 0
      BY <1>1, <1>2 DEF EngineCommits, EngineRollsBack, Work, Send, FetchFails, MarkSuppressed,
         CommitSuppressed, RecordDelivery, WriteSent, Fault
    <2> QED BY <1>2, <2>1, <2>2 DEF Handled, EngineCommits, EngineRollsBack, Work, Send,
            FetchFails, MarkSuppressed, CommitSuppressed, RecordDelivery, WriteSent
  <1>3. CASE ReportLost \/ WorkerFails \/ JobComesBack
    BY <1>1, <1>3 DEF ReportLost, WorkerFails, JobComesBack, Fault
  <1>4. ASSUME NEW c \in Callbacks,
               \/ LookUp(c) \/ Process(c) \/ (Fault /\ Statement(c, TRUE)) \/ CallbackLost(c)
        PROVE  /\ row'.id # 0 => worker' = "done"
               /\ row'.status \in {"delivered", "failed"} => worker' = "done"
               /\ \A d \in Callbacks :
                    callback'[d].pc \notin {"new", "over"} => worker' = "done"
    <2>1. faults = 0
      BY <1>1, <1>4, CallbackGoesOn
    <2>2. \A d \in Callbacks : d[2] # 0
      BY ReportBounds DEF Callbacks, Sends
    <2> QED BY <1>4, <2>1, <2>2, CallbackGoesOn DEF Handled
  <1>5. ASSUME NEW s \in Sends, Aggregate(s) \/ ReportComesBack(s)
        PROVE  UNCHANGED <<row, worker, callback>> /\ faults = 0
    BY <1>1, <1>5 DEF Aggregate, Handle, Acknowledge, ReportComesBack, Fault
  <1>6. ASSUME NEW a \in Addresses \cup {NoAddress}, ChangeAddress(a)
        PROVE  UNCHANGED <<row, worker, callback>> /\ faults = 0
    BY <1>6 DEF ChangeAddress
  <1>7. CASE UNCHANGED vars
    BY <1>7 DEF vars, Handled
  <1> QED BY <1>2, <1>3, <1>4, <1>5, <1>6, <1>7 DEF Next, Handled

\* Without a fault the outcome that a callback has written stays, whenever the
\* worker's UPDATE to 'sent' comes: that one has been, when the provider's
\* message id leads from the callback to the notification.
THEOREM OutcomeKept == Spec => OutcomeIsKept
  <1> DEFINE Kept == faults = 0 /\ row.status \in {"delivered", "failed"}
                       => row'.status \in {"delivered", "failed"}
  <1>1. Inv /\ Handled /\ [Next]_vars => Kept
    <2> SUFFICES ASSUME Inv, Handled, [Next]_vars, faults = 0,
                        row.status \in {"delivered", "failed"}
                 PROVE  row'.status \in {"delivered", "failed"}
      OBVIOUS
    <2>1. worker = "done"
      BY DEF Handled
    <2>2. CASE EngineCommits \/ EngineRollsBack \/ Work \/ ReportLost \/ WorkerFails
                 \/ JobComesBack
      BY <2>1, <2>2 DEF EngineCommits, EngineRollsBack, Work, Send, FetchFails, MarkSuppressed,
         CommitSuppressed, RecordDelivery, WriteSent, ReportLost, WorkerFails, JobComesBack
    <2>3. ASSUME NEW c \in Callbacks,
                 \/ LookUp(c) \/ Process(c) \/ (Fault /\ Statement(c, TRUE))
                 \/ CallbackLost(c)
          PROVE  row'.status \in {"delivered", "failed"}
      BY <2>3, CallbackGoesOn
    <2>4. ASSUME NEW s \in Sends, Aggregate(s) \/ ReportComesBack(s)
          PROVE  row' = row
      BY <2>4 DEF Aggregate, Handle, Acknowledge, ReportComesBack
    <2>5. CASE UNCHANGED vars
      BY <2>5 DEF vars
    <2>6. ASSUME NEW a \in Addresses \cup {NoAddress}, ChangeAddress(a)
          PROVE  row' = row
      BY <2>6 DEF ChangeAddress
    <2> QED BY <2>2, <2>3, <2>4, <2>5, <2>6 DEF Next
  <1>2. Inv /\ Handled /\ [Next]_vars => [Kept]_vars
    BY <1>1
  <1> QED BY <1>2, InitInv, NextInv, HandledInit, HandledNext, PTL DEF Spec, OutcomeIsKept
=============================================================================
