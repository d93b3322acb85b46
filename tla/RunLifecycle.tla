---------------------------- MODULE RunLifecycle ---------------------------
(***************************************************************************)
(* What a tenant may rely on, whatever engines, schedulers and the bus do  *)
(* to keep it: an accepted event stays pending until a run of it is on     *)
(* record or no active workflow wanted it, a run belongs to one event from *)
(* its first appearance on, and ends once.  Only if the workflow is edited *)
(* may a run that has ended be recorded as ended otherwise, as two engines *)
(* that handle the same message may have read different texts of it; even  *)
(* then it is never running again.                                         *)
(***************************************************************************)
CONSTANTS Events, Runs, NoEvent

VARIABLES
  accepted,  \* events answered with 202
  pending,   \* those the pipeline still holds
  ignored,   \* those no active workflow matched
  status,    \* status[r]: of the run r, "absent" before there is one
  event,     \* event[r]: what started it
  changed    \* an operator has edited, paused or activated the workflow

vars == <<accepted, pending, ignored, status, event, changed>>

Ended == {"completed", "failed"}

Init ==
  /\ accepted = {} /\ pending = {} /\ ignored = {}
  /\ status = [r \in Runs |-> "absent"]
  /\ event = [r \in Runs |-> NoEvent]
  /\ changed = FALSE

Change ==
  /\ changed' = TRUE
  /\ UNCHANGED <<accepted, pending, ignored, status, event>>

Accept(ev) ==
  /\ ev \notin accepted
  /\ accepted' = accepted \cup {ev} /\ pending' = pending \cup {ev}
  /\ UNCHANGED <<ignored, status, event, changed>>

Ignore(ev) ==
  /\ ev \in accepted /\ ignored' = ignored \cup {ev}
  /\ UNCHANGED <<accepted, pending, status, event, changed>>

\* A run is on record in one step, with all it has done till its first delay.
Start(r, ev) ==
  /\ status[r] = "absent" /\ ev \in accepted
  /\ \E s \in Ended \cup {"running"} : status' = [status EXCEPT ![r] = s]
  /\ event' = [event EXCEPT ![r] = ev]
  /\ UNCHANGED <<accepted, pending, ignored, changed>>

End(r) ==
  /\ status[r] = "running" \/ (changed /\ status[r] \in Ended)
  /\ \E s \in Ended : status' = [status EXCEPT ![r] = s]
  /\ UNCHANGED <<accepted, pending, ignored, event, changed>>

Settle(ev) ==
  /\ ev \in pending
  /\ ev \in ignored \/ \E r \in Runs : event[r] = ev
  /\ pending' = pending \ {ev}
  /\ UNCHANGED <<accepted, ignored, status, event, changed>>

Next ==
  \/ \E ev \in Events : Accept(ev) \/ Ignore(ev) \/ Settle(ev) \/ \E r \in Runs : Start(r, ev)
  \/ \E r \in Runs : End(r)
  \/ Change

Spec == Init /\ [][Next]_vars
=============================================================================
