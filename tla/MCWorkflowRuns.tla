--------------------------- MODULE MCWorkflowRuns ---------------------------
(***************************************************************************)
(* The instances of WorkflowRuns that TLC checks.  The workflows are small *)
(* and chosen for what they make the engine do.                            *)
(***************************************************************************)
EXTENDS WorkflowRuns, TLC

CONSTANTS e1, e2, s1, s2, r1, r2, ev1, ev2

Step(id, type) == [id |-> id, type |-> type, next |-> Unset, cond |-> "vip",
                   onTrue |-> Unset, onFalse |-> Unset]

\* One delay between two notifications.
Reminder == <<Step("a", "channel"), Step("b", "delay"), Step("c", "channel")>>

\* Two delays, each followed by a notification.
Drip == <<Step("a", "delay"), Step("b", "channel"),
          Step("c", "delay"), Step("d", "channel")>>

\* A shorter and a cyclic text for a workflow that is edited.
OneShot == <<Step("a", "channel")>>
Spin == <<Step("a", "other"), Step("b", "other"), [Step("c", "condition") EXCEPT !.onFalse = "c"]>>

DripOnly == [v \in {1} |-> Drip]
ReminderEdited == [v \in {1, 2, 3} |-> <<Reminder, OneShot, Spin>>[v]]

OneVersion == {1}
ThreeVersions == {1, 2, 3}

PlainPayload == [ev \in {ev1} |-> {}]
Symmetry == Permutations(Runs) \cup Permutations(Engines)
              \cup Permutations(Schedulers)
=============================================================================
