--------------------------- MODULE WorkflowSteps ---------------------------
(***************************************************************************)
(* The pure part of domains/workflows/engine: what a workflow step is, how *)
(* the engine finds the index of the step to run next, and the guard that  *)
(* is meant to stop a cycle.  Indexes are those of the Go slice: step i of *)
(* a workflow is steps[i + 1] of the TLA+ sequence.                        *)
(*                                                                         *)
(* The expression of a condition step is a name; a payload is the set of   *)
(* names that EvalCondition evaluates to true on it (an expression that    *)
(* fails to evaluate is false, so it is simply not in the set).            *)
(***************************************************************************)
EXTENDS Naturals, Sequences

\* The empty string: a step without an id, a reference that is not set.
Unset == ""

StepTypes == {"channel", "delay", "condition", "other"}

\* idxByID: an id that two steps carry names the later of them.
Knows(steps, id) == id # Unset /\ \E k \in DOMAIN steps : steps[k].id = id

IdxByID(steps, id) ==
  (CHOOSE k \in DOMAIN steps :
     /\ steps[k].id = id
     /\ \A l \in DOMAIN steps : steps[l].id = id => l <= k) - 1

\* nextIndex: an unknown next_step is ignored.
NextIndex(steps, i) ==
  LET next == steps[i + 1].next
  IN  IF Knows(steps, next) THEN IdxByID(steps, next) ELSE i + 1

\* A condition step falls through when the branch it takes has no target,
\* and ends the run when the target is unknown.
BranchIndex(steps, i, payload) ==
  LET step   == steps[i + 1]
      target == IF step.cond \in payload THEN step.onTrue ELSE step.onFalse
  IN  IF target = Unset THEN i + 1
      ELSE IF Knows(steps, target) THEN IdxByID(steps, target)
      ELSE Len(steps)

\* The index executeFrom moves to after step i, of whatever type it is; a
\* delay step stores it in the run.
Successor(steps, i, payload) ==
  CASE steps[i + 1].type \in {"channel", "delay"} -> NextIndex(steps, i)
    [] steps[i + 1].type = "condition"            -> BranchIndex(steps, i, payload)
    [] OTHER                                      -> i + 1

\* Mutant of MaxIterations: too few for a long workflow without a cycle.
MaxIterationsTooFew(steps) == Len(steps) \div 2

MaxIterations(steps) == Len(steps) * 2 + 10
=============================================================================
