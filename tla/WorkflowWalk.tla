---------------------------- MODULE WorkflowWalk ----------------------------
(***************************************************************************)
(* One call of Engine.executeFrom, from the index it is given to its       *)
(* return, for any workflow and payload out of a set.  What the call does  *)
(* to the database and the message bus is in WorkflowRuns; here only the   *)
(* walk counts: where it goes, which steps it dispatches, how it ends.     *)
(***************************************************************************)
EXTENDS WorkflowSteps, Conditions, FiniteSets

CONSTANTS Calls  \* the calls explored: [steps, payload, start]; start is the
                 \* run's current_step_index, and the condition of a step is
                 \* a record [path, op, lit] that stands for its text

Condition == [path : Seq(Alphabet), op : Seq(Alphabet), lit : Seq(Alphabet)]

Step == [id : STRING, type : StepTypes, next : STRING, cond : Condition,
         onTrue : STRING, onFalse : STRING]

\* A workflow is any list of steps and a payload any document: whatever a
\* condition looks up in it is a value.
ASSUME CallsAssumption ==
  \A call \in Calls :
    /\ call.steps \in Seq(Step) /\ call.start \in Int
    /\ \A k \in DOMAIN call.steps :
         IsValue(LookupPath(call.payload, call.steps[k].cond.path))

VARIABLES steps, payload, start,   \* the arguments of the call
          holding,                 \* the workflow's conditions that hold of the payload
          i, visited,              \* its loop variables
          path,                    \* the indexes of the steps executed so far
          outcome                  \* "walking", or how the call returned

vars == <<steps, payload, start, holding, i, visited, path, outcome>>
args == <<steps, payload, start, holding>>

\* The expression as it is written.
Expression(c) == c.path \o c.op \o c.lit

First == IF start < 0 THEN 0 ELSE start

Init ==
  /\ \E call \in Calls :
       steps = call.steps /\ payload = call.payload /\ start = call.start
  /\ holding = {c \in {steps[k].cond : k \in DOMAIN steps} :
                  EvalCondition(Expression(c), payload)}
  /\ i = First
  /\ visited = 0
  /\ path = << >>
  /\ outcome = "walking"

InLoop == outcome = "walking" /\ i < Len(steps)

\* Mutants of ExceedMaxSteps: the guard leaves the loop, or only skips a step.
ExceedMaxStepsByBreak ==
  /\ InLoop
  /\ visited > MaxIterations(steps)
  /\ outcome' = "completed"
  /\ UNCHANGED <<args, i, visited, path>>

ExceedMaxStepsByContinue ==
  /\ InLoop
  /\ visited > MaxIterations(steps)
  /\ UNCHANGED vars

\* failRun
ExceedMaxSteps ==
  /\ InLoop
  /\ visited > MaxIterations(steps)
  /\ outcome' = "failed"
  /\ UNCHANGED <<args, i, visited, path>>

\* A channel, condition or unknown step: the loop goes on.
WalkOn ==
  /\ InLoop
  /\ visited <= MaxIterations(steps)
  /\ steps[i + 1].type # "delay"
  /\ path' = Append(path, i)
  /\ i' = Successor(steps, i, holding)
  /\ visited' = visited + 1
  /\ UNCHANGED <<args, outcome>>

\* A delay step: the index to resume from is stored and the call returns.
PauseAtDelay ==
  /\ InLoop
  /\ visited <= MaxIterations(steps)
  /\ steps[i + 1].type = "delay"
  /\ path' = Append(path, i)
  /\ i' = Successor(steps, i, holding)
  /\ outcome' = "paused"
  /\ UNCHANGED <<args, visited>>

ReachEnd ==
  /\ outcome = "walking"
  /\ i >= Len(steps)
  /\ outcome' = "completed"
  /\ UNCHANGED <<args, i, visited, path>>

Return ==
  /\ outcome # "walking"
  /\ UNCHANGED vars

Next == ExceedMaxSteps \/ WalkOn \/ PauseAtDelay \/ ReachEnd \/ Return

Spec == Init /\ [][Next]_vars /\ WF_vars(Next)

-----------------------------------------------------------------------------
\* The reference: the indexes reachable from where the call starts, following
\* the successor of every step that is not a delay, as the least set closed
\* under it.
Indexes == {First} \cup 0 .. Len(steps)

Closed(Q) ==
  \A k \in Q : k < Len(steps) /\ steps[k + 1].type # "delay"
               => Successor(steps, k, holding) \in Q

Reached == {k \in Indexes : \A Q \in SUBSET Indexes : First \in Q /\ Closed(Q) => k \in Q}

\* What the walk must come to, decided on what is reached and not by walking.
ExpectedOutcome ==
  IF \E k \in Reached : k >= Len(steps) THEN "completed"
  ELSE IF \E k \in Reached : steps[k + 1].type = "delay" THEN "paused"
  ELSE "failed"

\* The cycle guard of engine.go:201-208 stops exactly the walks that cycle:
\* a call fails only if no delay and no end of the workflow can be reached
\* from its start, and it reaches the one there is otherwise.  Neither a
\* workflow that would have finished is failed, nor a cycle let through.
OutcomeIsExact == outcome # "walking" => outcome = ExpectedOutcome

\* A call that does not fail executes no step twice: a subscriber gets a
\* channel step's notification at most once per call of executeFrom, however
\* the branches of the workflow jump.
NoStepTwiceUnlessFailing ==
  outcome \in {"paused", "completed"} =>
    \A k, l \in DOMAIN path : path[k] = path[l] => k = l

\* The condition that the walk has come to.
Asked ==
  {steps[k].cond : k \in {l \in DOMAIN steps : /\ outcome = "walking" /\ l = i + 1
                                              /\ steps[l].type = "condition"}}
Holds(field, op, lit) == EvalCondition(field \o op \o lit, payload)

\* No operator starts or ends in the text.
Plain(text) == \A k \in DOMAIN text : text[k] \notin {"=", "!", "<", ">"}

\* The six operators agree with one another, whatever is compared (a missing
\* field, a number with a text, a text that reads like a number): one of <, ==
\* and > holds, != is the opposite of ==, <= of > and >= of <.  Only NaN, which
\* a payload or a literal can spell, is outside the order; and a path or a
\* literal may hold an operator that is found first (condition.go:34-36).
OperatorsAgree ==
  \A c \in Asked :
    LET holds(op) == Holds(c.path, op, c.lit)
        less == holds(<<"<">>)  equal == holds(<<"=", "=">>)  greater == holds(<<">">>)
        ordered == /\ NaN \notin ToNumber(LookupPath(payload, c.path)) \cup ParseNumber(c.lit)
                   /\ Plain(c.path) /\ Plain(c.lit)
    IN  ordered =>
          /\ less => ~equal /\ ~greater
          /\ equal => ~greater
          /\ less \/ equal \/ greater
          /\ holds(<<"!", "=">>) = ~equal
          /\ holds(<<"<", "=">>) = ~greater
          /\ holds(<<">", "=">>) = ~less

\* A text of the payload is equal to its own quotation and to no other,
\* whatever that holds: "==" is looked for before any operator that
\* could stand in it.
QuotationIsExact ==
  \A c \in Asked :
    LET value == LookupPath(payload, c.path)
    IN  value.type = "string" /\ Plain(c.path) /\ c.op = <<"=", "=">> /\ c.lit # << >>
          => (Holds(c.path, c.op, Quoted(c.lit)) <=> value.is = c.lit)

ComparisonsAgree == OperatorsAgree /\ QuotationIsExact

\* Every call returns, cycles or not.
Returns == <>(outcome # "walking")
=============================================================================
