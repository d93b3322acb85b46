------------------------- MODULE WorkflowWalkProofs -------------------------
(***************************************************************************)
(* Theorems about WorkflowWalk, for every list of steps, every payload and *)
(* every index to start from: a call of executeFrom fails exactly on the   *)
(* walks that cycle, executes no step twice otherwise, and finds that the  *)
(* operators of a condition agree with one another.                        *)
(***************************************************************************)
EXTENDS WorkflowWalk, WorkflowStepsProofs, SequenceTheorems

\* The walk as a function: a delay step leaves it.
Goes == [k \in Below(Len(steps)) |->
           IF steps[k + 1].type = "delay" THEN Len(steps) ELSE Successor(steps, k, holding)]

TypeInv ==
  /\ steps \in Seq(Step) /\ start \in Int
  /\ i \in Nat /\ visited \in Nat /\ path \in Seq(Nat)
  /\ outcome \in {"walking", "paused", "completed", "failed"}

\* The walk from an index ends: it comes to a delay or to the end of the steps.
Ends(k) == k \in Ending(Goes, Len(steps))

Behind == {path[k] : k \in DOMAIN path} \cup {i}

\* The walk has left no step but for its successor, so that what it has
\* executed, once it stops at a delay, is closed; and every closed set has the
\* index it is at.  If it ends it will not come back to a step it has executed,
\* and so it has executed no more of them than there are.
Walking ==
  /\ visited = Len(path)
  /\ First \in Behind
  /\ \A k \in DOMAIN path : /\ path[k] < Len(steps) /\ steps[path[k] + 1].type # "delay"
                            /\ Successor(steps, path[k], holding) \in Behind
  /\ \A Q \in SUBSET Indexes : First \in Q /\ Closed(Q) => i \in Q
  /\ Ends(First) <=> Ends(i)
  /\ Ends(First) =>
       /\ \A k \in DOMAIN path : path[k] \notin Orbit(Goes, Len(steps), i)
       /\ \A k, l \in DOMAIN path : path[k] = path[l] => k = l
       /\ Len(path) + Cardinality(Orbit(Goes, Len(steps), i)) <= Len(steps)

WalkInv ==
  /\ TypeInv
  /\ outcome = "walking" => Walking
  /\ OutcomeIsExact
  /\ NoStepTwiceUnlessFailing

-----------------------------------------------------------------------------
\* Steps are counted from 1.
LEMMA Lengths ==
  ASSUME steps \in Seq(Step)
  PROVE  Len(steps) \in Nat /\ DOMAIN steps = 1 .. Len(steps)
OBVIOUS

\* Wherever the walk is, it goes to a step or past the last one.
LEMMA GoesType == steps \in Seq(Step) => Goes \in Moves(Len(steps))
<1> SUFFICES ASSUME steps \in Seq(Step) PROVE Goes \in Moves(Len(steps))
  OBVIOUS
<1>1. Len(steps) \in Nat /\ DOMAIN steps = 1 .. Len(steps)
  BY Lengths
<1>2. ASSUME NEW k \in Below(Len(steps)) PROVE Successor(steps, k, holding) \in Nat
  BY <1>1, SuccessorType DEF Below
<1> QED BY <1>1, <1>2 DEF Goes, Moves

\* A call begins with its arguments and at an index.
LEMMA TypeInit == Init => TypeInv
BY CallsAssumption DEF Init, TypeInv, First

\* No step of a call leaves the types.
LEMMA TypeNext == TypeInv /\ [Next]_vars => TypeInv'
<1> SUFFICES ASSUME TypeInv, [Next]_vars PROVE TypeInv'
  OBVIOUS
<1>1. Len(steps) \in Nat /\ DOMAIN steps = 1 .. Len(steps)
  BY Lengths DEF TypeInv
<1>2. i < Len(steps) => Successor(steps, i, holding) \in Nat
  BY <1>1, SuccessorType DEF TypeInv
<1>3. CASE ExceedMaxSteps
  BY <1>3 DEF ExceedMaxSteps, TypeInv, args
<1>4. CASE WalkOn
  BY <1>2, <1>4 DEF WalkOn, InLoop, TypeInv, args
<1>5. CASE PauseAtDelay
  BY <1>2, <1>5 DEF PauseAtDelay, InLoop, TypeInv, args
<1>6. CASE ReachEnd
  BY <1>6 DEF ReachEnd, TypeInv, args
<1>7. CASE Return \/ UNCHANGED vars
  BY <1>7 DEF Return, vars, TypeInv
<1> QED BY <1>3, <1>4, <1>5, <1>6, <1>7 DEF Next

-----------------------------------------------------------------------------
\* What the walk does at a step.
LEMMA AtStep ==
  ASSUME TypeInv, NEW k \in Nat, k < Len(steps)
  PROVE  /\ k \in Below(Len(steps)) /\ Successor(steps, k, holding) \in 0 .. Len(steps)
         /\ Goes[k] = IF steps[k + 1].type = "delay" THEN Len(steps)
                      ELSE Successor(steps, k, holding)
         /\ Ends(k) <=> Ends(Goes[k])
<1>1. Len(steps) \in Nat /\ DOMAIN steps = 1 .. Len(steps)
  BY Lengths DEF TypeInv
<1>2. k \in Below(Len(steps)) /\ Successor(steps, k, holding) \in 0 .. Len(steps)
  BY <1>1, SuccessorType DEF Below
<1>3. Ends(k) <=> Ends(Goes[k])
  BY <1>1, <1>2, GoesType, EndingStep DEF Ends, TypeInv
<1> QED BY <1>2, <1>3 DEF Goes

\* Past the steps the walk has ended.
LEMMA PastTheEnd ==
  ASSUME TypeInv, NEW k \in Nat, k >= Len(steps)
  PROVE  Ends(k)
<1>1. Len(steps) \in Nat
  BY Lengths DEF TypeInv
<1> QED BY <1>1, GoesType, EndingStep DEF Ends, TypeInv

\* The indexes are closed: the least closed set is one of them.
LEMMA IndexesClosed == TypeInv => First \in Indexes /\ First \in Nat /\ Closed(Indexes)
<1> SUFFICES ASSUME TypeInv PROVE First \in Indexes /\ First \in Nat /\ Closed(Indexes)
  OBVIOUS
<1>1. Len(steps) \in Nat /\ First \in Nat
  BY Lengths DEF TypeInv, First
<1>2. Closed(Indexes)
  BY <1>1, AtStep DEF Closed, Indexes
<1> QED BY <1>1, <1>2 DEF Indexes

\* A walk that does not end reaches neither a delay nor the end of the steps.
LEMMA CyclesAreFailed ==
  ASSUME TypeInv, ~Ends(First)
  PROVE  ExpectedOutcome = "failed"
<1> DEFINE Q == {k \in Indexes : ~Ends(k)}
<1>1. Len(steps) \in Nat /\ First \in Nat /\ First \in Indexes /\ Indexes \subseteq Nat
  BY Lengths, IndexesClosed DEF TypeInv, Indexes
<1>2. ASSUME NEW k \in Q PROVE k \in Nat /\ k < Len(steps)
  BY <1>1, PastTheEnd
<1>3. ASSUME NEW k \in Q
      PROVE  /\ steps[k + 1].type # "delay"
             /\ Successor(steps, k, holding) \in Q
  <2>1. ~Ends(Goes[k])
    BY <1>2, AtStep
  <2>2. Ends(Len(steps))
    BY <1>1, PastTheEnd
  <2>3. steps[k + 1].type # "delay" /\ ~Ends(Successor(steps, k, holding))
    BY <1>2, <2>1, <2>2, AtStep
  <2>4. Successor(steps, k, holding) \in Indexes
    BY <1>2, AtStep DEF Indexes
  <2> QED BY <2>3, <2>4
<1>4. Q \in SUBSET Indexes /\ First \in Q /\ Closed(Q)
  BY <1>1, <1>3 DEF Closed
<1>5. Reached \subseteq Q
  <2> HIDE DEF Q
  <2> QED BY <1>4 DEF Reached
<1>6. \A k \in Reached : ~(k >= Len(steps)) /\ steps[k + 1].type # "delay"
  BY <1>1, <1>2, <1>3, <1>5
<1> QED BY <1>6 DEF ExpectedOutcome

-----------------------------------------------------------------------------
\* A call that has executed nothing is at the index it starts from.
LEMMA WalkInit == Init => WalkInv
<1> SUFFICES ASSUME Init PROVE WalkInv
  OBVIOUS
<1>1. TypeInv
  BY TypeInit
<1>2. Len(steps) \in Nat /\ First \in Nat
  BY <1>1, Lengths, IndexesClosed DEF TypeInv
<1>3. Cardinality(Orbit(Goes, Len(steps), First)) \in 0 .. Len(steps)
  BY <1>1, <1>2, GoesType, OrbitSize DEF TypeInv
<1>4. i = First /\ visited = 0 /\ path = << >> /\ outcome = "walking"
  BY DEF Init
<1>5. Walking
  BY <1>2, <1>3, <1>4 DEF Walking, Behind
<1> QED BY <1>1, <1>4, <1>5 DEF WalkInv, OutcomeIsExact, NoStepTwiceUnlessFailing
\* A call's arguments do not change, nor what is defined from them.
LEMMA SameWalk ==
  UNCHANGED args => /\ Goes' = Goes /\ First' = First /\ Indexes' = Indexes
                    /\ Reached' = Reached /\ ExpectedOutcome' = ExpectedOutcome
                    /\ \A Q : Closed(Q)' = Closed(Q)
                    /\ \A k : Ends(k)' = Ends(k)
<1> SUFFICES ASSUME UNCHANGED args
             PROVE  /\ Goes' = Goes /\ First' = First /\ Indexes' = Indexes
                    /\ Reached' = Reached /\ ExpectedOutcome' = ExpectedOutcome
                    /\ \A Q : Closed(Q)' = Closed(Q)
                    /\ \A k : Ends(k)' = Ends(k)
  OBVIOUS
<1> USE DEF args
<1>1. Goes' = Goes /\ First' = First
  BY DEF Goes, First
<1>2. Indexes' = Indexes
  BY <1>1 DEF Indexes
<1>3. \A Q : Closed(Q)' = Closed(Q)
  BY DEF Closed
<1>4. Reached' = Reached
  BY <1>1, <1>2, <1>3 DEF Reached
<1>5. ExpectedOutcome' = ExpectedOutcome
  BY <1>4 DEF ExpectedOutcome
<1>6. \A k : Ends(k)' = Ends(k)
  BY <1>1 DEF Ends
<1> QED BY <1>1, <1>2, <1>3, <1>4, <1>5, <1>6

\* A step that is no delay leaves the walk where its successor is, and what
\* has been executed closed but for that.
LEMMA WalksOn == WalkInv /\ WalkOn => Walking'
<1> SUFFICES ASSUME WalkInv, WalkOn PROVE Walking'
  OBVIOUS
<1> DEFINE n == Len(steps)
           next == Successor(steps, i, holding)
<1>1. TypeInv /\ Walking /\ n \in Nat /\ i \in Below(n) /\ i \in Nat
  BY Lengths DEF WalkInv, WalkOn, InLoop, TypeInv, Below
<1>2. /\ UNCHANGED args /\ i' = next /\ path' = Append(path, i) /\ visited' = visited + 1
      /\ steps[i + 1].type # "delay"
  BY DEF WalkOn
<1>3. next \in 0 .. n /\ Goes[i] = next /\ (Ends(i) <=> Ends(next))
  BY <1>1, <1>2, AtStep DEF Below
<1>4. /\ DOMAIN path' = DOMAIN path \cup {Len(path')} /\ Len(path') = Len(path) + 1
      /\ DOMAIN path = 1 .. Len(path) /\ path'[Len(path')] = i
      /\ \A k \in DOMAIN path : path'[k] = path[k]
      /\ \A k \in DOMAIN path : path[k] \in Nat
  BY <1>1, <1>2 DEF TypeInv
<1>5. Behind' = Behind \cup {next}
  BY <1>2, <1>4 DEF Behind
<1>6. /\ visited' = Len(path')
      /\ First' \in Behind'
  BY <1>1, <1>2, <1>4, <1>5, SameWalk DEF Walking
<1>7. ASSUME NEW k \in DOMAIN path'
      PROVE  /\ path'[k] < Len(steps') /\ steps'[path'[k] + 1].type # "delay"
             /\ Successor(steps', path'[k], holding') \in Behind'
  BY <1>1, <1>2, <1>4, <1>5 DEF Walking, args, Below
<1>8. ASSUME NEW Q \in SUBSET Indexes, First \in Q, Closed(Q) PROVE next \in Q
  BY <1>1, <1>2, <1>8 DEF Walking, Closed, Below
<1>9. ASSUME Ends(First)
      PROVE  /\ \A k \in DOMAIN path' : path'[k] \notin Orbit(Goes, n, next)
             /\ \A k, l \in DOMAIN path' : path'[k] = path'[l] => k = l
             /\ Len(path') + Cardinality(Orbit(Goes, n, next)) <= n
  <2>1. Goes \in Moves(n) /\ i \in Ending(Goes, n)
    BY <1>1, <1>9, GoesType DEF Walking, Ends, TypeInv
  <2>2. i \notin Orbit(Goes, n, next)
    BY <1>1, <1>3, <2>1, CyclesDoNotEnd
  <2>3. Orbit(Goes, n, i) = {i} \cup Orbit(Goes, n, next)
    BY <1>1, <1>3, <2>1, OrbitStep
  <2>4. /\ Cardinality(Orbit(Goes, n, i)) = Cardinality(Orbit(Goes, n, next)) + 1
        /\ Cardinality(Orbit(Goes, n, next)) \in 0 .. n
    <3>1. Cardinality(Orbit(Goes, n, i)) = Cardinality(Orbit(Goes, n, Goes[i])) + 1
      BY <1>1, <2>1, OrbitSize
    <3>2. next \in Nat
      BY <1>1, <1>3
    <3>3. Cardinality(Orbit(Goes, n, next)) \in 0 .. n
      <4> HIDE DEF next
      <4> QED BY <1>1, <2>1, <3>2, OrbitSize
    <3> QED BY <1>3, <3>1, <3>3
  <2>5. /\ \A k \in DOMAIN path : path[k] \notin Orbit(Goes, n, i)
        /\ \A k, l \in DOMAIN path : path[k] = path[l] => k = l
        /\ Len(path) + Cardinality(Orbit(Goes, n, i)) <= n
    BY <1>1, <1>9 DEF Walking
  <2>6. \A k \in DOMAIN path : path[k] # i
    BY <2>3, <2>5
  <2>7. Len(path) \in Nat
    BY <1>1 DEF TypeInv
  <2> HIDE DEF n, next
  <2>8. \A k \in DOMAIN path' : path'[k] \notin Orbit(Goes, n, next)
    BY <1>4, <2>2, <2>3, <2>5
  <2>9. \A k, l \in DOMAIN path' : path'[k] = path'[l] => k = l
    BY <1>4, <2>5, <2>6
  <2>10. Len(path') + Cardinality(Orbit(Goes, n, next)) <= n
    BY <1>1, <1>4, <2>4, <2>5, <2>7
  <2> QED BY <2>8, <2>9, <2>10
<1>10. /\ Goes' = Goes /\ First' = First /\ Indexes' = Indexes /\ steps' = steps
       /\ \A Q : Closed(Q)' = Closed(Q)
       /\ \A k : Ends(k)' = Ends(k)
  BY <1>2, SameWalk DEF args
<1>11. \A Q \in SUBSET Indexes' : First' \in Q /\ Closed(Q)' => i' \in Q
  BY <1>2, <1>8, <1>10
<1>12. Ends(First)' <=> Ends(i)'
  BY <1>1, <1>2, <1>3, <1>10 DEF Walking, Ends
<1>13. Ends(First)' =>
         /\ \A k \in DOMAIN path' : path'[k] \notin Orbit(Goes', Len(steps'), i')
         /\ \A k, l \in DOMAIN path' : path'[k] = path'[l] => k = l
         /\ Len(path') + Cardinality(Orbit(Goes', Len(steps'), i')) <= Len(steps')
  BY <1>2, <1>9, <1>10 DEF Ends
<1> QED BY <1>6, <1>7, <1>11, <1>12, <1>13 DEF Walking

\* The guard against cycles stops no walk that ends.
LEMMA GuardIsExact ==
  ASSUME WalkInv, ExceedMaxSteps
  PROVE  ExpectedOutcome = "failed"
<1>1. TypeInv /\ Walking /\ Len(steps) \in Nat
  BY Lengths DEF WalkInv, ExceedMaxSteps, InLoop, TypeInv
<1>2. Cardinality(Orbit(Goes, Len(steps), i)) \in 0 .. Len(steps)
  BY <1>1, GoesType, OrbitSize DEF TypeInv
<1>3. Len(path) > Len(steps)
  BY <1>1 DEF Walking, ExceedMaxSteps, MaxIterations, TypeInv
<1>4. ~Ends(First)
  BY <1>1, <1>2, <1>3 DEF Walking, TypeInv
<1> QED BY <1>1, <1>4, CyclesAreFailed

\* A delay that the walk comes to is the only end of the walk that is reached.
LEMMA DelayIsReached ==
  ASSUME WalkInv, PauseAtDelay
  PROVE  /\ ExpectedOutcome = "paused"
         /\ \A k, l \in DOMAIN Append(path, i) :
              Append(path, i)[k] = Append(path, i)[l] => k = l
<1>1. /\ TypeInv /\ Walking /\ Len(steps) \in Nat /\ i \in Nat /\ i < Len(steps)
      /\ steps[i + 1].type = "delay"
  BY Lengths DEF WalkInv, PauseAtDelay, InLoop, TypeInv
<1>2. Behind \in SUBSET Indexes /\ (\A k \in Behind : k < Len(steps))
  <2>1. \A k \in DOMAIN path : path[k] \in Nat /\ path[k] < Len(steps)
    BY <1>1 DEF TypeInv, Walking
  <2> QED BY <1>1, <2>1 DEF Behind, Indexes
<1>3. Closed(Behind) /\ First \in Behind
  BY <1>1 DEF Walking, Closed, Behind
<1>4. \A k \in Reached : ~(k >= Len(steps))
  <2>1. Reached \subseteq Behind
    BY <1>2, <1>3 DEF Reached
  <2>2. \A k \in Behind : k \in Nat
    BY <1>1, <1>2, IndexesClosed DEF Indexes
  <2> QED BY <1>1, <1>2, <2>1, <2>2
<1>5. i \in Reached
  BY <1>1 DEF Walking, Reached, Indexes
<1>6. ExpectedOutcome = "paused"
  BY <1>1, <1>4, <1>5 DEF ExpectedOutcome
<1>7. Ends(First)
  <2>1. Ends(i)
    BY <1>1, AtStep, PastTheEnd
  <2> QED BY <1>1, <2>1 DEF Walking
<1>8. i \in Orbit(Goes, Len(steps), i)
  BY <1>1, GoesType, OrbitStep DEF TypeInv, Below
<1>9. /\ \A k \in DOMAIN path : path[k] # i
      /\ \A k, l \in DOMAIN path : path[k] = path[l] => k = l
  BY <1>1, <1>7, <1>8 DEF Walking
<1>10. /\ DOMAIN Append(path, i) = DOMAIN path \cup {Len(path) + 1}
       /\ Append(path, i)[Len(path) + 1] = i
       /\ \A k \in DOMAIN path : Append(path, i)[k] = path[k]
  BY <1>1 DEF TypeInv
<1> QED BY <1>6, <1>9, <1>10

\* The end of the steps, when the walk comes to it, is reached.
LEMMA EndIsReached ==
  ASSUME WalkInv, ReachEnd
  PROVE  /\ ExpectedOutcome = "completed"
         /\ \A k, l \in DOMAIN path : path[k] = path[l] => k = l
<1>1. TypeInv /\ Walking /\ Len(steps) \in Nat /\ i \in Nat /\ i >= Len(steps)
  BY Lengths DEF WalkInv, ReachEnd, TypeInv
<1>2. i \in Reached
  <2>1. i \in Indexes
    BY <1>1, IndexesClosed DEF Walking
  <2> QED BY <1>1, <2>1 DEF Walking, Reached
<1>3. Ends(First)
  BY <1>1, PastTheEnd DEF Walking
<1> QED BY <1>1, <1>2, <1>3 DEF ExpectedOutcome, Walking

\* No step of a call breaks the invariant.
LEMMA WalkNext == WalkInv /\ [Next]_vars => WalkInv'
<1> SUFFICES ASSUME WalkInv, [Next]_vars PROVE WalkInv'
  OBVIOUS
<1> USE DEF WalkInv
<1>1. TypeInv'
  BY TypeNext
<1>2. CASE ExceedMaxSteps
  <2>1. outcome' = "failed" /\ UNCHANGED args
    BY <1>2 DEF ExceedMaxSteps
  <2>2. ExpectedOutcome' = "failed"
    BY <1>2, <2>1, GuardIsExact, SameWalk
  <2> QED BY <1>1, <2>1, <2>2 DEF OutcomeIsExact, NoStepTwiceUnlessFailing
<1>3. CASE WalkOn
  <2>1. outcome' = "walking"
    BY <1>3 DEF WalkOn, InLoop
  <2> QED BY <1>1, <1>3, <2>1, WalksOn DEF OutcomeIsExact, NoStepTwiceUnlessFailing
<1>4. CASE PauseAtDelay
  <2>1. outcome' = "paused" /\ path' = Append(path, i) /\ UNCHANGED args
    BY <1>4 DEF PauseAtDelay
  <2>2. ExpectedOutcome' = "paused"
    BY <1>4, <2>1, DelayIsReached, SameWalk
  <2> QED BY <1>1, <1>4, <2>1, <2>2, DelayIsReached DEF OutcomeIsExact, NoStepTwiceUnlessFailing
<1>5. CASE ReachEnd
  <2>1. outcome' = "completed" /\ path' = path /\ UNCHANGED args
    BY <1>5 DEF ReachEnd
  <2>2. ExpectedOutcome' = "completed"
    BY <1>5, <2>1, EndIsReached, SameWalk
  <2> QED BY <1>1, <1>5, <2>1, <2>2, EndIsReached DEF OutcomeIsExact, NoStepTwiceUnlessFailing
<1>6. CASE Return \/ UNCHANGED vars
  <2>1. UNCHANGED vars
    BY <1>6 DEF Return
  <2>2. UNCHANGED args /\ UNCHANGED <<i, visited, path, outcome>>
    BY <2>1 DEF vars, args
  <2>3. Walking' = Walking
    BY <2>2, SameWalk DEF Walking, Behind, args
  <2> QED BY <1>1, <2>2, <2>3, SameWalk DEF OutcomeIsExact, NoStepTwiceUnlessFailing
<1> QED BY <1>2, <1>3, <1>4, <1>5, <1>6 DEF Next

\* So it holds in every state of every call.
LEMMA WalkInvariant == Spec => []WalkInv
BY WalkInit, WalkNext, PTL DEF Spec

\* The guard against cycles (engine.go:201-208) fails exactly the walks that
\* cycle, for every workflow, payload and index to start from.
THEOREM WalksAreExact == Spec => []OutcomeIsExact
<1>1. WalkInv => OutcomeIsExact
  BY DEF WalkInv
<1> QED BY <1>1, WalkInvariant, PTL

\* A call of executeFrom that does not fail executes no step twice.
THEOREM StepsAreExecutedOnce == Spec => []NoStepTwiceUnlessFailing
<1>1. WalkInv => NoStepTwiceUnlessFailing
  BY DEF WalkInv
<1> QED BY <1>1, WalkInvariant, PTL

-----------------------------------------------------------------------------
(***************************************************************************)
(* Texts, which are ordered by their first difference.                     *)
(***************************************************************************)

Texts == Seq(Alphabet)

\* Every token has a place of its own in the order.
LEMMA RankIsExact ==
  /\ \A a \in Alphabet : Rank(a) \in Nat
  /\ \A a, b \in Alphabet : Rank(a) = Rank(b) => a = b
<1>1. DOMAIN Tokens \subseteq Nat
  BY DEF Tokens
<1>2. ASSUME NEW a \in Alphabet PROVE Rank(a) \in DOMAIN Tokens /\ Tokens[Rank(a)] = a
  BY DEF Rank, Alphabet
<1> QED BY <1>1, <1>2

\* The words that values are written with.
LEMMA WordsOfValues ==
  {"0", "9", "10", "nan", "true", "false", "map"} \subseteq Alphabet
<1>1. 1 .. 16 = DOMAIN Tokens
  BY DEF Tokens
<1>2. /\ Tokens[3] = "0" /\ Tokens[5] = "9" /\ Tokens[4] = "10" /\ Tokens[13] = "nan"
      /\ Tokens[15] = "true" /\ Tokens[10] = "false" /\ Tokens[12] = "map"
  BY DEF Tokens
<1> QED BY <1>1, <1>2 DEF Alphabet

\* Two texts are equal up to somewhere: to their ends, or to where they differ.
LEMMA TextsDiffer ==
  ASSUME NEW s \in Texts, NEW t \in Texts, s # t
  PROVE  \E n \in Nat : /\ n <= Len(s) /\ n <= Len(t)
                        /\ SubSeq(s, 1, n) = SubSeq(t, 1, n)
                        /\ n = Len(s) \/ n = Len(t) \/ s[n + 1] # t[n + 1]
                        /\ ~(n = Len(s) /\ n = Len(t))
<1> DEFINE m == IF Len(s) <= Len(t) THEN Len(s) ELSE Len(t)
           D == {k \in 1 .. m : s[k] # t[k]}
<1>1. Len(s) \in Nat /\ Len(t) \in Nat /\ m \in Nat /\ m <= Len(s) /\ m <= Len(t)
  BY DEF Texts
<1>2. ASSUME NEW n \in Nat, n <= m, \A k \in 1 .. n : s[k] = t[k]
      PROVE  SubSeq(s, 1, n) = SubSeq(t, 1, n)
  <2> HIDE DEF m
  <2>1. /\ \A k \in 1 .. n : s[k] \in Alphabet
        /\ \A k \in 1 .. n : t[k] \in Alphabet
    BY <1>1, <1>2 DEF Texts
  <2>2. /\ SubSeq(s, 1, n) \in Seq(Alphabet) /\ Len(SubSeq(s, 1, n)) = n
        /\ \A k \in 1 .. n : SubSeq(s, 1, n)[k] = s[k]
    BY <1>1, <1>2, <2>1 DEF Texts
  <2>3. /\ SubSeq(t, 1, n) \in Seq(Alphabet) /\ Len(SubSeq(t, 1, n)) = n
        /\ \A k \in 1 .. n : SubSeq(t, 1, n)[k] = t[k]
    BY <1>1, <1>2, <2>1 DEF Texts
  <2> QED BY <1>2, <2>2, <2>3, SeqEqual
<1>3. CASE D = {}
  <2>1. \A k \in 1 .. m : s[k] = t[k]
    BY <1>3
  <2>2. ~(m = Len(s) /\ m = Len(t))
    BY <1>1, <2>1, SeqEqual DEF Texts
  <2> QED BY <1>1, <1>2, <2>1, <2>2
<1>4. CASE D # {}
  <2>1. PICK d \in D : \A l \in D : d <= l
    <3>1. D \in SUBSET (1 .. m)
      OBVIOUS
    <3> HIDE DEF D, m
    <3> QED BY <1>1, <1>4, <3>1, FirstIndex
  <2>2. d \in 1 .. m /\ d - 1 \in Nat /\ s[d] # t[d] /\ d - 1 < m
    BY <1>1
  <2>3. \A k \in 1 .. d - 1 : s[k] = t[k]
    BY <1>1, <2>1, <2>2
  <2>4. SubSeq(s, 1, d - 1) = SubSeq(t, 1, d - 1)
    <3> HIDE DEF D, m
    <3> QED BY <1>1, <1>2, <2>2, <2>3
  <2> QED BY <1>1, <2>2, <2>4
<1> QED BY <1>3, <1>4

\* Where one text is before another they differ.
LEMMA BeforeAt ==
  ASSUME NEW s \in Texts, NEW t \in Texts, NEW n \in Nat, NEW k \in Nat,
         SubSeq(s, 1, n) = SubSeq(t, 1, n), k < n, n <= Len(s), n <= Len(t)
  PROVE  s[k + 1] = t[k + 1]
<1>1. SubSeq(s, 1, n)[k + 1] = s[k + 1] /\ SubSeq(t, 1, n)[k + 1] = t[k + 1]
  BY DEF Texts
<1> QED BY <1>1

\* Texts are in a linear order.
LEMMA TextsInOrder ==
  ASSUME NEW s \in Texts, NEW t \in Texts
  PROVE  /\ Before(s, t) => s # t /\ ~Before(t, s)
         /\ Before(s, t) \/ s = t \/ Before(t, s)
<1>1. Len(s) \in Nat /\ Len(t) \in Nat
  BY DEF Texts
<1>2. /\ \A k \in Nat : k < Len(s) => s[k + 1] \in Alphabet
      /\ \A k \in Nat : k < Len(t) => t[k + 1] \in Alphabet
  BY <1>1 DEF Texts
<1>3. ASSUME s # t PROVE Before(s, t) \/ Before(t, s)
  <2>1. PICK n \in Nat : /\ n <= Len(s) /\ n <= Len(t)
                         /\ SubSeq(s, 1, n) = SubSeq(t, 1, n)
                         /\ n = Len(s) \/ n = Len(t) \/ s[n + 1] # t[n + 1]
                         /\ ~(n = Len(s) /\ n = Len(t))
    BY <1>3, TextsDiffer
  <2>2. n \in 0 .. Len(s) /\ n \in 0 .. Len(t)
    BY <1>1, <2>1
  <2>3. CASE n = Len(s)
    BY <1>1, <2>1, <2>2, <2>3 DEF Before
  <2>4. CASE n = Len(t)
    BY <1>1, <2>1, <2>2, <2>4 DEF Before
  <2>5. CASE n # Len(s) /\ n # Len(t)
    <3>1. n < Len(s) /\ n < Len(t) /\ s[n + 1] # t[n + 1]
      BY <1>1, <2>1, <2>5
    <3>2. Rank(s[n + 1]) < Rank(t[n + 1]) \/ Rank(t[n + 1]) < Rank(s[n + 1])
      BY <1>2, <3>1, RankIsExact
    <3> QED BY <2>1, <2>2, <3>1, <3>2 DEF Before
  <2> QED BY <2>3, <2>4, <2>5
<1>4. ASSUME Before(s, t) PROVE s # t /\ ~Before(t, s)
  <2>1. PICK n \in 0 .. Len(s) : /\ n < Len(t) /\ SubSeq(s, 1, n) = SubSeq(t, 1, n)
                                 /\ n = Len(s) \/ Rank(s[n + 1]) < Rank(t[n + 1])
    BY <1>4 DEF Before
  <2>2. n \in Nat /\ n <= Len(s) /\ n <= Len(t)
    BY <1>1, <2>1
  <2>3. s # t
    BY <1>1, <1>2, <2>1, <2>2, RankIsExact
  <2>4. ASSUME NEW m \in 0 .. Len(t), m < Len(s), SubSeq(t, 1, m) = SubSeq(s, 1, m),
               m = Len(t) \/ Rank(t[m + 1]) < Rank(s[m + 1])
        PROVE  FALSE
    <3>1. m \in Nat /\ m <= Len(s) /\ m <= Len(t)
      BY <1>1, <2>4
    <3>2. CASE n < m
      <4>1. s[n + 1] = t[n + 1] /\ n < Len(s)
        BY <1>1, <2>2, <2>4, <3>1, <3>2, BeforeAt
      <4> QED BY <1>1, <1>2, <2>1, <2>2, <4>1, RankIsExact
    <3>3. CASE m < n
      <4>1. s[m + 1] = t[m + 1] /\ m < Len(t)
        BY <1>1, <2>1, <2>2, <3>1, <3>3, BeforeAt
      <4> QED BY <1>1, <1>2, <2>4, <3>1, <4>1, RankIsExact
    <3>4. CASE n = m
      <4>1. /\ n < Len(s) /\ n < Len(t)
        BY <1>1, <2>1, <2>4, <3>1, <3>4
      <4> QED BY <1>1, <1>2, <2>1, <2>2, <2>4, <3>4, <4>1, RankIsExact
    <3> QED BY <2>2, <3>1, <3>2, <3>3, <3>4
  <2> QED BY <2>3, <2>4 DEF Before
<1> QED BY <1>3, <1>4

-----------------------------------------------------------------------------
(***************************************************************************)
(* Operators in a text: a plain path, an operator and a plain literal are  *)
(* read back as they were written.                                         *)
(***************************************************************************)

\* The operators, in the order in which they are looked for.
LEMMA OperatorsInOrder ==
  /\ DOMAIN Operators = 1 .. 6
  /\ Operators[1] = <<"=", "=">> /\ Operators[2] = <<"!", "=">>
  /\ Operators[3] = <<">", "=">> /\ Operators[4] = <<"<", "=">>
  /\ Operators[5] = <<">">> /\ Operators[6] = <<"<">>
<1>1. /\ TwoCharacters = << <<"=", "=">>, <<"!", "=">>, <<">", "=">>, <<"<", "=">> >>
      /\ OneCharacter = << <<">">>, <<"<">> >>
  BY DEF TwoCharacters, OneCharacter
<1> QED BY <1>1 DEF Operators

\* Min is the least of a set that has one.
LEMMA LeastOfSet ==
  ASSUME NEW S \in SUBSET Nat, NEW m \in S, \A k \in S : m <= k
  PROVE  Min(S) = m
<1>1. \E x \in S : \A y \in S : x <= y
  OBVIOUS
<1>2. Min(S) \in S /\ \A y \in S : Min(S) <= y
  BY <1>1 DEF Min
<1>3. Min(S) \in Nat /\ m \in Nat /\ m <= Min(S) /\ Min(S) <= m
  BY <1>2
<1> QED BY <1>3

\* The rest of a text.
LEMMA RestOfText ==
  ASSUME NEW text \in Texts, NEW m \in Nat, 1 <= m, m <= Len(text) + 1
  PROVE  /\ SubSeq(text, m, Len(text)) \in Texts
         /\ Len(SubSeq(text, m, Len(text))) = Len(text) - m + 1
         /\ \A j \in 1 .. Len(text) - m + 1 : SubSeq(text, m, Len(text))[j] = text[m + j - 1]
<1>1. Len(text) \in Nat
  BY DEF Texts
<1>2. \A j \in m .. Len(text) : text[j] \in Alphabet
  BY <1>1 DEF Texts
<1>3. /\ SubSeq(text, m, Len(text)) \in Texts
      /\ Len(SubSeq(text, m, Len(text))) = IF m <= Len(text) THEN Len(text) - m + 1 ELSE 0
      /\ \A j \in 1 .. Len(text) - m + 1 : SubSeq(text, m, Len(text))[j] = text[m + j - 1]
  BY <1>1, <1>2, SubSeqProperties DEF Texts
<1> QED BY <1>1, <1>3

\* A prefix is what agrees with a text as far as it goes.
LEMMA PrefixMeans ==
  ASSUME NEW s \in Texts, NEW t \in Texts
  PROVE  IsPrefix(s, t) <=> Len(s) <= Len(t) /\ \A k \in 1 .. Len(s) : s[k] = t[k]
<1>1. /\ Len(s) \in Nat /\ Len(t) \in Nat
      /\ \A k \in 1 .. Len(s) : s[k] \in Alphabet
      /\ \A k \in 1 .. Len(t) : t[k] \in Alphabet
  BY DEF Texts
<1>2. /\ SubSeq(s, 1, Len(s)) \in Texts
      /\ Len(SubSeq(s, 1, Len(s))) = Len(s)
      /\ \A k \in 1 .. Len(s) : SubSeq(s, 1, Len(s))[k] = s[k]
  BY <1>1 DEF Texts
<1>3. ASSUME Len(s) <= Len(t)
      PROVE  /\ SubSeq(t, 1, Len(s)) \in Texts
             /\ Len(SubSeq(t, 1, Len(s))) = Len(s)
             /\ \A k \in 1 .. Len(s) : SubSeq(t, 1, Len(s))[k] = t[k]
  BY <1>1, <1>3 DEF Texts
<1>4. ASSUME Len(s) <= Len(t), \A k \in 1 .. Len(s) : s[k] = t[k] PROVE IsPrefix(s, t)
  <2>1. \A k \in 1 .. Len(SubSeq(s, 1, Len(s))) :
          SubSeq(s, 1, Len(s))[k] = SubSeq(t, 1, Len(s))[k]
    BY <1>2, <1>3, <1>4
  <2>2. SubSeq(s, 1, Len(s)) = SubSeq(t, 1, Len(s))
    BY <1>2, <1>3, <1>4, <2>1, SeqEqual DEF Texts
  <2> QED BY <1>4, <2>2 DEF IsPrefix
<1>5. ASSUME IsPrefix(s, t), NEW k \in 1 .. Len(s) PROVE s[k] = t[k]
  <2>1. Len(s) <= Len(t) /\ SubSeq(s, 1, Len(s)) = SubSeq(t, 1, Len(s))
    BY <1>5 DEF IsPrefix
  <2> QED BY <1>2, <1>3, <2>1
<1> QED BY <1>4, <1>5 DEF IsPrefix

\* A two-character operator is found where its characters follow each other,
\* a one-character operator where its character is.
LEMMA PlacesOfOperators ==
  ASSUME NEW text \in Texts, NEW a \in Alphabet, NEW b \in Alphabet
  PROVE  /\ Places(text, <<a, b>>) =
              {k \in 1 .. Len(text) : k < Len(text) /\ text[k] = a /\ text[k + 1] = b}
         /\ Places(text, <<a>>) = {k \in 1 .. Len(text) : text[k] = a}
<1>1. Len(text) \in Nat /\ DOMAIN text = 1 .. Len(text)
  BY DEF Texts
<1>2. ASSUME NEW k \in 1 .. Len(text)
      PROVE  /\ SubSeq(text, k, Len(text)) \in Texts
             /\ Len(SubSeq(text, k, Len(text))) = Len(text) - k + 1
             /\ \A j \in 1 .. Len(text) - k + 1 : SubSeq(text, k, Len(text))[j] = text[k + j - 1]
  BY <1>1, RestOfText
<1>3. ASSUME NEW k \in 1 .. Len(text)
      PROVE  IsPrefix(<<a, b>>, SubSeq(text, k, Len(text)))
               <=> k < Len(text) /\ text[k] = a /\ text[k + 1] = b
  <2> DEFINE two == <<a, b>>
             rest == SubSeq(text, k, Len(text))
  <2>1. two \in Texts /\ Len(two) = 2 /\ two[1] = a /\ two[2] = b
    BY DEF Texts
  <2>2. rest \in Texts /\ Len(rest) = Len(text) - k + 1 /\ rest[1] = text[k]
    BY <1>1, <1>2
  <2>3. k < Len(text) => rest[2] = text[k + 1]
    BY <1>1, <1>2
  <2> HIDE DEF two, rest
  <2>4. IsPrefix(two, rest) <=> 2 <= Len(rest) /\ a = rest[1] /\ b = rest[2]
    <3>1. IsPrefix(two, rest) <=> 2 <= Len(rest) /\ \A j \in 1 .. 2 : two[j] = rest[j]
      BY <2>1, <2>2, PrefixMeans
    <3>2. (\A j \in 1 .. 2 : two[j] = rest[j]) <=> two[1] = rest[1] /\ two[2] = rest[2]
      OBVIOUS
    <3> QED BY <2>1, <3>1, <3>2
  <2>5. IsPrefix(two, rest) <=> k < Len(text) /\ text[k] = a /\ text[k + 1] = b
    BY <1>1, <2>2, <2>3, <2>4
  <2> QED BY <2>5 DEF two, rest
<1>4. ASSUME NEW k \in 1 .. Len(text)
      PROVE  IsPrefix(<<a>>, SubSeq(text, k, Len(text))) <=> text[k] = a
  <2> DEFINE one == <<a>>
             rest == SubSeq(text, k, Len(text))
  <2>1. one \in Texts /\ Len(one) = 1 /\ one[1] = a
    BY DEF Texts
  <2>2. rest \in Texts /\ Len(rest) = Len(text) - k + 1 /\ rest[1] = text[k]
    BY <1>1, <1>2
  <2> HIDE DEF one, rest
  <2>3. IsPrefix(one, rest) <=> text[k] = a
    <3>1. IsPrefix(one, rest) <=> 1 <= Len(rest) /\ \A j \in 1 .. 1 : one[j] = rest[j]
      BY <2>1, <2>2, PrefixMeans
    <3>2. (\A j \in 1 .. 1 : one[j] = rest[j]) <=> one[1] = rest[1]
      OBVIOUS
    <3>3. 1 <= Len(rest)
      BY <1>1, <2>2
    <3> QED BY <2>1, <2>2, <3>1, <3>2, <3>3
  <2> QED BY <2>3 DEF one, rest
<1> QED BY <1>1, <1>3, <1>4 DEF Places

\* The operators are texts of tokens.
LEMMA OperatorCharacters ==
  /\ \A c \in {"=", "!", "<", ">"} : c \in Alphabet
  /\ \A o \in 1 .. 6 : Operators[o] \in Texts
<1>1. \A c \in {"=", "!", "<", ">"} : c \in Alphabet
  <2>1. DOMAIN Tokens = 1 .. 16
    BY DEF Tokens
  <2>2. Tokens[1] = "!" /\ Tokens[6] = "<" /\ Tokens[7] = "=" /\ Tokens[8] = ">"
    BY DEF Tokens
  <2> QED BY <2>1, <2>2 DEF Alphabet
<1>2. \A a, b \in Alphabet : <<a, b>> \in Texts /\ <<a>> \in Texts
  BY DEF Texts
<1>3. ASSUME NEW o \in 1 .. 6 PROVE Operators[o] \in Texts
  <2>1. o = 1 \/ o = 2 \/ o = 3 \/ o = 4 \/ o = 5 \/ o = 6
    OBVIOUS
  <2>2. /\ Operators[1] \in Texts /\ Operators[2] \in Texts /\ Operators[3] \in Texts
        /\ Operators[4] \in Texts /\ Operators[5] \in Texts /\ Operators[6] \in Texts
    BY <1>1, <1>2, OperatorsInOrder
  <2> QED BY <2>1, <2>2
<1> QED BY <1>1, <1>3

\* A condition as it is written.
Written(field, op, lit) == field \o op \o lit

\* An expression is split at the operator that is written between two texts,
\* provided that no operator before it in the order is found, and it not earlier.
LEMMA SplitAt ==
  ASSUME NEW field \in Texts, NEW lit \in Texts, NEW o \in 1 .. 6,
         \A j \in 1 .. o - 1 : Places(Written(field, Operators[o], lit), Operators[j]) = {},
         \A k \in Places(Written(field, Operators[o], lit), Operators[o]) : k > Len(field),
         Len(field) + 1 \in Places(Written(field, Operators[o], lit), Operators[o])
  PROVE  SplitExpr(Written(field, Operators[o], lit)) =
           [op |-> Operators[o], path |-> field, lit |-> lit]
<1> DEFINE text == Written(field, Operators[o], lit)
           found == {j \in DOMAIN Operators : Places(text, Operators[j]) # {}}
           op == Operators[o]
<1>1. found \in SUBSET Nat /\ o \in found /\ \A j \in found : o <= j
  <2>1. DOMAIN Operators = 1 .. 6
    BY OperatorsInOrder
  <2>2. \A j \in 1 .. 6 : ~(o <= j) => j \in 1 .. o - 1
    OBVIOUS
  <2>3. o \in found
    BY <2>1
  <2>4. ASSUME NEW j \in found PROVE o <= j /\ j \in Nat
    <3>1. j \in 1 .. 6 /\ Places(text, Operators[j]) # {}
      BY <2>1
    <3>2. j \notin 1 .. o - 1
      BY <3>1
    <3> QED BY <2>2, <3>1, <3>2
  <2> HIDE DEF found
  <2> QED BY <2>3, <2>4
<1>2. Min(found) = o
  <2> HIDE DEF found
  <2> QED BY <1>1, LeastOfSet
<1>3. op \in Texts /\ Len(op) \in Nat
  <2>1. op \in Texts
    BY OperatorCharacters
  <2> HIDE DEF op
  <2> QED BY <2>1 DEF Texts
<1>4. Len(field) \in Nat /\ Len(lit) \in Nat
  BY DEF Texts
<1>5. Min(Places(text, op)) = Len(field) + 1
  <2>1. text \in Texts
    BY <1>3 DEF Texts, Written
  <2>2. Places(text, op) \in SUBSET Nat
    BY <2>1 DEF Places, Texts
  <2> HIDE DEF op
  <2> QED BY <1>4, <2>2, LeastOfSet DEF op
<1> HIDE DEF op
<1>6. /\ Len(text) = Len(field) + Len(op) + Len(lit)
      /\ \A k \in 1 .. Len(field) : text[k] = field[k]
      /\ \A k \in 1 .. Len(lit) : text[Len(field) + Len(op) + k] = lit[k]
      /\ text \in Texts
  <2>1. text = field \o op \o lit
    BY DEF op, Written
  <2> QED BY <1>3, <1>4, <2>1 DEF Texts
<1>7. SubSeq(text, 1, Len(field)) = field
  <2>1. \A k \in 1 .. Len(field) : text[k] \in Alphabet
    BY <1>4, <1>6 DEF Texts
  <2>2. /\ SubSeq(text, 1, Len(field)) \in Seq(Alphabet)
        /\ Len(SubSeq(text, 1, Len(field))) = Len(field)
        /\ \A k \in 1 .. Len(field) : SubSeq(text, 1, Len(field))[k] = text[k]
    BY <1>4, <2>1
  <2> QED BY <1>4, <1>6, <2>2, SeqEqual DEF Texts
<1>8. SubSeq(text, Len(field) + Len(op) + 1, Len(text)) = lit
  <2> DEFINE m == Len(field) + Len(op) + 1
             rest == SubSeq(text, m, Len(text))
  <2>1. m \in Nat /\ Len(text) \in Nat /\ Len(text) - m + 1 = Len(lit)
    BY <1>3, <1>4, <1>6
  <2>3. /\ rest \in Texts /\ Len(rest) = Len(text) - m + 1
        /\ \A k \in 1 .. Len(text) - m + 1 : rest[k] = text[m + k - 1]
    <3>1. 1 <= m /\ m <= Len(text) + 1
      BY <1>3, <1>4, <1>6
    <3> HIDE DEF m
    <3> QED BY <1>6, <2>1, <3>1, RestOfText
  <2>4. Len(rest) = Len(lit)
    BY <1>4, <2>1, <2>3
  <2>5. \A k \in 1 .. Len(lit) : rest[k] = lit[k]
    <3>1. \A k \in 1 .. Len(lit) : rest[k] = text[m + k - 1]
      BY <2>1, <2>3
    <3>2. \A k \in 1 .. Len(lit) : m + k - 1 = Len(field) + Len(op) + k
      BY <1>3, <1>4
    <3> HIDE DEF m, rest
    <3> QED BY <1>6, <3>1, <3>2
  <2>6. rest = lit
    <3> HIDE DEF rest
    <3> QED BY <2>3, <2>4, <2>5, SeqEqual DEF Texts
  <2> QED BY <2>6
<1>9. Operators[Min(found)] = op /\ found # {}
  BY <1>1, <1>2 DEF op
<1>10. SubSeq(text, 1, Len(field) + 1 - 1) = field
  BY <1>4, <1>7
<1>11. SubSeq(text, Len(field) + 1 + Len(op), Len(text)) = lit
  BY <1>3, <1>4, <1>8
<1> HIDE DEF found
<1>12. SplitExpr(text) =
         [op |-> Operators[Min(found)],
          path |-> SubSeq(text, 1, Min(Places(text, Operators[Min(found)])) - 1),
          lit |-> SubSeq(text, Min(Places(text, Operators[Min(found)]))
                                 + Len(Operators[Min(found)]), Len(text))]
  BY <1>9 DEF SplitExpr, found
<1>13. Min(Places(text, Operators[Min(found)])) = Len(field) + 1
  BY <1>5, <1>9
<1>14. SubSeq(text, 1, Min(Places(text, Operators[Min(found)])) - 1) = field
  BY <1>10, <1>13
<1>15. SubSeq(text, Min(Places(text, Operators[Min(found)]))
                       + Len(Operators[Min(found)]), Len(text)) = lit
  BY <1>9, <1>11, <1>13
<1>16. SplitExpr(text) = [op |-> op, path |-> field, lit |-> lit]
  BY <1>9, <1>12, <1>14, <1>15
<1> QED BY <1>16 DEF op

\* The characters that operators are made of.
Characters == {"=", "!", "<", ">"}

\* And so are their characters.
LEMMA CharactersAreTokens == \A c \in Characters : c \in Alphabet
BY OperatorCharacters DEF Characters

\* Where operators are found in a text that has only the characters of one.
LEMMA PlacesOfTwo ==
  ASSUME NEW text \in Texts, NEW n \in Nat, n + 2 <= Len(text),
         \A k \in 1 .. Len(text) : text[k] \in Characters => k = n + 1 \/ k = n + 2,
         NEW a \in Characters, NEW b \in Characters
  PROVE  Places(text, <<a, b>>) = IF a = text[n + 1] /\ b = text[n + 2] THEN {n + 1} ELSE {}
<1>1. Len(text) \in Nat
  BY DEF Texts
<1>2. Places(text, <<a, b>>) =
        {k \in 1 .. Len(text) : k < Len(text) /\ text[k] = a /\ text[k + 1] = b}
  <2>1. a \in Alphabet /\ b \in Alphabet
    BY CharactersAreTokens
  <2> QED BY <2>1, PlacesOfOperators
<1>3. ASSUME NEW k \in 1 .. Len(text), k < Len(text), text[k] = a, text[k + 1] = b
      PROVE  k = n + 1 /\ a = text[n + 1] /\ b = text[n + 2]
  <2>1. k = n + 1 \/ k = n + 2
    BY <1>3
  <2>2. k + 1 = n + 1 \/ k + 1 = n + 2
    <3>1. k + 1 \in 1 .. Len(text)
      BY <1>1, <1>3
    <3> QED BY <1>3, <3>1
  <2>3. k = n + 1 /\ k + 1 = n + 2
    BY <1>1, <2>1, <2>2
  <2> QED BY <1>3, <2>3
<1>4. n + 1 \in 1 .. Len(text) /\ n + 1 < Len(text) /\ n + 1 + 1 = n + 2
  BY <1>1
<1> QED BY <1>2, <1>3, <1>4

\* A single such character is no two-character operator.
LEMMA PlacesOfOne ==
  ASSUME NEW text \in Texts, NEW n \in Nat, n + 1 <= Len(text),
         NEW x, text[n + 1] = x,
         \A k \in 1 .. Len(text) : text[k] \in Characters => k = n + 1,
         NEW a \in Characters, NEW b \in Characters
  PROVE  /\ Places(text, <<a, b>>) = {}
         /\ Places(text, <<a>>) = IF a = x THEN {n + 1} ELSE {}
<1>1. Len(text) \in Nat
  BY DEF Texts
<1>2. /\ Places(text, <<a, b>>) =
           {k \in 1 .. Len(text) : k < Len(text) /\ text[k] = a /\ text[k + 1] = b}
      /\ Places(text, <<a>>) = {k \in 1 .. Len(text) : text[k] = a}
  <2>1. a \in Alphabet /\ b \in Alphabet
    BY CharactersAreTokens
  <2> QED BY <2>1, PlacesOfOperators
<1>3. ASSUME NEW k \in 1 .. Len(text), k < Len(text), text[k] = a, text[k + 1] = b
      PROVE  FALSE
  <2>1. k = n + 1
    BY <1>3
  <2>2. k + 1 = n + 1
    <3>1. k + 1 \in 1 .. Len(text)
      BY <1>1, <1>3
    <3> QED BY <1>3, <3>1
  <2> QED BY <1>1, <2>1, <2>2
<1>4. Places(text, <<a, b>>) = {}
  BY <1>2, <1>3
<1>5. n + 1 \in 1 .. Len(text) /\ (\A k \in 1 .. Len(text) : text[k] = a => k = n + 1)
  BY <1>1
<1>6. Places(text, <<a>>) = IF a = x THEN {n + 1} ELSE {}
  BY <1>2, <1>5
<1> QED BY <1>4, <1>6

\* Between two plain texts the only such characters are those of the operator.
LEMMA BetweenPlainTexts ==
  ASSUME NEW field \in Texts, NEW lit \in Texts, NEW op \in Texts
  PROVE  LET text == Written(field, op, lit)
         IN  /\ text \in Texts /\ Len(text) = Len(field) + Len(op) + Len(lit)
             /\ \A k \in 1 .. Len(op) : text[Len(field) + k] = op[k]
             /\ Plain(field) =>
                  \A k \in 1 .. Len(text) : text[k] \in Characters => k > Len(field)
             /\ Plain(lit) =>
                  \A k \in 1 .. Len(text) : text[k] \in Characters =>
                                              k <= Len(field) + Len(op)
<1> DEFINE text == Written(field, op, lit)
<1>1. /\ Len(op) \in Nat /\ Len(field) \in Nat /\ Len(lit) \in Nat
      /\ DOMAIN field = 1 .. Len(field) /\ DOMAIN lit = 1 .. Len(lit)
  BY DEF Texts
<1>2. /\ text \in Texts /\ Len(text) = Len(field) + Len(op) + Len(lit)
      /\ \A k \in 1 .. Len(field) : text[k] = field[k]
      /\ \A k \in 1 .. Len(op) : text[Len(field) + k] = op[k]
      /\ \A k \in 1 .. Len(lit) : text[Len(field) + Len(op) + k] = lit[k]
  BY <1>1 DEF Texts, Written
<1> HIDE DEF text
<1>3. ASSUME Plain(field), NEW k \in 1 .. Len(text), text[k] \in Characters
      PROVE  k > Len(field)
  <2>1. k \notin 1 .. Len(field)
    BY <1>1, <1>2, <1>3 DEF Plain, Characters
  <2> QED BY <1>1, <1>2, <2>1
<1>4. ASSUME Plain(lit), NEW k \in 1 .. Len(text), text[k] \in Characters
      PROVE  k <= Len(field) + Len(op)
  <2> SUFFICES ASSUME k > Len(field) + Len(op) PROVE FALSE
    BY <1>1, <1>2
  <2> DEFINE l == k - Len(field) - Len(op)
  <2>1. l \in 1 .. Len(lit) /\ Len(field) + Len(op) + l = k
    BY <1>1, <1>2
  <2>2. text[k] = lit[l]
    <3> HIDE DEF l
    <3> QED BY <1>2, <2>1
  <2> QED BY <1>1, <1>4, <2>1, <2>2 DEF Plain, Characters
<1> QED BY <1>2, <1>3, <1>4 DEF text

\* A two-character operator written between plain texts is found there, and
\* no other two-character operator anywhere.
LEMMA TwoBetween ==
  ASSUME NEW field \in Texts, NEW lit \in Texts, Plain(field), Plain(lit),
         NEW x \in Characters, NEW y \in Characters,
         NEW a \in Characters, NEW b \in Characters
  PROVE  Places(Written(field, <<x, y>>, lit), <<a, b>>) =
           IF a = x /\ b = y THEN {Len(field) + 1} ELSE {}
<1> DEFINE op == <<x, y>>
           text == Written(field, op, lit)
<1>1. op \in Texts /\ Len(op) = 2 /\ op[1] = x /\ op[2] = y
  BY CharactersAreTokens DEF Texts
<1> HIDE DEF op
<1>2. Len(field) \in Nat /\ Len(lit) \in Nat
  BY DEF Texts
<1>3. /\ text \in Texts /\ Len(text) = Len(field) + Len(op) + Len(lit)
      /\ \A k \in 1 .. Len(op) : text[Len(field) + k] = op[k]
      /\ \A k \in 1 .. Len(text) : text[k] \in Characters => k > Len(field)
      /\ \A k \in 1 .. Len(text) : text[k] \in Characters => k <= Len(field) + Len(op)
  <2>1. Plain(lit) => \A k \in 1 .. Len(text) :
                        text[k] \in Characters => k <= Len(field) + Len(op)
    BY <1>1, BetweenPlainTexts
  <2>2. Plain(field) => \A k \in 1 .. Len(text) : text[k] \in Characters => k > Len(field)
    BY <1>1, BetweenPlainTexts
  <2>3. /\ text \in Texts /\ Len(text) = Len(field) + Len(op) + Len(lit)
        /\ \A k \in 1 .. Len(op) : text[Len(field) + k] = op[k]
    <3>1. op \in Texts
      BY <1>1
    <3> QED BY <3>1, BetweenPlainTexts
  <2> QED BY <2>1, <2>2, <2>3
<1> DEFINE n == Len(field)
<1> HIDE DEF text
<1>4. /\ n \in Nat /\ n + 2 <= Len(text) /\ text \in Texts
      /\ text[n + 1] = x /\ text[n + 2] = y
      /\ \A k \in 1 .. Len(text) : text[k] \in Characters => k = n + 1 \/ k = n + 2
  BY <1>1, <1>2, <1>3
<1> HIDE DEF n
<1>5. Places(text, <<a, b>>) =
        IF a = text[n + 1] /\ b = text[n + 2] THEN {n + 1} ELSE {}
  BY <1>4, PlacesOfTwo
<1>6. Places(text, <<a, b>>) = IF a = x /\ b = y THEN {n + 1} ELSE {}
  BY <1>4, <1>5
<1> QED BY <1>6 DEF text, n, op

\* A one-character operator written between plain texts is found there, and
\* no two-character operator anywhere.
LEMMA OneBetween ==
  ASSUME NEW field \in Texts, NEW lit \in Texts, Plain(field), Plain(lit),
         NEW x \in Characters,
         NEW a \in Characters, NEW b \in Characters
  PROVE  /\ Places(Written(field, <<x>>, lit), <<a, b>>) = {}
         /\ Places(Written(field, <<x>>, lit), <<a>>) = IF a = x THEN {Len(field) + 1} ELSE {}
<1> DEFINE op == <<x>>
           text == Written(field, op, lit)
<1>1. op \in Texts /\ Len(op) = 1 /\ op[1] = x
  BY CharactersAreTokens DEF Texts
<1> HIDE DEF op
<1>2. Len(field) \in Nat /\ Len(lit) \in Nat
  BY DEF Texts
<1>3. /\ text \in Texts /\ Len(text) = Len(field) + Len(op) + Len(lit)
      /\ \A k \in 1 .. Len(op) : text[Len(field) + k] = op[k]
      /\ \A k \in 1 .. Len(text) : text[k] \in Characters => k > Len(field)
      /\ \A k \in 1 .. Len(text) : text[k] \in Characters => k <= Len(field) + Len(op)
  <2>1. Plain(lit) => \A k \in 1 .. Len(text) :
                        text[k] \in Characters => k <= Len(field) + Len(op)
    BY <1>1, BetweenPlainTexts
  <2>2. Plain(field) => \A k \in 1 .. Len(text) : text[k] \in Characters => k > Len(field)
    BY <1>1, BetweenPlainTexts
  <2>3. /\ text \in Texts /\ Len(text) = Len(field) + Len(op) + Len(lit)
        /\ \A k \in 1 .. Len(op) : text[Len(field) + k] = op[k]
    <3>1. op \in Texts
      BY <1>1
    <3> QED BY <3>1, BetweenPlainTexts
  <2> QED BY <2>1, <2>2, <2>3
<1> DEFINE n == Len(field)
<1> HIDE DEF text
<1>4. /\ n \in Nat /\ n + 1 <= Len(text) /\ text \in Texts
      /\ text[n + 1] = x
      /\ \A k \in 1 .. Len(text) : text[k] \in Characters => k = n + 1
  BY <1>1, <1>2, <1>3
<1> HIDE DEF n
<1>5. /\ Places(text, <<a, b>>) = {}
      /\ Places(text, <<a>>) = IF a = x THEN {n + 1} ELSE {}
  BY <1>4, PlacesOfOne
<1> QED BY <1>5 DEF text, n, op

\* So the operator is found where it is written, and no earlier one anywhere.
LEMMA PlacesBetween ==
  ASSUME NEW field \in Texts, NEW lit \in Texts, Plain(field), Plain(lit), NEW o \in 1 .. 6
  PROVE  /\ \A j \in 1 .. o - 1 : Places(Written(field, Operators[o], lit), Operators[j]) = {}
         /\ Places(Written(field, Operators[o], lit), Operators[o]) = {Len(field) + 1}
<1>1. "=" \in Characters /\ "!" \in Characters /\ "<" \in Characters /\ ">" \in Characters
  BY DEF Characters
<1>2. \A x, y, a, b \in Characters :
        Places(Written(field, <<x, y>>, lit), <<a, b>>) =
          IF a = x /\ b = y THEN {Len(field) + 1} ELSE {}
  BY TwoBetween
<1>3. \A x, a, b \in Characters :
        /\ Places(Written(field, <<x>>, lit), <<a, b>>) = {}
        /\ Places(Written(field, <<x>>, lit), <<a>>) = IF a = x THEN {Len(field) + 1} ELSE {}
  BY OneBetween
<1>0. /\ Places(Written(field, <<">">>, lit), <<"=", "=">>) = {}
      /\ Places(Written(field, <<">">>, lit), <<"!", "=">>) = {}
      /\ Places(Written(field, <<">">>, lit), <<">", "=">>) = {}
      /\ Places(Written(field, <<">">>, lit), <<"<", "=">>) = {}
      /\ Places(Written(field, <<">">>, lit), <<">">>) = {Len(field) + 1}
      /\ Places(Written(field, <<"<">>, lit), <<"=", "=">>) = {}
      /\ Places(Written(field, <<"<">>, lit), <<"!", "=">>) = {}
      /\ Places(Written(field, <<"<">>, lit), <<">", "=">>) = {}
      /\ Places(Written(field, <<"<">>, lit), <<"<", "=">>) = {}
      /\ Places(Written(field, <<"<">>, lit), <<">">>) = {}
      /\ Places(Written(field, <<"<">>, lit), <<"<">>) = {Len(field) + 1}
  BY <1>1, <1>3
<1>4. CASE o = 1
  <2>1. 1 .. o - 1 = {}
    BY <1>4
  <2> QED BY <1>1, <1>2, <1>4, <2>1, OperatorsInOrder
<1>5. CASE o = 2
  <2>1. 1 .. o - 1 = {1}
    BY <1>5
  <2> QED BY <1>1, <1>2, <1>5, <2>1, OperatorsInOrder
<1>6. CASE o = 3
  <2>1. 1 .. o - 1 = {1, 2}
    BY <1>6
  <2> QED BY <1>1, <1>2, <1>6, <2>1, OperatorsInOrder
<1>7. CASE o = 4
  <2>1. 1 .. o - 1 = {1, 2, 3}
    BY <1>7
  <2> QED BY <1>1, <1>2, <1>7, <2>1, OperatorsInOrder
<1>8. CASE o = 5
  <2>1. 1 .. o - 1 = {1, 2, 3, 4}
    BY <1>8
  <2> QED BY <1>0, <1>8, <2>1, OperatorsInOrder
<1>9. CASE o = 6
  <2>1. 1 .. o - 1 = {1, 2, 3, 4, 5}
    BY <1>9
  <2> QED BY <1>0, <1>9, <2>1, OperatorsInOrder
<1>10. o = 1 \/ o = 2 \/ o = 3 \/ o = 4 \/ o = 5 \/ o = 6
  OBVIOUS
<1> QED BY <1>4, <1>5, <1>6, <1>7, <1>8, <1>9, <1>10

\* "==" is looked for first of all, so what is written after it does not count.
LEMMA EqualityIsFirst ==
  ASSUME NEW field \in Texts, NEW lit \in Texts, Plain(field)
  PROVE  /\ \A k \in Places(Written(field, <<"=", "=">>, lit), <<"=", "=">>) : k > Len(field)
         /\ Len(field) + 1 \in Places(Written(field, <<"=", "=">>, lit), <<"=", "=">>)
<1> DEFINE op == <<"=", "=">>
           text == Written(field, op, lit)
<1>1. "=" \in Alphabet /\ "=" \in Characters
  BY OperatorCharacters DEF Characters
<1>2. op \in Texts /\ Len(op) = 2 /\ op[1] = "=" /\ op[2] = "="
  BY <1>1 DEF Texts
<1>3. Len(field) \in Nat /\ Len(lit) \in Nat
  BY DEF Texts
<1> HIDE DEF op
<1>4. /\ text \in Texts /\ Len(text) = Len(field) + Len(op) + Len(lit)
      /\ \A k \in 1 .. Len(op) : text[Len(field) + k] = op[k]
      /\ \A k \in 1 .. Len(text) : text[k] \in Characters => k > Len(field)
  <2>1. op \in Texts
    BY <1>2
  <2> HIDE DEF text
  <2>2. /\ text \in Texts /\ Len(text) = Len(field) + Len(op) + Len(lit)
        /\ \A k \in 1 .. Len(op) : text[Len(field) + k] = op[k]
    BY <2>1, BetweenPlainTexts DEF text
  <2>3. \A k \in 1 .. Len(text) : text[k] \in Characters => k > Len(field)
    BY <2>1, BetweenPlainTexts DEF text
  <2> QED BY <2>2, <2>3
<1> HIDE DEF text
<1>5. Places(text, op) =
        {k \in 1 .. Len(text) : k < Len(text) /\ text[k] = "=" /\ text[k + 1] = "="}
  <2>1. text \in Texts
    BY <1>4
  <2>2. \A a, b \in Alphabet :
          Places(text, <<a, b>>) =
            {k \in 1 .. Len(text) : k < Len(text) /\ text[k] = a /\ text[k + 1] = b}
    BY <2>1, PlacesOfOperators
  <2> QED BY <1>1, <2>2 DEF op
<1>6. /\ Len(field) + 1 \in 1 .. Len(text) /\ Len(field) + 1 < Len(text)
      /\ text[Len(field) + 1] = "=" /\ text[Len(field) + 1 + 1] = "="
  <2>1. text[Len(field) + 1] = "=" /\ text[Len(field) + 2] = "="
    BY <1>2, <1>4
  <2>2. Len(field) + 1 + 1 = Len(field) + 2
    BY <1>3
  <2> QED BY <1>2, <1>3, <1>4, <2>1, <2>2
<1>7. /\ \A k \in Places(text, op) : k > Len(field)
      /\ Len(field) + 1 \in Places(text, op)
  BY <1>1, <1>4, <1>5, <1>6
<1> QED BY <1>7 DEF text, op

\* What EvalCondition compares: plain texts with an operator between them, and
\* anything after the first "==".
LEMMA ComparisonIsRead ==
  ASSUME NEW field \in Texts, NEW lit \in Texts, Plain(field), NEW o \in 1 .. 6,
         Plain(lit) \/ o = 1, NEW document
  PROVE  EvalCondition(Written(field, Operators[o], lit), document)
           <=> Compare(LookupPath(document, field), Operators[o], lit)
<1> DEFINE text == Written(field, Operators[o], lit)
<1>1. Len(field) \in Nat
  BY DEF Texts
<1>2. text # << >> /\ Operators[o] # << >>
  <2>1. o = 1 \/ o = 2 \/ o = 3 \/ o = 4 \/ o = 5 \/ o = 6
    OBVIOUS
  <2>2. Operators[o] # << >>
    BY <2>1, OperatorsInOrder
  <2> DEFINE op == Operators[o]
  <2>3. op \in Texts /\ op # << >>
    BY <2>2, OperatorCharacters
  <2> HIDE DEF op
  <2>4. field \o op \o lit # << >>
    BY <2>3, ConcatProperties, ConcatEqualIffEmpty DEF Texts
  <2> QED BY <2>2, <2>4 DEF op, Written
<1>3. /\ \A j \in 1 .. o - 1 : Places(text, Operators[j]) = {}
      /\ \A k \in Places(text, Operators[o]) : k > Len(field)
      /\ Len(field) + 1 \in Places(text, Operators[o])
  <2>1. CASE Plain(lit)
    <3>1. /\ \A j \in 1 .. o - 1 : Places(text, Operators[j]) = {}
          /\ Places(text, Operators[o]) = {Len(field) + 1}
      BY <2>1, PlacesBetween
    <3>2. Len(field) + 1 > Len(field)
      BY <1>1
    <3> QED BY <3>1, <3>2
  <2>2. CASE o = 1
    <3>1. Operators[o] = <<"=", "=">> /\ 1 .. o - 1 = {}
      BY <2>2, OperatorsInOrder
    <3> QED BY <3>1, EqualityIsFirst
  <2> QED BY <2>1, <2>2
<1>4. SplitExpr(text) = [op |-> Operators[o], path |-> field, lit |-> lit]
  BY <1>3, SplitAt
<1> HIDE DEF text
<1>5. EvalCondition(text, document)
        <=> Compare(LookupPath(document, field), Operators[o], lit)
  BY <1>2, <1>4 DEF EvalCondition
<1> QED BY <1>5 DEF text

-----------------------------------------------------------------------------
(***************************************************************************)
(* What is compared: numbers, or texts.                                    *)
(***************************************************************************)

\* A token reads as one number or as none.
LEMMA NumeralsAreNumbers ==
  /\ DOMAIN Numerals = {"0", "9", "10", "nan"}
  /\ \A t \in DOMAIN Numerals : Numerals[t] \in Int
<1>1. DOMAIN Numerals = {"0", "9", "10", "nan"}
  BY DEF Numerals
<1>2. /\ Numerals["0"] = 0 /\ Numerals["9"] = 9 /\ Numerals["10"] = 10
      /\ Numerals["nan"] = NaN
  BY DEF Numerals
<1> QED BY <1>1, <1>2 DEF NaN

\* A text is one number or none.
LEMMA ParsesToOne ==
  ASSUME NEW text
  PROVE  /\ ParseNumber(text) \subseteq Int
         /\ \A m, n \in ParseNumber(text) : m = n
<1>1. \A u, v : <<u>> = <<v>> => u = v
  OBVIOUS
<1> QED BY <1>1, NumeralsAreNumbers DEF ParseNumber

\* And so is a value.
LEMMA NumberOfValue ==
  ASSUME NEW value, IsValue(value)
  PROVE  /\ ToNumber(value) \subseteq Int
         /\ \A m, n \in ToNumber(value) : m = n
<1>1. CASE value.type = "number"
  <2>1. ToNumber(value) = {value.is}
    BY <1>1 DEF ToNumber
  <2>2. value.is \in Int
    BY <1>1, NumeralsAreNumbers DEF IsValue
  <2> QED BY <2>1, <2>2
<1>2. CASE value.type = "string"
  <2>1. ToNumber(value) = ParseNumber(value.is)
    BY <1>2 DEF ToNumber
  <2> QED BY <2>1, ParsesToOne
<1>3. CASE value.type # "number" /\ value.type # "string"
  <2>1. ToNumber(value) = {}
    BY <1>3 DEF ToNumber
  <2> QED BY <2>1
<1> QED BY <1>1, <1>2, <1>3

\* Every value is written as a text.
LEMMA TextOfValue ==
  ASSUME NEW value, IsValue(value)
  PROVE  AsString(value) \in Texts
<1>1. \A a \in Alphabet : <<a>> \in Texts
  BY DEF Texts
<1>2. CASE value.type = "number"
  <2>1. PICK t \in DOMAIN Numerals : value.is = Numerals[t]
    BY <1>2 DEF IsValue
  <2>2. ParseNumber(<<t>>) = {value.is}
    <3>1. \A u, v : <<u>> = <<v>> => u = v
      OBVIOUS
    <3> QED BY <2>1, <3>1 DEF ParseNumber
  <2>3. AsString(value) \in {<<u>> : u \in DOMAIN Numerals}
    <3> DEFINE S == {<<u>> : u \in DOMAIN Numerals}
    <3>1. \E s \in S : ParseNumber(s) = {value.is}
      BY <2>2
    <3>2. AsString(value) = CHOOSE s \in S : ParseNumber(s) = {value.is}
      BY <1>2 DEF AsString
    <3> HIDE DEF S
    <3>3. AsString(value) \in S
      BY <3>1, <3>2
    <3> QED BY <3>3 DEF S
  <2> QED BY <1>1, <2>3, NumeralsAreNumbers, WordsOfValues
<1>3. CASE value.type = "nil"
  BY <1>3 DEF AsString, Texts
<1>4. CASE value.type = "string"
  BY <1>4 DEF AsString, IsValue, Texts
<1>5. CASE value.type = "bool"
  <2>1. AsString(value) = <<"true">> \/ AsString(value) = <<"false">>
    BY <1>5 DEF AsString
  <2> QED BY <1>1, <2>1, WordsOfValues
<1>6. CASE value.type \notin {"number", "nil", "string", "bool"}
  <2>1. AsString(value) = <<"map">>
    BY <1>6 DEF AsString
  <2> QED BY <1>1, <2>1, WordsOfValues
<1> QED BY <1>2, <1>3, <1>4, <1>5, <1>6

\* What a literal quotes is a text.
LEMMA TextOfLiteral ==
  ASSUME NEW lit \in Texts
  PROVE  Unquote(lit) \in Texts
<1>1. CASE Len(lit) >= 2
  <2>1. \A k \in 2 .. Len(lit) - 1 : lit[k] \in Alphabet
    BY <1>1 DEF Texts
  <2>2. SubSeq(lit, 2, Len(lit) - 1) \in Seq(Alphabet)
    BY <1>1, <2>1, SubSeqProperties DEF Texts
  <2> QED BY <2>2 DEF Unquote, Texts
<1>2. CASE ~(Len(lit) >= 2)
  BY <1>2 DEF Unquote
<1> QED BY <1>1, <1>2

\* A quotation is unquoted to what it quotes, and is no number.
LEMMA QuotationIsRead ==
  ASSUME NEW text \in Texts
  PROVE  /\ Quoted(text) \in Texts
         /\ Unquote(Quoted(text)) = text
         /\ text # << >> => ParseNumber(Quoted(text)) = {}
<1>1. Quote \in Alphabet
  <2>1. 2 \in DOMAIN Tokens /\ Tokens[2] = "'"
    BY DEF Tokens
  <2> QED BY <2>1 DEF Quote, Alphabet
<1> DEFINE quoted == Quoted(text)
<1>2. /\ quoted \in Texts /\ Len(quoted) = Len(text) + 2 /\ Len(text) \in Nat
      /\ quoted[1] = Quote /\ quoted[Len(text) + 2] = Quote
      /\ \A k \in 1 .. Len(text) : quoted[k + 1] = text[k]
  BY <1>1 DEF Texts, Quoted
<1> HIDE DEF quoted
<1>3. Len(quoted) - 1 = Len(text) + 1
  BY <1>2
<1>4. Unquote(quoted) = SubSeq(quoted, 2, Len(quoted) - 1)
  <2>1. Len(quoted) >= 2 /\ Head(quoted) = quoted[1] /\ Last(quoted) = quoted[Len(quoted)]
    BY <1>2 DEF Texts, Last
  <2> QED BY <1>2, <2>1 DEF Unquote
<1>5. SubSeq(quoted, 2, Len(quoted) - 1) = text
  <2>1. \A k \in 2 .. Len(text) + 1 : quoted[k] \in Alphabet
    BY <1>2 DEF Texts
  <2> DEFINE inner == SubSeq(quoted, 2, Len(text) + 1)
  <2>2. /\ inner \in Seq(Alphabet) /\ Len(inner) = Len(text)
        /\ \A k \in 1 .. Len(text) : inner[k] = quoted[2 + k - 1]
    BY <1>2, <2>1, SubSeqProperties DEF Texts
  <2> HIDE DEF inner
  <2>3. \A k \in 1 .. Len(text) : inner[k] = text[k]
    BY <1>2, <2>2
  <2>4. inner = text
    BY <2>2, <2>3, SeqEqual DEF Texts
  <2> QED BY <1>3, <2>4 DEF inner
<1>6. ASSUME text # << >> PROVE ParseNumber(quoted) = {}
  <2>1. \A u : Len(<<u>>) = 1
    OBVIOUS
  <2>2. Len(quoted) # 1
    BY <1>2
  <2> QED BY <2>1, <2>2 DEF ParseNumber
<1> QED BY <1>2, <1>4, <1>5, <1>6 DEF quoted

\* What the six operators mean.
LEMMA OperatorsMean ==
  ASSUME NEW less \in BOOLEAN, NEW equal \in BOOLEAN, NEW greater \in BOOLEAN
  PROVE  /\ Apply(Operators[1], less, equal, greater) <=> equal
         /\ Apply(Operators[2], less, equal, greater) <=> ~equal
         /\ Apply(Operators[3], less, equal, greater) <=> greater \/ equal
         /\ Apply(Operators[4], less, equal, greater) <=> less \/ equal
         /\ Apply(Operators[5], less, equal, greater) <=> greater
         /\ Apply(Operators[6], less, equal, greater) <=> less
<1>1. /\ <<"!", "=">> # <<"=", "=">> /\ <<">">> # <<"=", "=">> /\ <<">">> # <<"!", "=">>
      /\ <<"<">> # <<"=", "=">> /\ <<"<">> # <<"!", "=">> /\ <<"<">> # <<">">>
      /\ <<">", "=">> # <<"=", "=">> /\ <<">", "=">> # <<"!", "=">>
      /\ <<">", "=">> # <<">">> /\ <<">", "=">> # <<"<">>
      /\ <<"<", "=">> # <<"=", "=">> /\ <<"<", "=">> # <<"!", "=">>
      /\ <<"<", "=">> # <<">">> /\ <<"<", "=">> # <<"<">> /\ <<"<", "=">> # <<">", "=">>
  OBVIOUS
<1> QED BY <1>1, OperatorsInOrder DEF Apply

\* What is compared is less than the literal, equal to it or greater, and the
\* operators ask which.
LEMMA ComparisonsInOrder ==
  ASSUME NEW value, IsValue(value), NEW lit \in Texts,
         NaN \notin ToNumber(value) \cup ParseNumber(lit)
  PROVE  \E less, equal, greater \in BOOLEAN :
           /\ less => ~equal /\ ~greater
           /\ equal => ~greater
           /\ less \/ equal \/ greater
           /\ \A op : Compare(value, op, lit) <=> Apply(op, less, equal, greater)
<1>1. CASE ToNumber(value) # {} /\ ParseNumber(lit) # {}
  <2>1. PICK m \in ToNumber(value), n \in ParseNumber(lit) : TRUE
    BY <1>1
  <2>2. m \in Int /\ n \in Int /\ NaN \notin {m, n}
    BY <2>1, NumberOfValue, ParsesToOne
  <2>3. ToNumber(value) = {m} /\ ParseNumber(lit) = {n}
    BY <2>1, NumberOfValue, ParsesToOne
  <2>4. ASSUME NEW op PROVE Compare(value, op, lit) <=> Apply(op, m < n, m = n, m > n)
    BY <1>1, <2>2, <2>3 DEF Compare
  <2>5. /\ (m < n) \in BOOLEAN /\ (m = n) \in BOOLEAN /\ (m > n) \in BOOLEAN
        /\ m < n => ~(m = n) /\ ~(m > n)
        /\ m = n => ~(m > n)
        /\ m < n \/ m = n \/ m > n
    BY <2>2
  <2> QED BY <2>4, <2>5
<1>2. CASE ~(ToNumber(value) # {} /\ ParseNumber(lit) # {})
  <2> DEFINE s == AsString(value)
             t == Unquote(lit)
  <2>1. s \in Texts /\ t \in Texts
    BY TextOfValue, TextOfLiteral
  <2>2. ASSUME NEW op
        PROVE  Compare(value, op, lit) <=> Apply(op, Before(s, t), s = t, Before(t, s))
    BY <1>2 DEF Compare
  <2> HIDE DEF s, t
  <2>3. /\ Before(s, t) => ~(s = t) /\ ~Before(t, s)
        /\ s = t => ~Before(t, s)
        /\ Before(s, t) \/ s = t \/ Before(t, s)
    BY <2>1, TextsInOrder
  <2>4. Before(s, t) \in BOOLEAN /\ (s = t) \in BOOLEAN /\ Before(t, s) \in BOOLEAN
    BY DEF Before
  <2> QED BY <2>2, <2>3, <2>4
<1> QED BY <1>1, <1>2

-----------------------------------------------------------------------------
\* The arguments of a call: a workflow, and a payload of values.
Arguments ==
  /\ steps \in Seq(Step)
  /\ \A k \in DOMAIN steps : IsValue(LookupPath(payload, steps[k].cond.path))

\* No step of a call changes its arguments.
LEMMA ArgumentsInvariant == Spec => []Arguments
<1>1. Init => Arguments
  BY CallsAssumption DEF Init, Arguments
<1>2. Arguments /\ [Next]_vars => Arguments'
  <2> SUFFICES ASSUME Arguments, [Next]_vars PROVE Arguments'
    OBVIOUS
  <2>1. UNCHANGED args
    BY DEF Next, ExceedMaxSteps, WalkOn, PauseAtDelay, ReachEnd, Return, vars, args
  <2> QED BY <2>1 DEF Arguments, args
<1> QED BY <1>1, <1>2, PTL DEF Spec

\* A condition that a call comes to is asked of a value.
LEMMA AskedOfValues ==
  ASSUME Arguments, NEW c \in Asked
  PROVE  /\ c.path \in Texts /\ c.op \in Texts /\ c.lit \in Texts
         /\ IsValue(LookupPath(payload, c.path))
<1>1. PICK k \in DOMAIN steps : c = steps[k].cond
  BY DEF Asked
<1>2. steps[k] \in Step
  BY DEF Arguments
<1>3. c \in Condition
  BY <1>1, <1>2 DEF Step
<1> QED BY <1>1, <1>3 DEF Arguments, Condition, Texts

\* What holds of the payload is what its comparison says.
LEMMA HoldsIsCompare ==
  ASSUME NEW field \in Texts, NEW lit \in Texts, Plain(field), NEW o \in 1 .. 6,
         Plain(lit) \/ o = 1
  PROVE  Holds(field, Operators[o], lit)
           <=> Compare(LookupPath(payload, field), Operators[o], lit)
BY ComparisonIsRead DEF Holds, Written

\* The six operators agree with one another.
LEMMA OperatorsAgreeOn ==
  ASSUME NEW field \in Texts, NEW lit \in Texts, Plain(field), Plain(lit),
         IsValue(LookupPath(payload, field)),
         NaN \notin ToNumber(LookupPath(payload, field)) \cup ParseNumber(lit)
  PROVE  LET holds(op) == Holds(field, op, lit)
             less == holds(<<"<">>)  equal == holds(<<"=", "=">>)  greater == holds(<<">">>)
         IN  /\ less => ~equal /\ ~greater
             /\ equal => ~greater
             /\ less \/ equal \/ greater
             /\ holds(<<"!", "=">>) <=> ~equal
             /\ holds(<<"<", "=">>) <=> ~greater
             /\ holds(<<">", "=">>) <=> ~less
<1>1. PICK less, equal, greater \in BOOLEAN :
        /\ less => ~equal /\ ~greater
        /\ equal => ~greater
        /\ less \/ equal \/ greater
        /\ \A op : Compare(LookupPath(payload, field), op, lit)
                     <=> Apply(op, less, equal, greater)
  BY ComparisonsInOrder
<1>2. \A o \in 1 .. 6 : Holds(field, Operators[o], lit)
                          <=> Apply(Operators[o], less, equal, greater)
  BY <1>1, HoldsIsCompare
<1>3. /\ Holds(field, Operators[1], lit) <=> equal
      /\ Holds(field, Operators[2], lit) <=> ~equal
      /\ Holds(field, Operators[3], lit) <=> greater \/ equal
      /\ Holds(field, Operators[4], lit) <=> less \/ equal
      /\ Holds(field, Operators[5], lit) <=> greater
      /\ Holds(field, Operators[6], lit) <=> less
  BY <1>2, OperatorsMean
<1>4. /\ Holds(field, <<"=", "=">>, lit) <=> equal
      /\ Holds(field, <<"!", "=">>, lit) <=> ~equal
      /\ Holds(field, <<">", "=">>, lit) <=> greater \/ equal
      /\ Holds(field, <<"<", "=">>, lit) <=> less \/ equal
      /\ Holds(field, <<">">>, lit) <=> greater
      /\ Holds(field, <<"<">>, lit) <=> less
  BY <1>3, OperatorsInOrder
<1> QED BY <1>1, <1>4

\* A text is equal to its own quotation and to no other.
LEMMA QuotationIsExactOn ==
  ASSUME NEW field \in Texts, NEW lit \in Texts, Plain(field), lit # << >>,
         LookupPath(payload, field).type = "string"
  PROVE  Holds(field, <<"=", "=">>, Quoted(lit))
           <=> LookupPath(payload, field).is = lit
<1> DEFINE value == LookupPath(payload, field)
           quoted == Quoted(lit)
<1>1. /\ quoted \in Texts /\ Unquote(quoted) = lit /\ ParseNumber(quoted) = {}
  BY QuotationIsRead
<1> HIDE DEF quoted
<1>2. Holds(field, <<"=", "=">>, quoted) <=> Compare(value, <<"=", "=">>, quoted)
  <2>1. Holds(field, Operators[1], quoted) <=> Compare(value, Operators[1], quoted)
    BY <1>1, HoldsIsCompare
  <2> HIDE DEF value
  <2> QED BY <2>1, OperatorsInOrder
<1> HIDE DEF value
<1>3. AsString(value) = value.is
  BY DEF AsString, value
<1>4. Compare(value, <<"=", "=">>, quoted) <=> value.is = lit
  <2>1. Compare(value, <<"=", "=">>, quoted)
          <=> Apply(<<"=", "=">>, Before(value.is, lit), value.is = lit, Before(lit, value.is))
    BY <1>1, <1>3 DEF Compare
  <2>2. \A l, e, g : Apply(<<"=", "=">>, l, e, g) = e
    BY DEF Apply
  <2> QED BY <2>1, <2>2
<1> QED BY <1>2, <1>4 DEF value, quoted

\* The two properties of conditions, of every workflow and payload.
LEMMA ArgumentsSuffice == Arguments => ComparisonsAgree
<1> SUFFICES ASSUME Arguments PROVE OperatorsAgree /\ QuotationIsExact
  BY DEF ComparisonsAgree
<1>1. OperatorsAgree
  <2> SUFFICES ASSUME NEW c \in Asked,
                      NaN \notin ToNumber(LookupPath(payload, c.path)) \cup ParseNumber(c.lit),
                      Plain(c.path), Plain(c.lit)
               PROVE  LET holds(op) == Holds(c.path, op, c.lit)
                          less == holds(<<"<">>)
                          equal == holds(<<"=", "=">>)
                          greater == holds(<<">">>)
                      IN  /\ less => ~equal /\ ~greater
                          /\ equal => ~greater
                          /\ less \/ equal \/ greater
                          /\ holds(<<"!", "=">>) = ~equal
                          /\ holds(<<"<", "=">>) = ~greater
                          /\ holds(<<">", "=">>) = ~less
    BY DEF OperatorsAgree
  <2>1. c.path \in Texts /\ c.lit \in Texts /\ IsValue(LookupPath(payload, c.path))
    BY AskedOfValues
  <2> DEFINE holds(op) == Holds(c.path, op, c.lit)
  <2>2. /\ holds(<<"<">>) => ~holds(<<"=", "=">>) /\ ~holds(<<">">>)
        /\ holds(<<"=", "=">>) => ~holds(<<">">>)
        /\ holds(<<"<">>) \/ holds(<<"=", "=">>) \/ holds(<<">">>)
        /\ holds(<<"!", "=">>) <=> ~holds(<<"=", "=">>)
        /\ holds(<<"<", "=">>) <=> ~holds(<<">">>)
        /\ holds(<<">", "=">>) <=> ~holds(<<"<">>)
    BY <2>1, OperatorsAgreeOn
  <2>3. \A op : holds(op) \in BOOLEAN
    BY DEF Holds, EvalCondition
  <2> HIDE DEF holds
  <2>4. /\ holds(<<"!", "=">>) = ~holds(<<"=", "=">>)
        /\ holds(<<"<", "=">>) = ~holds(<<">">>)
        /\ holds(<<">", "=">>) = ~holds(<<"<">>)
    BY <2>2, <2>3
  <2> QED BY <2>2, <2>4 DEF holds
<1>2. QuotationIsExact
  <2> SUFFICES ASSUME NEW c \in Asked, LookupPath(payload, c.path).type = "string",
                      Plain(c.path), c.op = <<"=", "=">>, c.lit # << >>
               PROVE  Holds(c.path, c.op, Quoted(c.lit))
                        <=> LookupPath(payload, c.path).is = c.lit
    BY DEF QuotationIsExact
  <2>1. c.path \in Texts /\ c.lit \in Texts
    BY AskedOfValues
  <2> QED BY <2>1, QuotationIsExactOn
<1> QED BY <1>1, <1>2

\* The operators of a condition agree with one another, and a text is equal to
\* its own quotation only (condition.go:34-36 and 100-139): for every step that
\* a call comes to, whatever its path and literal spell and the payload holds.
THEOREM OperatorsAlwaysAgree == Spec => []ComparisonsAgree
BY ArgumentsInvariant, ArgumentsSuffice, PTL
=============================================================================
