------------------------- MODULE WorkflowStepsProofs -------------------------
(***************************************************************************)
(* Walks: what can be said of a loop like the one of executeFrom, which    *)
(* goes from an index i < n to f[i] until it has left the steps.  The walk *)
(* from an index ends, or it comes back to a step it has executed; a walk  *)
(* that ends executes no step twice and so at most n steps.                *)
(*                                                                         *)
(* "Ends" and "is reached" are least sets, which the definitions give as   *)
(* what every closed set has in common: no recursion, no induction.        *)
(***************************************************************************)
EXTENDS WorkflowSteps, FiniteSetTheorems, WellFoundedInduction, TLAPS

\* A non-empty set of indexes has a last one (which IdxByID chooses) and a
\* first one.  The proof takes the index after which, or before which, the
\* fewest indexes come.
LEMMA LastIndex ==
  ASSUME NEW n \in Nat, NEW D \in SUBSET (1 .. n), D # {}
  PROVE  \E k \in D : \A l \in D : l <= k
<1> DEFINE After(k) == (k + 1) .. n
           T == {After(k) : k \in D}
<1>1. ASSUME NEW k \in D PROVE After(k) \in FiniteSubsetsOf(1 .. n)
  <2>1. IsFiniteSet(After(k)) /\ After(k) \in SUBSET (1 .. n)
    BY FS_Interval
  <2> QED BY <2>1 DEF FiniteSubsetsOf
<1>2. T # {}
  OBVIOUS
<1>3. PICK x \in T : \A y \in T : <<y, x>> \notin StrictSubsetOrdering(1 .. n)
  <2>1. T \subseteq FiniteSubsetsOf(1 .. n)
    BY <1>1
  <2> HIDE DEF T
  <2> QED BY <2>1, <1>2, WFMin, FS_StrictSubsetOrderingWellFounded
<1>4. PICK k \in D : x = After(k)
  OBVIOUS
<1>5. ASSUME NEW l \in D, l > k PROVE FALSE
  <2>1. After(l) \subseteq After(k) /\ l \in After(k) /\ l \notin After(l)
    BY <1>5
  <2>2. <<After(l), After(k)>> \in StrictSubsetOrdering(1 .. n)
    BY <2>1 DEF StrictSubsetOrdering
  <2> QED BY <2>2, <1>3, <1>4
<1> QED BY <1>5

LEMMA FirstIndex ==
  ASSUME NEW n \in Nat, NEW D \in SUBSET (1 .. n), D # {}
  PROVE  \E k \in D : \A l \in D : k <= l
<1> DEFINE Mirror == {n + 1 - k : k \in D}
<1>1. Mirror \in SUBSET (1 .. n) /\ Mirror # {}
  <2>1. \A k \in D : n + 1 - k \in 1 .. n
    OBVIOUS
  <2>2. PICK k \in D : TRUE
    OBVIOUS
  <2> QED BY <2>1, <2>2
<1>2. PICK m \in Mirror : \A l \in Mirror : l <= m
  <2> HIDE DEF Mirror
  <2> QED BY <1>1, LastIndex
<1>3. PICK k \in D : m = n + 1 - k
  OBVIOUS
<1>4. ASSUME NEW l \in D PROVE k <= l
  <2>1. n + 1 - l \in Mirror
    OBVIOUS
  <2> QED BY <2>1, <1>2, <1>3
<1> QED BY <1>4

\* The successor of a step is a step or the end of the list.
LEMMA SuccessorType ==
  ASSUME NEW steps, Len(steps) \in Nat, DOMAIN steps = 1 .. Len(steps),
         NEW i \in Nat, i < Len(steps), NEW holding
  PROVE  Successor(steps, i, holding) \in 0 .. Len(steps)
<1>1. ASSUME NEW id, Knows(steps, id) PROVE IdxByID(steps, id) \in 0 .. Len(steps)
  <2> DEFINE D == {k \in DOMAIN steps : steps[k].id = id}
  <2>1. PICK k \in D : \A l \in D : l <= k
    <3>1. D \in SUBSET (1 .. Len(steps)) /\ D # {}
      BY <1>1 DEF Knows
    <3> HIDE DEF D
    <3> QED BY <3>1, LastIndex
  <2>2. \E l \in DOMAIN steps : /\ steps[l].id = id
                                /\ \A m \in DOMAIN steps : steps[m].id = id => m <= l
    BY <2>1
  <2>3. IdxByID(steps, id) + 1 \in DOMAIN steps /\ IdxByID(steps, id) \in Int
    BY <2>2 DEF IdxByID
  <2> QED BY <2>3
<1>2. NextIndex(steps, i) \in 0 .. Len(steps)
  BY <1>1 DEF NextIndex
<1>3. BranchIndex(steps, i, holding) \in 0 .. Len(steps)
  BY <1>1 DEF BranchIndex
<1> QED BY <1>2, <1>3 DEF Successor

-----------------------------------------------------------------------------
(* Walks.                                                                   *)

Below(n) == 0 .. n - 1
Moves(n) == [Below(n) -> Nat]

\* Q has every index past the end, and every step whose successor it has.
EndsInside(f, n, Q) ==
  /\ \A k \in Nat : k >= n => k \in Q
  /\ \A k \in Below(n) : f[k] \in Q => k \in Q

\* The indexes from which the walk ends.
Ending(f, n) == {i \in Nat : \A Q \in SUBSET Nat : EndsInside(f, n, Q) => i \in Q}

\* Q is not left by a step.
StaysInside(f, n, Q) == \A k \in Q : k < n => f[k] \in Q

\* The steps that the walk from i executes.
Orbit(f, n, i) ==
  {j \in Below(n) : \A Q \in SUBSET Nat : StaysInside(f, n, Q) /\ i \in Q => j \in Q}

-----------------------------------------------------------------------------
\* A walk ends exactly if it ends from the next step on.
LEMMA EndingStep ==
  ASSUME NEW n \in Nat, NEW f \in Moves(n)
  PROVE  /\ \A i \in Nat : i >= n => i \in Ending(f, n)
         /\ \A i \in Below(n) : i \in Ending(f, n) <=> f[i] \in Ending(f, n)
<1>1. ASSUME NEW i \in Nat, i >= n PROVE i \in Ending(f, n)
  BY <1>1 DEF Ending, EndsInside
<1>2. ASSUME NEW i \in Below(n), f[i] \in Ending(f, n) PROVE i \in Ending(f, n)
  BY <1>2 DEF Ending, EndsInside, Below
<1>3. ASSUME NEW i \in Below(n), i \in Ending(f, n), f[i] \notin Ending(f, n) PROVE FALSE
  <2> DEFINE Q == Ending(f, n) \ {i}
  <2>1. Q \in SUBSET Nat
    BY DEF Ending
  <2>2. EndsInside(f, n, Q)
    <3>1. \A k \in Nat : k >= n => k \in Q
      BY <1>1 DEF Below
    <3>2. ASSUME NEW k \in Below(n), f[k] \in Q PROVE k \in Q
      BY <1>2, <1>3, <3>2
    <3> QED BY <3>1, <3>2 DEF EndsInside
  <2>3. \A P \in SUBSET Nat : EndsInside(f, n, P) => i \in P
    BY <1>3 DEF Ending
  <2> QED BY <2>1, <2>2, <2>3
<1> QED BY <1>1, <1>2, <1>3

\* The walk from a step executes it and what the walk from the next executes.
LEMMA OrbitStep ==
  ASSUME NEW n \in Nat, NEW f \in Moves(n)
  PROVE  /\ \A i \in Nat : i >= n => Orbit(f, n, i) = {}
         /\ \A i \in Below(n) : Orbit(f, n, i) = {i} \cup Orbit(f, n, f[i])
<1>1. ASSUME NEW i \in Nat, i >= n PROVE Orbit(f, n, i) = {}
  <2>1. {i} \in SUBSET Nat /\ StaysInside(f, n, {i})
    BY <1>1 DEF StaysInside
  <2> QED BY <1>1, <2>1 DEF Orbit, Below
<1>2. ASSUME NEW i \in Below(n) PROVE i \in Orbit(f, n, i)
  BY DEF Orbit
<1>3. ASSUME NEW i \in Below(n), NEW j \in Orbit(f, n, f[i]) PROVE j \in Orbit(f, n, i)
  <2> SUFFICES ASSUME NEW Q \in SUBSET Nat, StaysInside(f, n, Q), i \in Q PROVE j \in Q
    BY DEF Orbit
  <2>1. f[i] \in Q
    BY DEF StaysInside, Below
  <2> QED BY <2>1 DEF Orbit
<1>4. ASSUME NEW i \in Below(n), NEW j \in Orbit(f, n, i), j # i
      PROVE  j \in Orbit(f, n, f[i])
  <2> SUFFICES ASSUME NEW Q \in SUBSET Nat, StaysInside(f, n, Q), f[i] \in Q PROVE j \in Q
    BY DEF Orbit
  <2> DEFINE P == Q \cup {i}
  <2>1. P \in SUBSET Nat /\ StaysInside(f, n, P) /\ i \in P
    BY DEF StaysInside, Below
  <2>2. j \in P
    <3> HIDE DEF P
    <3> QED BY <2>1 DEF Orbit
  <2> QED BY <1>4, <2>2
<1> QED BY <1>1, <1>2, <1>3, <1>4

\* A step that is executed again is one from which the walk does not end.
LEMMA CyclesDoNotEnd ==
  ASSUME NEW n \in Nat, NEW f \in Moves(n), NEW i \in Below(n),
         i \in Orbit(f, n, f[i])
  PROVE  i \notin Ending(f, n)
<1> DEFINE Y == {y \in Below(n) : i \in Orbit(f, n, y)}
           Q == Nat \ Y
<1>1. i \in Y
  BY OrbitStep
<1>2. ASSUME NEW k \in Below(n), k \in Y PROVE f[k] \in Y
  <2>1. i \in Orbit(f, n, f[k])
    BY <1>2, OrbitStep
  <2>2. f[k] \in Nat
    BY DEF Moves
  <2>3. f[k] \in Below(n)
    BY <2>1, <2>2, OrbitStep DEF Below
  <2> QED BY <2>1, <2>3
<1>3. EndsInside(f, n, Q)
  <2>1. \A k \in Nat : k >= n => k \in Q
    BY DEF Below
  <2>2. \A k \in Below(n) : k \in Nat
    BY DEF Below
  <2> HIDE DEF Y
  <2> QED BY <1>2, <2>1, <2>2 DEF EndsInside
<1>4. Q \in SUBSET Nat
  OBVIOUS
<1> HIDE DEF Y
<1> QED BY <1>1, <1>3, <1>4 DEF Ending

\* How many steps a walk executes: at most all of them, and one less with each
\* step, if it ends.
LEMMA OrbitSize ==
  ASSUME NEW n \in Nat, NEW f \in Moves(n)
  PROVE  /\ \A i \in Nat : /\ IsFiniteSet(Orbit(f, n, i))
                           /\ Cardinality(Orbit(f, n, i)) \in 0 .. n
         /\ \A i \in Below(n) :
              i \in Ending(f, n) =>
                Cardinality(Orbit(f, n, i)) = Cardinality(Orbit(f, n, f[i])) + 1
<1>1. IsFiniteSet(Below(n)) /\ Cardinality(Below(n)) = n
  BY FS_Interval DEF Below
<1>2. ASSUME NEW i
      PROVE  /\ IsFiniteSet(Orbit(f, n, i))
             /\ Cardinality(Orbit(f, n, i)) \in 0 .. n
  <2>1. Orbit(f, n, i) \subseteq Below(n)
    BY DEF Orbit
  <2>2. IsFiniteSet(Orbit(f, n, i))
    BY <1>1, <2>1, FS_Subset
  <2>3. Cardinality(Orbit(f, n, i)) <= Cardinality(Below(n))
    BY <1>1, <2>1, FS_Subset
  <2> QED BY <1>1, <2>2, <2>3, FS_CardinalityType
<1>3. ASSUME NEW i \in Below(n), i \in Ending(f, n)
      PROVE  Cardinality(Orbit(f, n, i)) = Cardinality(Orbit(f, n, f[i])) + 1
  <2>1. i \notin Orbit(f, n, f[i])
    BY <1>3, CyclesDoNotEnd
  <2>2. Orbit(f, n, i) = Orbit(f, n, f[i]) \cup {i}
    BY OrbitStep
  <2> QED BY <1>2, <2>1, <2>2, FS_AddElement
<1> QED BY <1>2, <1>3
=============================================================================
