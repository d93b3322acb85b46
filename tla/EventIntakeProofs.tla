-------------------------- MODULE EventIntakeProofs --------------------------
(***************************************************************************)
(* Theorems about EventIntake: its types, that an accepted event is on the *)
(* stream, that a claim is resolved, that the limit is kept and how often  *)
(* an event may be queued, for any number of overlapping requests and of   *)
(* faults and for every limit and window.                                  *)
(***************************************************************************)
EXTENDS EventIntake, FiniteSetTheorems, TLAPS

\* What the limiter does to its state, whichever way a request goes.
LEMMA UpToBound ==
  ASSUME NEW n \in Nat, NEW bound \in Nat
  PROVE  UpTo(n, bound) \in 0 .. bound
  BY DEF UpTo

\* A ghost that counts one more request, or grows older, keeps its type.
LEMMA GhostTypes ==
  ASSUME LimiterTypeOK
  PROVE  /\ Arrive => arrived' \in [1 .. Window -> 0 .. Limit + 1]
         /\ Pass => passed' \in [1 .. Window -> Nat]
         /\ Older(arrived) \in [1 .. Window -> 0 .. Limit + 1]
         /\ Older(passed) \in [1 .. Window -> Nat]
  <1>1. Limit \in Nat /\ Window \in Nat BY LimitAssumption
  <1>2. \A n \in Nat : UpTo(n + 1, Limit + 1) \in 0 .. Limit + 1
    BY <1>1, UpToBound
  <1>3. \A t \in 1 .. Window : arrived[t] \in 0 .. Limit + 1 /\ passed[t] \in Nat
    BY DEF LimiterTypeOK
  <1>4. \A t \in 1 .. Window : t # 1 => t - 1 \in 1 .. Window BY <1>1
  <1> QED BY <1>1, <1>2, <1>3, <1>4 DEF Arrive, Pass, Older

\* Counting a request keeps the limiter's types.
LEMMA CountTypes ==
  ASSUME LimiterTypeOK, Count
  PROVE  /\ hits' \in 0 .. Limit + 1 /\ ttl' \in 0 .. Window
         /\ arrived' \in [1 .. Window -> 0 .. Limit + 1]
  <1>1. Limit \in Nat /\ Window \in Nat BY LimitAssumption
  <1>2. hits' \in 0 .. Limit + 1 BY <1>1, UpToBound DEF LimiterTypeOK, Count
  <1>3. ttl' \in 0 .. Window BY <1>1 DEF Count
  <1> QED BY <1>2, <1>3, GhostTypes DEF Count

\* Each step of the limiter keeps its types.
LEMMA LimiterStep ==
  ASSUME LimiterTypeOK, LetThrough \/ Refuse \/ FailOpen \/ Tick \/ UNCHANGED limiter
  PROVE  LimiterTypeOK'
  <1>1. Limit \in Nat /\ Window \in Nat BY LimitAssumption
  <1>2. CASE LetThrough
    BY <1>2, CountTypes, GhostTypes DEF LetThrough, LimiterTypeOK
  <1>3. CASE Refuse
    BY <1>3, CountTypes DEF Refuse, LimiterTypeOK
  <1>4. CASE FailOpen
    <2>1. hits' \in 0 .. Limit + 1 /\ ttl' \in 0 .. Window /\ opened' \in Nat
      BY <1>1, <1>4 DEF LimiterTypeOK, FailOpen, UpTo
    <2> QED BY <1>4, <2>1, GhostTypes DEF LimiterTypeOK, FailOpen
  <1>5. CASE Tick
    <2>1. hits' \in 0 .. Limit + 1 /\ ttl' \in 0 .. Window /\ opened' \in Nat
      BY <1>1, <1>5 DEF LimiterTypeOK, Tick
    <2> QED BY <1>5, <2>1, GhostTypes DEF LimiterTypeOK, Tick
  <1>6. CASE UNCHANGED limiter
    BY <1>6 DEF LimiterTypeOK, limiter
  <1> QED BY <1>2, <1>3, <1>4, <1>5, <1>6

-----------------------------------------------------------------------------
(* The limit.  The key lives Window ticks after the last request it counted, *)
(* so whatever it counted and let through has left the window when it is     *)
(* gone; while it is there its count covers what the window has let through. *)

\* What was let through in the last t ticks, but for what Redis did not count:
\* never more than the limit, never more than the counter, and nothing since
\* the key's time to live was last renewed.
LimitInv ==
  \A t \in 1 .. Window :
    /\ passed[t] <= Limit + opened
    /\ passed[t] <= hits + opened
    /\ (ttl > 0 \/ hits = 0) /\ t <= Window - ttl => passed[t] <= opened

\* LimitInv is inductive, in itself and in everything built on the limiter.
LEMMA LimitStep ==
  ASSUME LimiterTypeOK, LimitInv,
         LetThrough \/ Refuse \/ FailOpen \/ Tick \/ UNCHANGED limiter
  PROVE  LimitInv'
  <1> SUFFICES ASSUME NEW t \in 1 .. Window
               PROVE  /\ passed'[t] <= Limit + opened'
                      /\ passed'[t] <= hits' + opened'
                      /\ (ttl' > 0 \/ hits' = 0) /\ t <= Window - ttl' =>
                           passed'[t] <= opened'
    BY DEF LimitInv
  <1>1. /\ Limit \in Nat \ {0} /\ Window \in Nat \ {0} /\ hits \in 0 .. Limit + 1
        /\ ttl \in 0 .. Window /\ opened \in Nat
        /\ \A u \in 1 .. Window : passed[u] \in Nat
    BY LimitAssumption DEF LimiterTypeOK
  <1>2. \A u \in 1 .. Window :
          /\ passed[u] <= Limit + opened
          /\ passed[u] <= hits + opened
          /\ (ttl > 0 \/ hits = 0) /\ u <= Window - ttl => passed[u] <= opened
    BY DEF LimitInv
  <1>3. CASE LetThrough
    <2>1. passed'[t] = passed[t] + 1 /\ ttl' = Window /\ opened' = opened
          /\ hits' = hits + 1 /\ hits' <= Limit
      BY <1>1, <1>3 DEF LetThrough, Count, Pass, UpTo
    <2> QED BY <1>1, <1>2, <2>1
  <1>4. CASE Refuse
    <2>1. passed'[t] = passed[t] /\ ttl' = Window /\ opened' = opened
          /\ hits' >= hits /\ hits' \in Nat
      BY <1>1, <1>4 DEF Refuse, Count, UpTo
    <2> QED BY <1>1, <1>2, <2>1
  <1>5. CASE FailOpen
    <2>1. passed'[t] = passed[t] + 1 /\ opened' = opened + 1
      BY <1>5 DEF FailOpen, Pass
    <2>2. \/ hits' = hits /\ ttl' = ttl
          \/ hits' >= hits /\ hits' \in Nat /\ hits' > 0 /\ ttl' \in {ttl, Window}
      BY <1>1, <1>5 DEF FailOpen, UpTo
    <2> QED BY <1>1, <1>2, <2>1, <2>2
  <1>6. CASE Tick
    <2>1. /\ passed'[t] = IF t = 1 THEN 0 ELSE passed[t - 1]
          /\ opened' = opened /\ hits' = (IF ttl = 1 THEN 0 ELSE hits)
          /\ ttl' = IF ttl = 0 THEN 0 ELSE ttl - 1
      BY <1>6 DEF Tick, Older
    <2>2. CASE t = 1
      BY <1>1, <2>1, <2>2
    <2>3. CASE t # 1
      <3>1. t - 1 \in 1 .. Window /\ passed'[t] = passed[t - 1]
        BY <1>1, <2>1, <2>3
      <3> QED BY <1>1, <1>2, <2>1, <3>1
    <2> QED BY <2>2, <2>3
  <1>7. CASE UNCHANGED limiter
    BY <1>2, <1>7 DEF limiter
  <1> QED BY <1>3, <1>4, <1>5, <1>6, <1>7

-----------------------------------------------------------------------------
(* The inductive invariant: what a handler's position says of the event and *)
(* of the key.                                                              *)

\* A handler gets to its publish only with a valid body, past it only with the
\* event on the stream, and says "accepted" only of such an event.
Fits(state, copies) ==
  /\ state.pc \in {"publish", "cache"} => valid
  /\ state.pc = "cache" \/ state.status = "accepted" => copies > 0

\* Whoever claimed the key will answer under it or release it.
Covers(state) ==
  /\ state.pc \in {"decode", "publish", "cache", "release"}
  /\ state.claimed /\ state.holds /\ state.connected

ClaimIsCovered ==
  faults = 0 =>
    /\ \A a \in Attempts : attempt[a].connected
    /\ key = "pending" => \E a \in Attempts : Covers(attempt[a])

Inv ==
  /\ TypeOK
  /\ \A a \in Attempts : Fits(attempt[a], queued)
  /\ AcceptedMeansQueued
  /\ ClaimIsCovered

\* What a step of handler a owes for the invariant.
Keeps(a, state) ==
  /\ Become(a, state)
  /\ state \in AttemptStates
  /\ LimiterTypeOK'
  /\ key' \in {"none", "pending", "answered"} /\ queued' \in Nat /\ valid' = valid
  /\ client' \in {"trying", "accepted", "rejected"} /\ wait' \in 0 .. Window
  /\ traffic' \in 0 .. MaxTraffic /\ expiries' \in 0 .. MaxExpiries
  /\ faults' \in 0 .. MaxFaults
  /\ queued' >= queued /\ (queued' > queued => valid)
  /\ Fits(state, queued')
  /\ client' = "accepted" \/ key' = "answered" => queued' > 0
  /\ faults' = 0 =>
       /\ faults = 0 /\ state.connected
       /\ key' = "pending" =>
            Covers(state) \/ (key = "pending" /\ ~Covers(attempt[a]))

LEMMA StepKeeps ==
  ASSUME Inv, NEW a \in Attempts, NEW state, Keeps(a, state)
  PROVE  Inv'
  <1>1. attempt' = [attempt EXCEPT ![a] = state] /\ attempt \in [Attempts -> AttemptStates]
    BY DEF Keeps, Become, Inv, TypeOK
  <1>2. attempt'[a] = state /\ \A b \in Attempts : b # a => attempt'[b] = attempt[b]
    BY <1>1
  <1>3. TypeOK'
    BY <1>1 DEF Keeps, Inv, TypeOK
  <1>4. \A b \in Attempts : Fits(attempt[b], queued)'
    <2>1. valid' = valid /\ Fits(state, queued') BY DEF Keeps
    <2>2. \A b \in Attempts : b # a => Fits(attempt'[b], queued')
      BY <1>2 DEF Keeps, Inv, TypeOK, Fits
    <2>3. \A b \in Attempts : Fits(attempt'[b], queued')
      BY <1>2, <2>1, <2>2
    <2> QED BY <2>1, <2>3 DEF Fits
  <1>5. AcceptedMeansQueued'
    BY DEF Keeps, Inv, TypeOK, AcceptedMeansQueued
  <1>6. ClaimIsCovered'
    <2> SUFFICES ASSUME faults' = 0
                 PROVE  /\ \A b \in Attempts : attempt'[b].connected
                        /\ key' = "pending" => \E b \in Attempts : Covers(attempt'[b])
      BY DEF ClaimIsCovered, Covers
    <2>1. faults = 0 /\ state.connected BY DEF Keeps
    <2>2. \A b \in Attempts : attempt'[b].connected
      BY <1>2, <2>1 DEF Inv, ClaimIsCovered
    <2>3. ASSUME key' = "pending" PROVE \E b \in Attempts : Covers(attempt'[b])
      <3>1. CASE Covers(state) BY <1>2, <3>1
      <3>2. CASE key = "pending" /\ ~Covers(attempt[a])
        <4>1. PICK b \in Attempts : Covers(attempt[b])
          BY <2>1, <3>2 DEF Inv, ClaimIsCovered
        <4> QED BY <1>2, <3>2, <4>1
      <3> QED BY <2>3, <3>1, <3>2 DEF Keeps
    <2> QED BY <2>2, <2>3
  <1> QED BY <1>3, <1>4, <1>5, <1>6 DEF Inv

-----------------------------------------------------------------------------
(* One lemma per handler action, or per group that does the same to the     *)
(* invariant: each names the state the handler gets to.                     *)

\* The facts about handler a that every lemma uses.
LEMMA Facts ==
  ASSUME Inv, NEW a \in Attempts
  PROVE  /\ attempt[a] \in AttemptStates /\ Fits(attempt[a], queued)
         /\ queued \in Nat /\ valid \in BOOLEAN /\ key \in {"none", "pending", "answered"}
         /\ client \in {"trying", "accepted", "rejected"} /\ wait \in 0 .. Window
         /\ traffic \in 0 .. MaxTraffic /\ expiries \in 0 .. MaxExpiries
         /\ faults \in 0 .. MaxFaults /\ faults \in Nat /\ LimiterTypeOK
         /\ Window \in Nat /\ MaxFaults \in Nat
         /\ faults = 0 => attempt[a].connected
         /\ client = "accepted" \/ key = "answered" => queued > 0
         /\ queued > 0 => valid
  BY LimitAssumption, IntakeBounds DEF Inv, TypeOK, AcceptedMeansQueued, ClaimIsCovered

LEMMA FaultCounts ==
  ASSUME faults \in 0 .. MaxFaults, MaxFaults \in Nat, Fault
  PROVE  faults' \in 0 .. MaxFaults /\ faults' # 0
  BY DEF Fault

\* Through the limiter or refused by it.
LEMMA SendKeeps ==
  ASSUME Inv, NEW a \in Attempts, Send(a)
  PROVE  Inv'
  <1> DEFINE claiming == [attempt[a] EXCEPT !.pc = "claim"]
  <1>1. LimiterTypeOK' BY Facts, LimiterStep DEF Send
  <1>2. /\ attempt[a].pc = "idle"
        /\ key' = key /\ queued' = queued /\ valid' = valid /\ client' = client
        /\ traffic' = traffic /\ expiries' = expiries
    BY DEF Send, At
  <1>3. wait' \in 0 .. Window BY Facts DEF Send
  <1>4. claiming \in AttemptStates /\ claiming.connected = attempt[a].connected
        /\ claiming.pc = "claim" /\ claiming.status = attempt[a].status
    BY Facts DEF AttemptStates
  <1>5. ASSUME Become(a, claiming), faults' = faults \/ Fault PROVE Keeps(a, claiming)
    <2>1. faults' \in 0 .. MaxFaults /\ (faults' = 0 => faults = 0)
      BY <1>5, Facts, FaultCounts
    <2>2. ~Covers(attempt[a]) BY <1>2 DEF Covers
    <2> QED BY <1>1, <1>2, <1>3, <1>4, <1>5, <2>1, <2>2, Facts DEF Keeps, Fits
  <1>6. CASE LetThrough /\ Goto(a, "claim") /\ UNCHANGED <<wait, faults>>
    BY <1>5, <1>6, StepKeeps DEF Goto
  <1>7. CASE Refuse /\ wait' = Window /\ UNCHANGED <<attempt, faults>>
    <2>1. Become(a, attempt[a]) BY <1>7 DEF Become, Inv, TypeOK
    <2>2. Keeps(a, attempt[a])
      BY <1>1, <1>2, <1>3, <1>7, <2>1, Facts DEF Keeps
    <2> QED BY <2>2, StepKeeps
  <1>8. CASE Fault /\ FailOpen /\ Goto(a, "claim") /\ UNCHANGED wait
    BY <1>5, <1>8, StepKeeps DEF Goto
  <1> QED BY <1>6, <1>7, <1>8 DEF Send

\* A handler that goes on to a state without touching the limiter, and what
\* it has done to the key, the stream and the client.
Owes(a, state) ==
  /\ Become(a, state) /\ state \in AttemptStates
  /\ UNCHANGED <<limiter, valid, wait, traffic, expiries>>
  /\ key' \in {"none", "pending", "answered"} /\ queued' \in {queued, queued + 1}
  /\ client' \in {"trying", "accepted", "rejected"}
  /\ faults' = faults \/ Fault
  /\ queued' > queued => valid
  /\ Fits(state, queued')
  /\ client' = "accepted" => client = "accepted" \/ queued > 0
  /\ key' = "answered" => key = "answered" \/ queued > 0
  /\ faults' = 0 =>
       /\ attempt[a].connected => state.connected
       /\ key' = "pending" => Covers(state) \/ (key = "pending" /\ ~Covers(attempt[a]))

LEMMA HandlerKeeps ==
  ASSUME Inv, NEW a \in Attempts, NEW state, Owes(a, state)
  PROVE  Inv'
  <1>1. LimiterTypeOK' BY Facts, LimiterStep DEF Owes
  <1>2. faults' \in 0 .. MaxFaults /\ (faults' = 0 => faults = 0)
    BY Facts, FaultCounts DEF Owes
  <1>3. wait' \in 0 .. Window /\ traffic' \in 0 .. MaxTraffic /\ expiries' \in 0 .. MaxExpiries
        /\ valid' = valid
    BY Facts DEF Owes
  <1>4. queued' \in Nat /\ queued' >= queued BY Facts DEF Owes
  <1>5. client' = "accepted" \/ key' = "answered" => queued' > 0 BY <1>4, Facts DEF Owes
  <1>6. ASSUME faults' = 0
        PROVE  /\ faults = 0 /\ state.connected
               /\ key' = "pending" => Covers(state) \/ (key = "pending" /\ ~Covers(attempt[a]))
    BY <1>2, <1>6, Facts DEF Owes
  <1> QED BY <1>1, <1>2, <1>3, <1>4, <1>5, <1>6, StepKeeps DEF Keeps, Owes

\* SETNX claims the key.
LEMMA ClaimKeeps ==
  ASSUME Inv, NEW a \in Attempts, Claim(a)
  PROVE  Inv'
  <1> DEFINE state == [attempt[a] EXCEPT !.pc = "decode", !.claimed = TRUE, !.holds = TRUE]
  <1>1. Become(a, state) BY DEF Claim, Goto, Finish
  <1>2. state \in AttemptStates BY Facts DEF AttemptStates, Idle
  <1>3. Fits(state, queued') BY Facts DEF Fits, Idle, At, Claim
  <1>4. /\ UNCHANGED <<limiter, valid, wait, traffic, expiries>>
        /\ faults' = faults \/ Fault
        /\ key' \in {"none", "pending", "answered"} /\ queued' \in {queued, queued + 1}
        /\ client' \in {"trying", "accepted", "rejected"}
    BY Facts DEF Claim, counters
  <1>5. /\ queued' > queued => valid
        /\ client' = "accepted" => client = "accepted" \/ queued > 0
        /\ key' = "answered" => key = "answered" \/ queued > 0
    BY Facts DEF Claim, At, Fits
  <1>6. faults' = 0 =>
          /\ attempt[a].connected => state.connected
          /\ key' = "pending" => Covers(state) \/ (key = "pending" /\ ~Covers(attempt[a]))
    BY Facts DEF Claim, counters, At, Covers, Idle, AttemptStates
  <1>7. Owes(a, state) BY <1>1, <1>2, <1>3, <1>4, <1>5, <1>6 DEF Owes
  <1> HIDE DEF state
  <1> QED BY <1>7, HandlerKeeps

\* The key is taken.
LEMMA ClaimTakenKeeps ==
  ASSUME Inv, NEW a \in Attempts, ClaimTaken(a)
  PROVE  Inv'
  <1> DEFINE state == [attempt[a] EXCEPT !.pc = "look", !.holds = TRUE]
  <1>1. Become(a, state) BY DEF ClaimTaken, Goto, Finish
  <1>2. state \in AttemptStates BY Facts DEF AttemptStates, Idle
  <1>3. Fits(state, queued') BY Facts DEF Fits, Idle, At, ClaimTaken
  <1>4. /\ UNCHANGED <<limiter, valid, wait, traffic, expiries>>
        /\ faults' = faults \/ Fault
        /\ key' \in {"none", "pending", "answered"} /\ queued' \in {queued, queued + 1}
        /\ client' \in {"trying", "accepted", "rejected"}
    BY Facts DEF ClaimTaken, counters
  <1>5. /\ queued' > queued => valid
        /\ client' = "accepted" => client = "accepted" \/ queued > 0
        /\ key' = "answered" => key = "answered" \/ queued > 0
    BY Facts DEF ClaimTaken, At, Fits
  <1>6. faults' = 0 =>
          /\ attempt[a].connected => state.connected
          /\ key' = "pending" => Covers(state) \/ (key = "pending" /\ ~Covers(attempt[a]))
    BY Facts DEF ClaimTaken, counters, At, Covers, Idle, AttemptStates
  <1>7. Owes(a, state) BY <1>1, <1>2, <1>3, <1>4, <1>5, <1>6 DEF Owes
  <1> HIDE DEF state
  <1> QED BY <1>7, HandlerKeeps

\* SETNX reports an error: the claim may have been made.
LEMMA ClaimFailsKeeps ==
  ASSUME Inv, NEW a \in Attempts, ClaimFails(a)
  PROVE  Inv'
  <1>1. PICK c \in BOOLEAN : Become(a, [attempt[a] EXCEPT !.pc = "decode", !.claimed = c])
    BY Facts DEF ClaimFails, Goto, AttemptStates
  <1> DEFINE state == [attempt[a] EXCEPT !.pc = "decode", !.claimed = c]
  <1>2. state \in AttemptStates BY Facts DEF AttemptStates
  <1>3. Fits(state, queued') BY Facts DEF Fits, At, ClaimFails
  <1>4. /\ UNCHANGED <<limiter, valid, wait, traffic, expiries>>
        /\ faults' = faults \/ Fault
        /\ key' \in {"none", "pending", "answered"} /\ queued' \in {queued, queued + 1}
        /\ client' \in {"trying", "accepted", "rejected"}
    BY Facts DEF ClaimFails
  <1>5. /\ queued' > queued => valid
        /\ client' = "accepted" => client = "accepted" \/ queued > 0
        /\ key' = "answered" => key = "answered" \/ queued > 0
    BY Facts DEF ClaimFails
  <1>6. faults' # 0 BY Facts, FaultCounts DEF ClaimFails
  <1>7. Owes(a, state) BY <1>1, <1>2, <1>3, <1>4, <1>5, <1>6 DEF Owes
  <1> HIDE DEF state
  <1> QED BY <1>7, HandlerKeeps

\* An answer in the key is that of an event on the stream.
LEMMA AnswerFromKeyKeeps ==
  ASSUME Inv, NEW a \in Attempts, AnswerFromKey(a)
  PROVE  Inv'
  <1> DEFINE state == [attempt[a] EXCEPT !.pc = "answer",
                    !.status = IF key = "pending" THEN "conflict" ELSE "accepted"]
  <1>1. Become(a, state) BY DEF AnswerFromKey, Goto, Finish
  <1>2. state \in AttemptStates BY Facts DEF AttemptStates, Idle
  <1>3. Fits(state, queued') BY Facts DEF Fits, Idle, At, AnswerFromKey
  <1>4. /\ UNCHANGED <<limiter, valid, wait, traffic, expiries>>
        /\ faults' = faults \/ Fault
        /\ key' \in {"none", "pending", "answered"} /\ queued' \in {queued, queued + 1}
        /\ client' \in {"trying", "accepted", "rejected"}
    BY Facts DEF AnswerFromKey, counters
  <1>5. /\ queued' > queued => valid
        /\ client' = "accepted" => client = "accepted" \/ queued > 0
        /\ key' = "answered" => key = "answered" \/ queued > 0
    BY Facts DEF AnswerFromKey, At, Fits
  <1>6. faults' = 0 =>
          /\ attempt[a].connected => state.connected
          /\ key' = "pending" => Covers(state) \/ (key = "pending" /\ ~Covers(attempt[a]))
    BY Facts DEF AnswerFromKey, counters, At, Covers, Idle, AttemptStates
  <1>7. Owes(a, state) BY <1>1, <1>2, <1>3, <1>4, <1>5, <1>6 DEF Owes
  <1> HIDE DEF state
  <1> QED BY <1>7, HandlerKeeps

\* The key is not there any more.
LEMMA LookFailsKeeps ==
  ASSUME Inv, NEW a \in Attempts, LookFails(a)
  PROVE  Inv'
  <1> DEFINE state == [attempt[a] EXCEPT !.pc = "decode"]
  <1>1. Become(a, state) BY DEF LookFails, Goto, Finish
  <1>2. state \in AttemptStates BY Facts DEF AttemptStates, Idle
  <1>3. Fits(state, queued') BY Facts DEF Fits, Idle, At, LookFails
  <1>4. /\ UNCHANGED <<limiter, valid, wait, traffic, expiries>>
        /\ faults' = faults \/ Fault
        /\ key' \in {"none", "pending", "answered"} /\ queued' \in {queued, queued + 1}
        /\ client' \in {"trying", "accepted", "rejected"}
    BY Facts DEF LookFails, counters
  <1>5. /\ queued' > queued => valid
        /\ client' = "accepted" => client = "accepted" \/ queued > 0
        /\ key' = "answered" => key = "answered" \/ queued > 0
    BY Facts DEF LookFails, At, Fits
  <1>6. faults' = 0 =>
          /\ attempt[a].connected => state.connected
          /\ key' = "pending" => Covers(state) \/ (key = "pending" /\ ~Covers(attempt[a]))
    BY Facts DEF LookFails, Fault, counters, At, Covers, Idle, AttemptStates
  <1>7. Owes(a, state) BY <1>1, <1>2, <1>3, <1>4, <1>5, <1>6 DEF Owes
  <1> HIDE DEF state
  <1> QED BY <1>7, HandlerKeeps

\* The body is checked: the claim is passed on to the publish or the release.
LEMMA CheckKeeps ==
  ASSUME Inv, NEW a \in Attempts, Check(a)
  PROVE  Inv'
  <1> DEFINE state == IF valid THEN [attempt[a] EXCEPT !.pc = "publish"]
                     ELSE [attempt[a] EXCEPT !.pc = "release", !.status = "invalid"]
  <1>1. Become(a, state) BY DEF Check, Goto, Finish
  <1>2. state \in AttemptStates BY Facts DEF AttemptStates, Idle
  <1>3. Fits(state, queued') BY Facts DEF Fits, Idle, At, Check
  <1>4. /\ UNCHANGED <<limiter, valid, wait, traffic, expiries>>
        /\ faults' = faults \/ Fault
        /\ key' \in {"none", "pending", "answered"} /\ queued' \in {queued, queued + 1}
        /\ client' \in {"trying", "accepted", "rejected"}
    BY Facts DEF Check, counters
  <1>5. /\ queued' > queued => valid
        /\ client' = "accepted" => client = "accepted" \/ queued > 0
        /\ key' = "answered" => key = "answered" \/ queued > 0
    BY Facts DEF Check, At, Fits
  <1>6. faults' = 0 =>
          /\ attempt[a].connected => state.connected
          /\ key' = "pending" => Covers(state) \/ (key = "pending" /\ ~Covers(attempt[a]))
    BY Facts DEF Check, counters, At, Covers, Idle, AttemptStates
  <1>7. Owes(a, state) BY <1>1, <1>2, <1>3, <1>4, <1>5, <1>6 DEF Owes
  <1> HIDE DEF state
  <1> QED BY <1>7, HandlerKeeps

\* The event is on the stream from here on.
LEMMA PublishKeeps ==
  ASSUME Inv, NEW a \in Attempts, Publish(a)
  PROVE  Inv'
  <1> DEFINE state == [attempt[a] EXCEPT !.pc = "cache"]
  <1>1. Become(a, state) BY DEF Publish, Goto, Finish
  <1>2. state \in AttemptStates BY Facts DEF AttemptStates, Idle
  <1>3. Fits(state, queued') BY Facts DEF Fits, Idle, At, Publish
  <1>4. /\ UNCHANGED <<limiter, valid, wait, traffic, expiries>>
        /\ faults' = faults \/ Fault
        /\ key' \in {"none", "pending", "answered"} /\ queued' \in {queued, queued + 1}
        /\ client' \in {"trying", "accepted", "rejected"}
    BY Facts DEF Publish, counters
  <1>5. /\ queued' > queued => valid
        /\ client' = "accepted" => client = "accepted" \/ queued > 0
        /\ key' = "answered" => key = "answered" \/ queued > 0
    BY Facts DEF Publish, At, Fits
  <1>6. faults' = 0 =>
          /\ attempt[a].connected => state.connected
          /\ key' = "pending" => Covers(state) \/ (key = "pending" /\ ~Covers(attempt[a]))
    BY Facts DEF Publish, counters, At, Covers, Idle, AttemptStates
  <1>7. Owes(a, state) BY <1>1, <1>2, <1>3, <1>4, <1>5, <1>6 DEF Owes
  <1> HIDE DEF state
  <1> QED BY <1>7, HandlerKeeps

\* The publish fails.
LEMMA PublishFailsKeeps ==
  ASSUME Inv, NEW a \in Attempts, PublishFails(a)
  PROVE  Inv'
  <1> DEFINE state == [attempt[a] EXCEPT !.pc = "release", !.status = "error"]
  <1>1. Become(a, state) BY DEF PublishFails, Goto, Finish
  <1>2. state \in AttemptStates BY Facts DEF AttemptStates, Idle
  <1>3. Fits(state, queued') BY Facts DEF Fits, Idle, At, PublishFails
  <1>4. /\ UNCHANGED <<limiter, valid, wait, traffic, expiries>>
        /\ faults' = faults \/ Fault
        /\ key' \in {"none", "pending", "answered"} /\ queued' \in {queued, queued + 1}
        /\ client' \in {"trying", "accepted", "rejected"}
    BY Facts DEF PublishFails, counters
  <1>5. /\ queued' > queued => valid
        /\ client' = "accepted" => client = "accepted" \/ queued > 0
        /\ key' = "answered" => key = "answered" \/ queued > 0
    BY Facts DEF PublishFails, At, Fits
  <1>6. faults' = 0 =>
          /\ attempt[a].connected => state.connected
          /\ key' = "pending" => Covers(state) \/ (key = "pending" /\ ~Covers(attempt[a]))
    BY Facts DEF PublishFails, Fault, counters, At, Covers, Idle, AttemptStates
  <1>7. Owes(a, state) BY <1>1, <1>2, <1>3, <1>4, <1>5, <1>6 DEF Owes
  <1> HIDE DEF state
  <1> QED BY <1>7, HandlerKeeps

\* The claim becomes an answer.
LEMMA CacheKeeps ==
  ASSUME Inv, NEW a \in Attempts, Cache(a)
  PROVE  Inv'
  <1> DEFINE state == [attempt[a] EXCEPT !.pc = "answer", !.status = "accepted"]
  <1>1. Become(a, state) BY DEF Cache, Goto, Finish
  <1>2. state \in AttemptStates BY Facts DEF AttemptStates, Idle
  <1>3. Fits(state, queued') BY Facts DEF Fits, Idle, At, Cache
  <1>4. /\ UNCHANGED <<limiter, valid, wait, traffic, expiries>>
        /\ faults' = faults \/ Fault
        /\ key' \in {"none", "pending", "answered"} /\ queued' \in {queued, queued + 1}
        /\ client' \in {"trying", "accepted", "rejected"}
    BY Facts DEF Cache, counters
  <1>5. /\ queued' > queued => valid
        /\ client' = "accepted" => client = "accepted" \/ queued > 0
        /\ key' = "answered" => key = "answered" \/ queued > 0
    BY Facts DEF Cache, At, Fits
  <1>6. faults' = 0 =>
          /\ attempt[a].connected => state.connected
          /\ key' = "pending" => Covers(state) \/ (key = "pending" /\ ~Covers(attempt[a]))
    BY Facts DEF Cache, counters, At, Covers, Idle, AttemptStates
  <1>7. Owes(a, state) BY <1>1, <1>2, <1>3, <1>4, <1>5, <1>6 DEF Owes
  <1> HIDE DEF state
  <1> QED BY <1>7, HandlerKeeps

\* The answer is not cached.
LEMMA CacheFailsKeeps ==
  ASSUME Inv, NEW a \in Attempts, CacheFails(a)
  PROVE  Inv'
  <1> DEFINE state == [attempt[a] EXCEPT !.pc = "answer", !.status = "accepted"]
  <1>1. Become(a, state) BY DEF CacheFails, Goto, Finish
  <1>2. state \in AttemptStates BY Facts DEF AttemptStates, Idle
  <1>3. Fits(state, queued') BY Facts DEF Fits, Idle, At, CacheFails
  <1>4. /\ UNCHANGED <<limiter, valid, wait, traffic, expiries>>
        /\ faults' = faults \/ Fault
        /\ key' \in {"none", "pending", "answered"} /\ queued' \in {queued, queued + 1}
        /\ client' \in {"trying", "accepted", "rejected"}
    BY Facts DEF CacheFails, counters
  <1>5. /\ queued' > queued => valid
        /\ client' = "accepted" => client = "accepted" \/ queued > 0
        /\ key' = "answered" => key = "answered" \/ queued > 0
    BY Facts DEF CacheFails, At, Fits
  <1>6. faults' = 0 =>
          /\ attempt[a].connected => state.connected
          /\ key' = "pending" => Covers(state) \/ (key = "pending" /\ ~Covers(attempt[a]))
    BY Facts DEF CacheFails, Fault, counters, At, Covers, Idle, AttemptStates
  <1>7. Owes(a, state) BY <1>1, <1>2, <1>3, <1>4, <1>5, <1>6 DEF Owes
  <1> HIDE DEF state
  <1> QED BY <1>7, HandlerKeeps

\* The claim is given up.
LEMMA ReleaseKeeps ==
  ASSUME Inv, NEW a \in Attempts, Release(a)
  PROVE  Inv'
  <1> DEFINE state == [attempt[a] EXCEPT !.pc = "answer"]
  <1>1. Become(a, state) BY DEF Release, Goto, Finish
  <1>2. state \in AttemptStates BY Facts DEF AttemptStates, Idle
  <1>3. Fits(state, queued') BY Facts DEF Fits, Idle, At, Release
  <1>4. /\ UNCHANGED <<limiter, valid, wait, traffic, expiries>>
        /\ faults' = faults \/ Fault
        /\ key' \in {"none", "pending", "answered"} /\ queued' \in {queued, queued + 1}
        /\ client' \in {"trying", "accepted", "rejected"}
    BY Facts DEF Release, counters
  <1>5. /\ queued' > queued => valid
        /\ client' = "accepted" => client = "accepted" \/ queued > 0
        /\ key' = "answered" => key = "answered" \/ queued > 0
    BY Facts DEF Release, At, Fits
  <1>6. faults' = 0 =>
          /\ attempt[a].connected => state.connected
          /\ key' = "pending" => Covers(state) \/ (key = "pending" /\ ~Covers(attempt[a]))
    BY Facts DEF Release, counters, At, Covers, Idle, AttemptStates
  <1>7. Owes(a, state) BY <1>1, <1>2, <1>3, <1>4, <1>5, <1>6 DEF Owes
  <1> HIDE DEF state
  <1> QED BY <1>7, HandlerKeeps

\* The claim stays.
LEMMA ReleaseFailsKeeps ==
  ASSUME Inv, NEW a \in Attempts, ReleaseFails(a)
  PROVE  Inv'
  <1> DEFINE state == [attempt[a] EXCEPT !.pc = "answer"]
  <1>1. Become(a, state) BY DEF ReleaseFails, Goto, Finish
  <1>2. state \in AttemptStates BY Facts DEF AttemptStates, Idle
  <1>3. Fits(state, queued') BY Facts DEF Fits, Idle, At, ReleaseFails
  <1>4. /\ UNCHANGED <<limiter, valid, wait, traffic, expiries>>
        /\ faults' = faults \/ Fault
        /\ key' \in {"none", "pending", "answered"} /\ queued' \in {queued, queued + 1}
        /\ client' \in {"trying", "accepted", "rejected"}
    BY Facts DEF ReleaseFails, counters
  <1>5. /\ queued' > queued => valid
        /\ client' = "accepted" => client = "accepted" \/ queued > 0
        /\ key' = "answered" => key = "answered" \/ queued > 0
    BY Facts DEF ReleaseFails, At, Fits
  <1>6. faults' = 0 =>
          /\ attempt[a].connected => state.connected
          /\ key' = "pending" => Covers(state) \/ (key = "pending" /\ ~Covers(attempt[a]))
    BY Facts DEF ReleaseFails, Fault, counters, At, Covers, Idle, AttemptStates
  <1>7. Owes(a, state) BY <1>1, <1>2, <1>3, <1>4, <1>5, <1>6 DEF Owes
  <1> HIDE DEF state
  <1> QED BY <1>7, HandlerKeeps

\* The client hears of it.
LEMMA AnswerKeeps ==
  ASSUME Inv, NEW a \in Attempts, Answer(a)
  PROVE  Inv'
  <1> DEFINE state == Idle
  <1>1. Become(a, state) BY DEF Answer, Goto, Finish
  <1>2. state \in AttemptStates BY Facts DEF AttemptStates, Idle
  <1>3. Fits(state, queued') BY Facts DEF Fits, Idle, At, Answer
  <1>4. /\ UNCHANGED <<limiter, valid, wait, traffic, expiries>>
        /\ faults' = faults \/ Fault
        /\ key' \in {"none", "pending", "answered"} /\ queued' \in {queued, queued + 1}
        /\ client' \in {"trying", "accepted", "rejected"}
    BY Facts DEF Answer, counters
  <1>5. /\ queued' > queued => valid
        /\ client' = "accepted" => client = "accepted" \/ queued > 0
        /\ key' = "answered" => key = "answered" \/ queued > 0
    BY Facts DEF Answer, At, Fits
  <1>6. faults' = 0 =>
          /\ attempt[a].connected => state.connected
          /\ key' = "pending" => Covers(state) \/ (key = "pending" /\ ~Covers(attempt[a]))
    BY Facts DEF Answer, counters, At, Covers, Idle, AttemptStates
  <1>7. Owes(a, state) BY <1>1, <1>2, <1>3, <1>4, <1>5, <1>6 DEF Owes
  <1> HIDE DEF state
  <1> QED BY <1>7, HandlerKeeps

\* The client goes away.
LEMMA DisconnectKeeps ==
  ASSUME Inv, NEW a \in Attempts, Disconnect(a)
  PROVE  Inv'
  <1> DEFINE state == [attempt[a] EXCEPT !.connected = FALSE]
  <1>1. Become(a, state) BY DEF Disconnect, Goto, Finish
  <1>2. state \in AttemptStates BY Facts DEF AttemptStates, Idle
  <1>3. Fits(state, queued') BY Facts DEF Fits, Idle, At, Disconnect
  <1>4. /\ UNCHANGED <<limiter, valid, wait, traffic, expiries>>
        /\ faults' = faults \/ Fault
        /\ key' \in {"none", "pending", "answered"} /\ queued' \in {queued, queued + 1}
        /\ client' \in {"trying", "accepted", "rejected"}
    BY Facts DEF Disconnect, counters
  <1>5. /\ queued' > queued => valid
        /\ client' = "accepted" => client = "accepted" \/ queued > 0
        /\ key' = "answered" => key = "answered" \/ queued > 0
    BY Facts DEF Disconnect, At, Fits
  <1>6. faults' = 0 =>
          /\ attempt[a].connected => state.connected
          /\ key' = "pending" => Covers(state) \/ (key = "pending" /\ ~Covers(attempt[a]))
    BY Facts DEF Disconnect, Fault, counters, At, Covers, Idle, AttemptStates
  <1>7. Owes(a, state) BY <1>1, <1>2, <1>3, <1>4, <1>5, <1>6 DEF Owes
  <1> HIDE DEF state
  <1> QED BY <1>7, HandlerKeeps

\* The server dies.
LEMMA CrashKeeps ==
  ASSUME Inv, NEW a \in Attempts, Crash(a)
  PROVE  Inv'
  <1> DEFINE state == Idle
  <1>1. Become(a, state) BY DEF Crash, Goto, Finish
  <1>2. state \in AttemptStates BY Facts DEF AttemptStates, Idle
  <1>3. Fits(state, queued') BY Facts DEF Fits, Idle, At, Crash
  <1>4. /\ UNCHANGED <<limiter, valid, wait, traffic, expiries>>
        /\ faults' = faults \/ Fault
        /\ key' \in {"none", "pending", "answered"} /\ queued' \in {queued, queued + 1}
        /\ client' \in {"trying", "accepted", "rejected"}
    BY Facts DEF Crash, counters
  <1>5. /\ queued' > queued => valid
        /\ client' = "accepted" => client = "accepted" \/ queued > 0
        /\ key' = "answered" => key = "answered" \/ queued > 0
    BY Facts DEF Crash, At, Fits
  <1>6. faults' = 0 =>
          /\ attempt[a].connected => state.connected
          /\ key' = "pending" => Covers(state) \/ (key = "pending" /\ ~Covers(attempt[a]))
    BY Facts DEF Crash, Fault, counters, At, Covers, Idle, AttemptStates
  <1>7. Owes(a, state) BY <1>1, <1>2, <1>3, <1>4, <1>5, <1>6 DEF Owes
  <1> HIDE DEF state
  <1> QED BY <1>7, HandlerKeeps

-----------------------------------------------------------------------------
\* What happens outside the handlers.
LEMMA WorldKeeps ==
  ASSUME Inv, Traffic \/ ClockTick \/ ExpireClaim \/ ExpireAnswer \/ UNCHANGED vars
  PROVE  Inv'
  <1>1. LimiterTypeOK'
    BY LimiterStep DEF Inv, TypeOK, Traffic, ClockTick, ExpireClaim, ExpireAnswer, vars
  <1>2. attempt' = attempt /\ queued' = queued /\ valid' = valid /\ client' = client
        /\ faults' = faults
    BY DEF Traffic, ClockTick, ExpireClaim, ExpireAnswer, vars, counters
  <1>3. key' \in {key, "none"}
    BY DEF Traffic, ClockTick, ExpireClaim, ExpireAnswer, vars
  <1>4. wait' \in 0 .. Window
    BY LimitAssumption
    DEF Inv, TypeOK, Traffic, ClockTick, ExpireClaim, ExpireAnswer, vars, counters
  <1>5. traffic' \in 0 .. MaxTraffic /\ expiries' \in 0 .. MaxExpiries
    BY IntakeBounds
    DEF Inv, TypeOK, Traffic, ClockTick, ExpireClaim, ExpireAnswer, vars, counters
  <1>6. TypeOK' BY <1>1, <1>2, <1>3, <1>4, <1>5 DEF Inv, TypeOK
  <1>7. AcceptedMeansQueued' BY <1>2, <1>3 DEF Inv, AcceptedMeansQueued
  <1>8. \A a \in Attempts : Fits(attempt[a], queued)' BY <1>2 DEF Inv, Fits
  <1>9. ClaimIsCovered' BY <1>2, <1>3 DEF Inv, ClaimIsCovered, Covers
  <1> QED BY <1>6, <1>7, <1>8, <1>9 DEF Inv

LEMMA InitInv == Init => Inv
  <1> SUFFICES ASSUME Init PROVE Inv
    OBVIOUS
  <1>1. LimiterTypeOK
    <2>1. Limit \in Nat /\ Window \in Nat BY LimitAssumption
    <2>2. hits \in 0 .. Limit + 1 /\ ttl \in 0 .. Window /\ opened \in Nat
      BY <2>1 DEF Init, LimiterInit
    <2>3. Quiet \in [1 .. Window -> {0}] /\ 0 \in 0 .. Limit + 1
      BY <2>1 DEF Quiet
    <2>4. arrived \in [1 .. Window -> 0 .. Limit + 1] /\ passed \in [1 .. Window -> Nat]
      BY <2>3 DEF Init, LimiterInit
    <2> QED BY <2>2, <2>4 DEF LimiterTypeOK
  <1>2. Idle \in AttemptStates BY DEF Idle, AttemptStates
  <1>3. TypeOK
    BY <1>1, <1>2, LimitAssumption, IntakeBounds DEF Init, TypeOK
  <1>4. \A a \in Attempts : Fits(attempt[a], queued) BY DEF Init, Fits, Idle
  <1>5. AcceptedMeansQueued BY DEF Init, AcceptedMeansQueued
  <1>6. ClaimIsCovered BY DEF Init, ClaimIsCovered, Idle
  <1> QED BY <1>3, <1>4, <1>5, <1>6 DEF Inv

LEMMA NextInv == Inv /\ [Next]_vars => Inv'
  <1> SUFFICES ASSUME Inv, [Next]_vars PROVE Inv'
    OBVIOUS
  <1>1. ASSUME NEW a \in Attempts, Send(a) PROVE Inv'
    BY <1>1, SendKeeps
  <1>2. ASSUME NEW a \in Attempts, Handle(a) PROVE Inv'
    BY <1>2, ClaimKeeps, ClaimTakenKeeps, AnswerFromKeyKeeps, LookFailsKeeps, CheckKeeps,
       PublishKeeps, CacheKeeps, ReleaseKeeps, AnswerKeeps DEF Handle
  <1>3. ASSUME NEW a \in Attempts, HandlerFault(a) PROVE Inv'
    BY <1>3, ClaimFailsKeeps, PublishFailsKeeps, CacheFailsKeeps, ReleaseFailsKeeps,
       DisconnectKeeps, CrashKeeps DEF HandlerFault
  <1>4. CASE Traffic \/ ClockTick \/ ExpireClaim \/ ExpireAnswer \/ UNCHANGED vars
    BY <1>4, WorldKeeps
  <1> QED BY <1>1, <1>2, <1>3, <1>4 DEF Next

LEMMA Invariance == Spec => []Inv
  BY InitInv, NextInv, PTL DEF Spec

-----------------------------------------------------------------------------
\* The limiter, the handlers, the key and the client keep to their types,
\* whatever the number of requests, faults and expiries.
THEOREM IntakeTypeCorrect == Spec => []TypeOK
  <1>1. Inv => TypeOK BY DEF Inv
  <1> QED BY <1>1, Invariance, PTL

\* An event that a client was told is accepted, or that is cached as accepted,
\* is on the stream: for every number of overlapping requests of an operation,
\* every order of claim, release and expiry, and every fault.
THEOREM AcceptedIsQueued == Spec => []AcceptedMeansQueued
  <1>1. Inv => AcceptedMeansQueued BY DEF Inv
  <1> QED BY <1>1, Invariance, PTL

\* Without faults no claim outlives its request.
THEOREM ClaimsResolved == Spec => []ClaimsAreResolved
  <1>1. Inv => ClaimsAreResolved
    BY DEF Inv, ClaimsAreResolved, ClaimIsCovered, Covers, At
  <1> QED BY <1>1, Invariance, PTL

\* Every step of the intake is one of the limiter or leaves it alone.
LEMMA LimiterMoves ==
  ASSUME [Next]_vars
  PROVE  LetThrough \/ Refuse \/ FailOpen \/ Tick \/ UNCHANGED limiter
BY DEF Next, vars, Send, Handle, HandlerFault, Claim, ClaimTaken, AnswerFromKey, LookFails,
       Check, Publish, Cache, Release, Answer, ClaimFails, PublishFails, CacheFails,
       ReleaseFails, Disconnect, Crash, Traffic, ClockTick, ExpireClaim, ExpireAnswer

\* RateLimit lets no window of time have more than the limit, wherever the window
\* begins and whatever else happens, but for the requests that Redis failed to
\* count: the counter lives on as long as requests come, and no longer than a
\* window after them.
THEOREM LimitIsKept == Spec => []LimitHolds
  <1>1. Init => LimitInv
    <2> SUFFICES ASSUME Init PROVE LimitInv
      OBVIOUS
    <2>1. \A t \in 1 .. Window : passed[t] = 0
      BY DEF Init, LimiterInit, Quiet
    <2> QED BY <2>1, LimitAssumption DEF Init, LimiterInit, LimitInv
  <1>2. Inv /\ LimitInv /\ [Next]_vars => LimitInv'
    BY LimiterMoves, LimitStep DEF Inv, TypeOK
  <1>3. LimitInv => LimitHolds
    BY LimitAssumption DEF LimitInv, LimitHolds
  <1> QED BY <1>1, <1>2, <1>3, Invariance, InitInv, NextInv, PTL DEF Spec

-----------------------------------------------------------------------------
(* Duplicates.  Potential bounds how often the event of a valid operation   *)
(* may still be queued without another fault or expiry: while the key is    *)
(* settled, by the handlers past it; while it is not, by everyone, but for  *)
(* those who have queued the event and will settle the key before they end. *)
(* A handler that deletes the key as it ends lets everyone begin anew.      *)

N == Cardinality(Attempts)

Publishes(state) == state.pc \in {"decode", "publish"}
\* It will queue the event and leave no answer.
Blind(state) ==
  \/ ~state.connected /\ state.pc \in {"claim", "look", "decode", "publish"}
  \/ ~state.holds /\ Publishes(state)
Seals(state) == state.pc = "cache" /\ state.holds /\ state.connected
Deletes(state) == state.pc = "release" /\ state.holds /\ state.connected

Publishing == {a \in Attempts : Publishes(attempt[a]) \/ Blind(attempt[a])}
Blinded == {a \in Attempts : Blind(attempt[a])}
Sealing == {a \in Attempts : Seals(attempt[a])}
Deleting == {a \in Attempts : Deletes(attempt[a])}

Settled == key = "answered" \/ (key = "pending" /\ \E a \in Attempts : Covers(attempt[a]))

Potential ==
  IF Settled THEN Cardinality(Publishing) + N * Cardinality(Deleting)
  ELSE N + Cardinality(Blinded) + N * Cardinality(Deleting)
         - Cardinality(Sealing) - Cardinality(Deleting)

Budget == faults + expiries

\* Until the key is first claimed nobody is past it.
Start ==
  /\ key = "none" /\ queued = 0 /\ Budget = 0
  /\ \A a \in Attempts : attempt[a].pc \in {"idle", "claim"} /\ attempt[a].connected

Within == queued + Potential <= 1 + Budget * N

\* A handler looks the key up once it could not claim it.
Shaped(state) ==
  /\ state.pc = "idle" => state.connected
  /\ state.pc = "look" => state.holds

QueueInv ==
  /\ \A a \in Attempts : Shaped(attempt[a])
  /\ valid => Start \/ Within

One(P) == IF P THEN 1 ELSE 0
All(P) == IF P THEN N ELSE 0

\* Sets of handlers that differ in handler a alone.
LEMMA OneDiffers ==
  ASSUME NEW S \in SUBSET Attempts, NEW T \in SUBSET Attempts, NEW a \in Attempts,
         \A b \in Attempts \ {a} : b \in S <=> b \in T
  PROVE  /\ Cardinality(S) \in Nat /\ Cardinality(T) \in Nat
         /\ Cardinality(T) + One(a \in S) = Cardinality(S) + One(a \in T)
  <1> DEFINE R == S \ {a}
  <1>1. IsFiniteSet(S) /\ IsFiniteSet(T)
    BY AttemptsAssumption, FS_Subset
  <1>2. Cardinality(S) \in Nat /\ Cardinality(T) \in Nat
    BY <1>1, FS_CardinalityType
  <1>3. S \ {a} = T \ {a}
    OBVIOUS
  <1>4. Cardinality(S \ {a}) = IF a \in S THEN Cardinality(S) - 1 ELSE Cardinality(S)
    BY <1>1, FS_RemoveElement
  <1>5. Cardinality(T \ {a}) = IF a \in T THEN Cardinality(T) - 1 ELSE Cardinality(T)
    BY <1>1, FS_RemoveElement
  <1> QED BY <1>2, <1>3, <1>4, <1>5 DEF One

LEMMA Disjoint ==
  ASSUME NEW S, NEW T, IsFiniteSet(S), IsFiniteSet(T), S \cap T = {}
  PROVE  /\ IsFiniteSet(S \cup T)
         /\ Cardinality(S \cup T) = Cardinality(S) + Cardinality(T)
  <1>1. /\ IsFiniteSet(S \cup T)
        /\ Cardinality(S \cup T) = Cardinality(S) + Cardinality(T) - Cardinality(S \cap T)
    BY FS_Union
  <1>2. Cardinality(S \cap T) = 0
    BY FS_EmptySet
  <1>3. Cardinality(S) \in Nat /\ Cardinality(T) \in Nat
    BY FS_CardinalityType
  <1> QED BY <1>1, <1>2, <1>3

\* The sets that Potential counts: a handler is in one of three at most.
LEMMA Counts ==
  /\ N \in Nat /\ Cardinality(Publishing) \in Nat /\ Cardinality(Blinded) \in Nat
  /\ Cardinality(Sealing) \in Nat /\ Cardinality(Deleting) \in Nat
  /\ Cardinality(Blinded) <= Cardinality(Publishing)
  /\ Cardinality(Publishing) + Cardinality(Sealing) + Cardinality(Deleting) <= N
  <1>1. /\ IsFiniteSet(Publishing) /\ IsFiniteSet(Blinded) /\ IsFiniteSet(Sealing)
        /\ IsFiniteSet(Deleting)
    BY AttemptsAssumption, FS_Subset DEF Publishing, Blinded, Sealing, Deleting
  <1>2. /\ Cardinality(Publishing) \in Nat /\ Cardinality(Blinded) \in Nat
        /\ Cardinality(Sealing) \in Nat /\ Cardinality(Deleting) \in Nat
    BY <1>1, FS_CardinalityType
  <1>3. N \in Nat
    BY AttemptsAssumption, FS_CardinalityType DEF N
  <1>4. Cardinality(Blinded) <= Cardinality(Publishing)
    <2>1. Blinded \in SUBSET Publishing
      BY DEF Blinded, Publishing
    <2> QED BY <1>1, <2>1, FS_Subset
  <1>5. IsFiniteSet(Publishing \cup Sealing)
        /\ Cardinality(Publishing \cup Sealing) = Cardinality(Publishing) + Cardinality(Sealing)
    <2>1. Publishing \cap Sealing = {}
      BY DEF Publishing, Sealing, Publishes, Blind, Seals
    <2> QED BY <1>1, <2>1, Disjoint
  <1>6. /\ IsFiniteSet((Publishing \cup Sealing) \cup Deleting)
        /\ Cardinality((Publishing \cup Sealing) \cup Deleting) =
             Cardinality(Publishing) + Cardinality(Sealing) + Cardinality(Deleting)
    <2>1. (Publishing \cup Sealing) \cap Deleting = {}
      BY DEF Publishing, Sealing, Deleting, Publishes, Blind, Seals, Deletes
    <2> QED BY <1>1, <1>5, <2>1, Disjoint
  <1>7. (Publishing \cup Sealing) \cup Deleting \in SUBSET Attempts
    BY DEF Publishing, Sealing, Deleting
  <1>8. Cardinality((Publishing \cup Sealing) \cup Deleting) <= N
    BY <1>7, AttemptsAssumption, FS_Subset DEF N
  <1> QED BY <1>2, <1>3, <1>4, <1>6, <1>8

\* What a step of handler a owes: copies is what it queues, late whether it is
\* a fault.
Accounts(a, state, copies, late) ==
  LET old == attempt[a]
      Queues(s) == One(Publishes(s) \/ Blind(s))
  IN  /\ Become(a, state) /\ Shaped(state) /\ valid' = valid
      /\ queued' = queued + copies /\ Budget' = Budget + late
      /\ Settled /\ Settled' =>
           copies + Queues(state) + All(Deletes(state))
             <= Queues(old) + All(Deletes(old)) + All(late = 1)
      /\ ~Settled =>
           \/ copies + One(Blind(state)) + One(Seals(old)) + One(Deletes(old))
                + All(Deletes(state))
                <= One(Blind(old)) + One(Seals(state)) + One(Deletes(state))
                     + All(Deletes(old)) + All(late = 1)
           \/ Settled' /\ copies = 0 /\ ~Deletes(state) /\ Queues(state) <= Queues(old)
      /\ Settled /\ ~Settled' =>
           /\ copies = 0 /\ Queues(state) <= Queues(old) /\ ~Deletes(state)
           /\ late = 1 \/ Deletes(old)
      /\ Start =>
           /\ copies = 0 /\ ~Deletes(state)
           /\ \/ late = 0 /\ key' = key /\ state.pc \in {"idle", "claim"} /\ state.connected
              \/ late = 1 \/ Settled'

LEMMA Products ==
  ASSUME NEW n \in Nat, NEW x \in Nat
  PROVE  /\ n * x \in Nat /\ n * (x + 1) = n * x + n
         /\ (x + 1) * n = x * n + n /\ x * n \in Nat
  OBVIOUS

\* What a step of handler a changes of the sets that Potential counts.
LEMMA SetsChange ==
  ASSUME TypeOK, NEW a \in Attempts, NEW state, Become(a, state)
  PROVE  /\ attempt'[a] = state /\ \A c \in Attempts \ {a} : attempt'[c] = attempt[c]
         /\ Cardinality(Publishing)' + One(Publishes(attempt[a]) \/ Blind(attempt[a]))
              = Cardinality(Publishing) + One(Publishes(state) \/ Blind(state))
         /\ Cardinality(Blinded)' + One(Blind(attempt[a]))
              = Cardinality(Blinded) + One(Blind(state))
         /\ Cardinality(Sealing)' + One(Seals(attempt[a]))
              = Cardinality(Sealing) + One(Seals(state))
         /\ Cardinality(Deleting)' + One(Deletes(attempt[a]))
              = Cardinality(Deleting) + One(Deletes(state))
  <1>1. attempt'[a] = state /\ \A c \in Attempts \ {a} : attempt'[c] = attempt[c]
    BY DEF TypeOK, Become
  <1>2. /\ Publishing \in SUBSET Attempts /\ Publishing' \in SUBSET Attempts
        /\ Blinded \in SUBSET Attempts /\ Blinded' \in SUBSET Attempts
        /\ Sealing \in SUBSET Attempts /\ Sealing' \in SUBSET Attempts
        /\ Deleting \in SUBSET Attempts /\ Deleting' \in SUBSET Attempts
    BY DEF Publishing, Blinded, Sealing, Deleting
  <1>3. /\ \A c \in Attempts \ {a} : c \in Publishing <=> c \in Publishing'
        /\ a \in Publishing <=> Publishes(attempt[a]) \/ Blind(attempt[a])
        /\ a \in Publishing' <=> Publishes(state) \/ Blind(state)
    BY <1>1 DEF Publishing, Publishes, Blind
  <1>4. /\ \A c \in Attempts \ {a} : c \in Blinded <=> c \in Blinded'
        /\ a \in Blinded <=> Blind(attempt[a])
        /\ a \in Blinded' <=> Blind(state)
    BY <1>1 DEF Blinded, Publishes, Blind
  <1>5. /\ \A c \in Attempts \ {a} : c \in Sealing <=> c \in Sealing'
        /\ a \in Sealing <=> Seals(attempt[a])
        /\ a \in Sealing' <=> Seals(state)
    BY <1>1 DEF Sealing, Seals
  <1>6. /\ \A c \in Attempts \ {a} : c \in Deleting <=> c \in Deleting'
        /\ a \in Deleting <=> Deletes(attempt[a])
        /\ a \in Deleting' <=> Deletes(state)
    BY <1>1 DEF Deleting, Deletes
  <1>7. Cardinality(Publishing)' + One(a \in Publishing)
          = Cardinality(Publishing) + One(a \in Publishing')
    BY <1>2, <1>3, OneDiffers
  <1>8. Cardinality(Blinded)' + One(a \in Blinded)
          = Cardinality(Blinded) + One(a \in Blinded')
    BY <1>2, <1>4, OneDiffers
  <1>9. Cardinality(Sealing)' + One(a \in Sealing)
          = Cardinality(Sealing) + One(a \in Sealing')
    BY <1>2, <1>5, OneDiffers
  <1>10. Cardinality(Deleting)' + One(a \in Deleting)
          = Cardinality(Deleting) + One(a \in Deleting')
    BY <1>2, <1>6, OneDiffers
  <1> QED BY <1>1, <1>3, <1>4, <1>5, <1>6, <1>7, <1>8, <1>9, <1>10 DEF One

LEMMA AttemptsCount ==
  ASSUME NEW a \in Attempts
  PROVE  N \in Nat /\ N >= 1
  <1>1. N \in Nat BY Counts
  <1>2. N # 0 BY AttemptsAssumption, FS_EmptySet DEF N
  <1> QED BY <1>1, <1>2

\* The step of a handler that owes nothing keeps to the bound.
LEMMA WithinStep ==
  ASSUME Inv, Within, NEW a \in Attempts, NEW state, NEW copies \in {0, 1},
         NEW late \in {0, 1}, Accounts(a, state, copies, late)
  PROVE  Within'
  <1> DEFINE old == attempt[a]
             Queues(x) == One(Publishes(x) \/ Blind(x))
             p == Cardinality(Publishing)
             b == Cardinality(Blinded)
             k == Cardinality(Sealing)
             r == Cardinality(Deleting)
             r0 == One(Deletes(old))
             r2 == One(Deletes(state))
  <1>1. /\ p' + Queues(old) = p + Queues(state)
        /\ b' + One(Blind(old)) = b + One(Blind(state))
        /\ k' + One(Seals(old)) = k + One(Seals(state))
        /\ r' + r0 = r + r2
    BY SetsChange DEF Inv, Accounts
  <1>2. /\ p \in Nat /\ b \in Nat /\ k \in Nat /\ r \in Nat
        /\ b <= p /\ p + k + r <= N /\ N >= 1 /\ N \in Nat
    BY Counts, AttemptsCount
  <1>3. /\ p' \in Nat /\ b' \in Nat /\ k' \in Nat /\ r' \in Nat
        /\ b' <= p' /\ p' + k' + r' <= N
    <2>1. (/\ N \in Nat /\ Cardinality(Publishing) \in Nat /\ Cardinality(Blinded) \in Nat
           /\ Cardinality(Sealing) \in Nat /\ Cardinality(Deleting) \in Nat
           /\ Cardinality(Blinded) <= Cardinality(Publishing)
           /\ Cardinality(Publishing) + Cardinality(Sealing) + Cardinality(Deleting) <= N)'
      BY Counts, PTL
    <2> QED BY <2>1 DEF N
  <1>4. queued \in Nat /\ Budget \in Nat /\ queued' = queued + copies /\ Budget' = Budget + late
    BY Facts, IntakeBounds DEF Accounts, Budget
  <1>5. /\ Deletes(old) <=> r0 = 1
        /\ Deletes(state) <=> r2 = 1
        /\ r0 \in {0, 1} /\ r2 \in {0, 1}
        /\ Queues(old) \in {0, 1} /\ Queues(state) \in {0, 1}
        /\ One(Blind(old)) \in {0, 1} /\ One(Blind(state)) \in {0, 1}
        /\ One(Seals(old)) \in {0, 1} /\ One(Seals(state)) \in {0, 1}
        /\ All(Deletes(old)) = All(r0 = 1) /\ All(Deletes(state)) = All(r2 = 1)
        /\ All(r0 = 1) \in Nat /\ All(r2 = 1) \in Nat /\ All(late = 1) \in Nat
    BY <1>2 DEF One, All
  <1>6. /\ Settled /\ Settled' =>
             copies + Queues(state) + All(r2 = 1) <= Queues(old) + All(r0 = 1) + All(late = 1)
        /\ ~Settled =>
             \/ copies + One(Blind(state)) + One(Seals(old)) + r0 + All(r2 = 1)
                  <= One(Blind(old)) + One(Seals(state)) + r2 + All(r0 = 1) + All(late = 1)
             \/ Settled' /\ copies = 0 /\ r2 = 0 /\ Queues(state) <= Queues(old)
        /\ Settled /\ ~Settled' =>
             copies = 0 /\ Queues(state) <= Queues(old) /\ r2 = 0 /\ (late = 1 \/ r0 = 1)
    BY <1>5 DEF Accounts
  <1>7. queued + (IF Settled THEN p + N * r ELSE N + b + N * r - k - r) <= 1 + Budget * N
    BY DEF Within, Potential
  <1> HIDE DEF old, Queues, p, b, k, r, r0, r2
  <1>8. PICK s0 \in BOOLEAN, s1 \in BOOLEAN :
          (s0 <=> Settled) /\ (s1 <=> Settled')
    BY DEF Settled
  <1>9. PICK p0 \in Nat, b0 \in Nat, k0 \in Nat, d0 \in Nat, p1 \in Nat, b1 \in Nat,
             k1 \in Nat, d1 \in Nat :
          /\ p0 = p /\ b0 = b /\ k0 = k /\ d0 = r
          /\ p1 = p' /\ b1 = b' /\ k1 = k' /\ d1 = r'
    BY <1>2, <1>3
  <1>10. PICK qo \in {0, 1}, qn \in {0, 1}, bo \in {0, 1}, bn \in {0, 1},
              ko \in {0, 1}, kn \in {0, 1}, ro \in {0, 1}, rn \in {0, 1} :
           /\ qo = Queues(old) /\ qn = Queues(state)
           /\ bo = One(Blind(old)) /\ bn = One(Blind(state))
           /\ ko = One(Seals(old)) /\ kn = One(Seals(state))
           /\ ro = r0 /\ rn = r2
    BY <1>5
  <1>11. PICK wo \in Nat, wn \in Nat, wf \in Nat :
           wo = All(ro = 1) /\ wn = All(rn = 1) /\ wf = All(late = 1)
    BY <1>2 DEF All
  <1>12. /\ p1 + qo = p0 + qn /\ b1 + bo = b0 + bn /\ k1 + ko = k0 + kn /\ d1 + ro = d0 + rn
         /\ p0 + k0 + d0 <= N /\ b0 <= p0 /\ p1 + k1 + d1 <= N /\ b1 <= p1
    BY <1>1, <1>2, <1>3, <1>9, <1>10
  <1>13. /\ s0 /\ s1 => copies + qn + wn <= qo + wo + wf
         /\ ~s0 => \/ copies + bn + ko + ro + wn <= bo + kn + rn + wo + wf
                   \/ s1 /\ copies = 0 /\ rn = 0 /\ qn <= qo
         /\ s0 /\ ~s1 => copies = 0 /\ qn <= qo /\ rn = 0 /\ (late = 1 \/ ro = 1)
    BY <1>6, <1>8, <1>10, <1>11
  <1>14. /\ s0 /\ s1 => copies + p1 + wn <= p0 + wo + wf
         /\ ~s0 => \/ copies + b1 + k0 + d0 + wn <= b0 + k1 + d1 + wo + wf
                   \/ s1 /\ copies = 0 /\ rn = 0 /\ p1 <= p0
         /\ s0 /\ ~s1 => copies = 0 /\ p1 <= p0 /\ rn = 0 /\ (late = 1 \/ ro = 1)
    BY <1>12, <1>13
  <1>15. PICK q \in Nat, m \in Nat, n \in Nat : q = queued /\ m = Budget /\ n = N
    BY <1>2, <1>4
  <1>16. q + (IF s0 THEN p0 + n * d0 ELSE n + b0 + n * d0 - k0 - d0) <= 1 + m * n
    BY <1>7, <1>8, <1>9, <1>15
  <1>17. q + copies + (IF s1 THEN p1 + n * d1 ELSE n + b1 + n * d1 - k1 - d1)
           <= 1 + (m + late) * n
    <2> DEFINE D == n * d0
               D1 == n * d1
               M == m * n
               M1 == (m + late) * n
    <2>1. D \in Nat /\ D1 \in Nat /\ M \in Nat /\ M1 \in Nat
      BY Products
    <2>2. wf \in {0, n} /\ wo \in {0, n} /\ wn \in {0, n}
          /\ (late = 1 <=> wf = n) /\ (ro = 1 <=> wo = n) /\ (rn = 1 <=> wn = n)
          /\ n >= 1
      BY <1>2, <1>11, <1>15 DEF All
    <2>3. M1 = M + wf
      <3>1. CASE late = 0 BY <2>2, <3>1
      <3>2. CASE late = 1 BY <2>2, <3>2, Products
      <3> QED BY <3>1, <3>2
    <2>4. D1 + wo = D + wn
      <3>1. CASE ro = rn
        <4>1. d1 = d0 BY <1>12, <3>1
        <4> QED BY <2>1, <2>2, <3>1, <4>1
      <3>2. CASE ro = 1 /\ rn = 0
        <4>1. d0 = d1 + 1 BY <1>12, <3>2
        <4> QED BY <2>1, <2>2, <3>2, <4>1, Products
      <3>3. CASE ro = 0 /\ rn = 1
        <4>1. d1 = d0 + 1 BY <1>12, <3>3
        <4> QED BY <2>1, <2>2, <3>3, <4>1, Products
      <3> QED BY <3>1, <3>2, <3>3
    <2>5. q + (IF s0 THEN p0 + D ELSE n + b0 + D - k0 - d0) <= 1 + M
      BY <1>16
    <2>6. p0 + k0 + d0 <= n /\ p1 + k1 + d1 <= n /\ b0 <= p0 /\ b1 <= p1
          /\ d1 + ro = d0 + rn
      BY <1>12, <1>15
    <2> HIDE DEF D, D1, M, M1
    <2>7. q + copies + (IF s1 THEN p1 + D1 ELSE n + b1 + D1 - k1 - d1) <= 1 + M1
      <3>1. CASE s0 /\ s1
        BY <1>14, <2>1, <2>2, <2>3, <2>4, <2>5, <2>6, <3>1
      <3>2. CASE s0 /\ ~s1
        BY <1>14, <2>1, <2>2, <2>3, <2>4, <2>5, <2>6, <3>2
      <3>3. CASE ~s0
        BY <1>14, <2>1, <2>2, <2>3, <2>4, <2>5, <2>6, <3>3
      <3> QED BY <3>1, <3>2, <3>3
    <2> QED BY <2>7 DEF D, D1, M, M1
  <1>18. /\ Potential' = IF s1 THEN p1 + n * d1 ELSE n + b1 + n * d1 - k1 - d1
         /\ N' = N
    BY <1>8, <1>9, <1>15 DEF Potential, p, b, k, r, N
  <1> QED BY <1>4, <1>15, <1>17, <1>18 DEF Within






\* Whether the key is settled, seen from handler a.
OthersCover(a) == \E c \in Attempts \ {a} : Covers(attempt[c])

LEMMA SettledBefore ==
  ASSUME NEW a \in Attempts
  PROVE  Settled <=> \/ key = "answered"
                     \/ key = "pending" /\ (Covers(attempt[a]) \/ OthersCover(a))
  BY DEF Settled, OthersCover

LEMMA SettledAfter ==
  ASSUME TypeOK, NEW a \in Attempts, NEW state, Become(a, state)
  PROVE  Settled' <=> \/ key' = "answered"
                      \/ key' = "pending" /\ (Covers(state) \/ OthersCover(a))
  <1>1. attempt'[a] = state /\ \A c \in Attempts \ {a} : attempt'[c] = attempt[c]
    BY SetsChange
  <1>2. (\E c \in Attempts : Covers(attempt'[c])) <=> Covers(state) \/ OthersCover(a)
    BY <1>1 DEF OthersCover
  <1>3. Settled' <=> \/ key' = "answered"
                     \/ key' = "pending" /\ \E c \in Attempts : Covers(attempt'[c])
    BY DEF Settled, Covers
  <1> QED BY <1>2, <1>3

\* What a step of handler a does to the account, once its state is known.
LEMMA AccountsFrom ==
  ASSUME NEW a \in Attempts, Inv, Shaped(attempt[a])
  PROVE  /\ attempt[a] \in AttemptStates /\ TypeOK /\ N \in Nat /\ N >= 1
         /\ queued \in Nat /\ faults \in Nat /\ expiries \in Nat
         /\ Start => /\ key = "none"
                     /\ attempt[a].pc \in {"idle", "claim"} /\ attempt[a].connected
  BY Facts, IntakeBounds, AttemptsCount DEF Inv, Start

\* The claim settles the key.
LEMMA ClaimAccounts ==
  ASSUME NEW a \in Attempts, Inv, Shaped(attempt[a]), valid, Claim(a)
  PROVE  \E state : \E copies, late \in {0, 1} : Accounts(a, state, copies, late)
  <1> DEFINE state == [attempt[a] EXCEPT !.pc = "decode", !.claimed = TRUE, !.holds = TRUE]
  <1>1. Become(a, state)
    BY DEF Claim, Goto, Finish
  <1>2. /\ Settled <=> \/ key = "answered"
                       \/ key = "pending" /\ (Covers(attempt[a]) \/ OthersCover(a))
        /\ Settled' <=> \/ key' = "answered"
                        \/ key' = "pending" /\ (Covers(state) \/ OthersCover(a))
    <2> HIDE DEF state
    <2> QED BY <1>1, SettledBefore, SettledAfter, AccountsFrom
  <1>3. Shaped(state)
    BY AccountsFrom DEF Claim, At, Shaped, AttemptStates, Idle
  <1>4. valid' = valid /\ queued' = queued + 0 /\ Budget' = Budget + 0
    BY AccountsFrom DEF Claim, Budget, counters, Fault
  <1>5. Accounts(a, state, 0, 0)
    BY <1>1, <1>2, <1>3, <1>4, AccountsFrom
    DEF Accounts, Claim, At, One, All, Publishes, Blind, Seals, Deletes, Covers, Shaped,
        AttemptStates
  <1> QED BY <1>5

\* Whoever finds the key taken looks at it.
LEMMA ClaimTakenAccounts ==
  ASSUME NEW a \in Attempts, Inv, Shaped(attempt[a]), valid, ClaimTaken(a)
  PROVE  \E state : \E copies, late \in {0, 1} : Accounts(a, state, copies, late)
  <1> DEFINE state == [attempt[a] EXCEPT !.pc = "look", !.holds = TRUE]
  <1>1. Become(a, state)
    BY DEF ClaimTaken, Goto, Finish
  <1>2. /\ Settled <=> \/ key = "answered"
                       \/ key = "pending" /\ (Covers(attempt[a]) \/ OthersCover(a))
        /\ Settled' <=> \/ key' = "answered"
                        \/ key' = "pending" /\ (Covers(state) \/ OthersCover(a))
    <2> HIDE DEF state
    <2> QED BY <1>1, SettledBefore, SettledAfter, AccountsFrom
  <1>3. Shaped(state)
    BY AccountsFrom DEF ClaimTaken, At, Shaped, AttemptStates, Idle
  <1>4. valid' = valid /\ queued' = queued + 0 /\ Budget' = Budget + 0
    BY AccountsFrom DEF ClaimTaken, Budget, counters, Fault
  <1>5. Accounts(a, state, 0, 0)
    BY <1>1, <1>2, <1>3, <1>4, AccountsFrom
    DEF Accounts, ClaimTaken, At, One, All, Publishes, Blind, Seals, Deletes, Covers, Shaped,
        AttemptStates
  <1> QED BY <1>5

\* A claim that fails may have been made.
LEMMA ClaimFailsAccounts ==
  ASSUME NEW a \in Attempts, Inv, Shaped(attempt[a]), valid, ClaimFails(a)
  PROVE  \E state : \E copies, late \in {0, 1} : Accounts(a, state, copies, late)
  <1>claimed. PICK c \in BOOLEAN :
          /\ Become(a, [attempt[a] EXCEPT !.pc = "decode", !.claimed = c])
          /\ key' = key \/ (key = "none" /\ key' = "pending")
    BY Facts DEF ClaimFails, Goto, AttemptStates
  <1> DEFINE state == [attempt[a] EXCEPT !.pc = "decode", !.claimed = c]
  <1>1. Become(a, state)
    BY <1>claimed DEF ClaimFails, Goto, Finish
  <1>2. /\ Settled <=> \/ key = "answered"
                       \/ key = "pending" /\ (Covers(attempt[a]) \/ OthersCover(a))
        /\ Settled' <=> \/ key' = "answered"
                        \/ key' = "pending" /\ (Covers(state) \/ OthersCover(a))
    <2> HIDE DEF state
    <2> QED BY <1>1, SettledBefore, SettledAfter, AccountsFrom
  <1>3. Shaped(state)
    BY AccountsFrom DEF ClaimFails, At, Shaped, AttemptStates, Idle
  <1>4. valid' = valid /\ queued' = queued + 0 /\ Budget' = Budget + 1
    BY AccountsFrom DEF ClaimFails, Budget, counters, Fault
  <1>5. Accounts(a, state, 0, 1)
    BY <1>1, <1>2, <1>3, <1>4, <1>claimed, AccountsFrom
    DEF Accounts, ClaimFails, At, One, All, Publishes, Blind, Seals, Deletes, Covers, Shaped,
        AttemptStates
  <1> QED BY <1>5

\* An answer ends the request.
LEMMA AnswerFromKeyAccounts ==
  ASSUME NEW a \in Attempts, Inv, Shaped(attempt[a]), valid, AnswerFromKey(a)
  PROVE  \E state : \E copies, late \in {0, 1} : Accounts(a, state, copies, late)
  <1> DEFINE state == [attempt[a] EXCEPT !.pc = "answer",
                         !.status = IF key = "pending" THEN "conflict" ELSE "accepted"]
  <1>1. Become(a, state)
    BY DEF AnswerFromKey, Goto, Finish
  <1>2. /\ Settled <=> \/ key = "answered"
                       \/ key = "pending" /\ (Covers(attempt[a]) \/ OthersCover(a))
        /\ Settled' <=> \/ key' = "answered"
                        \/ key' = "pending" /\ (Covers(state) \/ OthersCover(a))
    <2> HIDE DEF state
    <2> QED BY <1>1, SettledBefore, SettledAfter, AccountsFrom
  <1>3. Shaped(state)
    BY AccountsFrom DEF AnswerFromKey, At, Shaped, AttemptStates, Idle
  <1>4. valid' = valid /\ queued' = queued + 0 /\ Budget' = Budget + 0
    BY AccountsFrom DEF AnswerFromKey, Budget, counters, Fault
  <1>5. Accounts(a, state, 0, 0)
    BY <1>1, <1>2, <1>3, <1>4, AccountsFrom
    DEF Accounts, AnswerFromKey, At, One, All, Publishes, Blind, Seals, Deletes, Covers, Shaped,
        AttemptStates
  <1> QED BY <1>5

\* The key is gone, so that it is not settled, or Redis fails.
LEMMA LookFailsAccounts ==
  ASSUME NEW a \in Attempts, Inv, Shaped(attempt[a]), valid, LookFails(a)
  PROVE  \E state : \E copies, late \in {0, 1} : Accounts(a, state, copies, late)
  <1>late. PICK late \in {0, 1} : faults' = faults + late /\ (late = 0 => key = "none")
    BY AccountsFrom DEF LookFails, Fault
  <1> DEFINE state == [attempt[a] EXCEPT !.pc = "decode"]
  <1>1. Become(a, state)
    BY DEF LookFails, Goto, Finish
  <1>2. /\ Settled <=> \/ key = "answered"
                       \/ key = "pending" /\ (Covers(attempt[a]) \/ OthersCover(a))
        /\ Settled' <=> \/ key' = "answered"
                        \/ key' = "pending" /\ (Covers(state) \/ OthersCover(a))
    <2> HIDE DEF state
    <2> QED BY <1>1, SettledBefore, SettledAfter, AccountsFrom
  <1>3. Shaped(state)
    BY AccountsFrom DEF LookFails, At, Shaped, AttemptStates, Idle
  <1>4. valid' = valid /\ queued' = queued + 0 /\ Budget' = Budget + late
    BY AccountsFrom, <1>late DEF LookFails, Budget, counters, Fault
  <1>5. Accounts(a, state, 0, late)
    BY <1>1, <1>2, <1>3, <1>4, AccountsFrom, <1>late
    DEF Accounts, LookFails, At, One, All, Publishes, Blind, Seals, Deletes, Covers, Shaped,
        AttemptStates
  <1> QED BY <1>5

\* A valid body is published by whoever has checked it.
LEMMA CheckAccounts ==
  ASSUME NEW a \in Attempts, Inv, Shaped(attempt[a]), valid, Check(a)
  PROVE  \E state : \E copies, late \in {0, 1} : Accounts(a, state, copies, late)
  <1> DEFINE state == [attempt[a] EXCEPT !.pc = "publish"]
  <1>1. Become(a, state)
    BY DEF Check, Goto, Finish
  <1>2. /\ Settled <=> \/ key = "answered"
                       \/ key = "pending" /\ (Covers(attempt[a]) \/ OthersCover(a))
        /\ Settled' <=> \/ key' = "answered"
                        \/ key' = "pending" /\ (Covers(state) \/ OthersCover(a))
    <2> HIDE DEF state
    <2> QED BY <1>1, SettledBefore, SettledAfter, AccountsFrom
  <1>3. Shaped(state)
    BY AccountsFrom DEF Check, At, Shaped, AttemptStates, Idle
  <1>4. valid' = valid /\ queued' = queued + 0 /\ Budget' = Budget + 0
    BY AccountsFrom DEF Check, Budget, counters, Fault
  <1>5. Accounts(a, state, 0, 0)
    BY <1>1, <1>2, <1>3, <1>4, AccountsFrom
    DEF Accounts, Check, At, One, All, Publishes, Blind, Seals, Deletes, Covers, Shaped,
        AttemptStates
  <1> QED BY <1>5

\* Who has published will settle the key, unless it publishes blindly.
LEMMA PublishAccounts ==
  ASSUME NEW a \in Attempts, Inv, Shaped(attempt[a]), valid, Publish(a)
  PROVE  \E state : \E copies, late \in {0, 1} : Accounts(a, state, copies, late)
  <1> DEFINE state == [attempt[a] EXCEPT !.pc = "cache"]
  <1>1. Become(a, state)
    BY DEF Publish, Goto, Finish
  <1>2. /\ Settled <=> \/ key = "answered"
                       \/ key = "pending" /\ (Covers(attempt[a]) \/ OthersCover(a))
        /\ Settled' <=> \/ key' = "answered"
                        \/ key' = "pending" /\ (Covers(state) \/ OthersCover(a))
    <2> HIDE DEF state
    <2> QED BY <1>1, SettledBefore, SettledAfter, AccountsFrom
  <1>3. Shaped(state)
    BY AccountsFrom DEF Publish, At, Shaped, AttemptStates, Idle
  <1>4. valid' = valid /\ queued' = queued + 1 /\ Budget' = Budget + 0
    BY AccountsFrom DEF Publish, Budget, counters, Fault
  <1>5. Accounts(a, state, 1, 0)
    BY <1>1, <1>2, <1>3, <1>4, AccountsFrom
    DEF Accounts, Publish, At, One, All, Publishes, Blind, Seals, Deletes, Covers, Shaped,
        AttemptStates
  <1> QED BY <1>5

\* Who fails to publish will delete the key; the fault pays for that.
LEMMA PublishFailsAccounts ==
  ASSUME NEW a \in Attempts, Inv, Shaped(attempt[a]), valid, PublishFails(a)
  PROVE  \E state : \E copies, late \in {0, 1} : Accounts(a, state, copies, late)
  <1>copies. PICK copies \in {0, 1} : queued' = queued + copies
    BY AccountsFrom DEF PublishFails
  <1> DEFINE state == [attempt[a] EXCEPT !.pc = "release", !.status = "error"]
  <1>1. Become(a, state)
    BY DEF PublishFails, Goto, Finish
  <1>2. /\ Settled <=> \/ key = "answered"
                       \/ key = "pending" /\ (Covers(attempt[a]) \/ OthersCover(a))
        /\ Settled' <=> \/ key' = "answered"
                        \/ key' = "pending" /\ (Covers(state) \/ OthersCover(a))
    <2> HIDE DEF state
    <2> QED BY <1>1, SettledBefore, SettledAfter, AccountsFrom
  <1>3. Shaped(state)
    BY AccountsFrom DEF PublishFails, At, Shaped, AttemptStates, Idle
  <1>4. valid' = valid /\ queued' = queued + copies /\ Budget' = Budget + 1
    BY AccountsFrom, <1>copies DEF PublishFails, Budget, counters, Fault
  <1>5. Accounts(a, state, copies, 1)
    BY <1>1, <1>2, <1>3, <1>4, AccountsFrom, <1>copies
    DEF Accounts, PublishFails, At, One, All, Publishes, Blind, Seals, Deletes, Covers, Shaped,
        AttemptStates
  <1> QED BY <1>5

\* The answer settles the key.
LEMMA CacheAccounts ==
  ASSUME NEW a \in Attempts, Inv, Shaped(attempt[a]), valid, Cache(a)
  PROVE  \E state : \E copies, late \in {0, 1} : Accounts(a, state, copies, late)
  <1> DEFINE state == [attempt[a] EXCEPT !.pc = "answer", !.status = "accepted"]
  <1>1. Become(a, state)
    BY DEF Cache, Goto, Finish
  <1>2. /\ Settled <=> \/ key = "answered"
                       \/ key = "pending" /\ (Covers(attempt[a]) \/ OthersCover(a))
        /\ Settled' <=> \/ key' = "answered"
                        \/ key' = "pending" /\ (Covers(state) \/ OthersCover(a))
    <2> HIDE DEF state
    <2> QED BY <1>1, SettledBefore, SettledAfter, AccountsFrom
  <1>3. Shaped(state)
    BY AccountsFrom DEF Cache, At, Shaped, AttemptStates, Idle
  <1>4. valid' = valid /\ queued' = queued + 0 /\ Budget' = Budget + 0
    BY AccountsFrom DEF Cache, Budget, counters, Fault
  <1>5. Accounts(a, state, 0, 0)
    BY <1>1, <1>2, <1>3, <1>4, AccountsFrom
    DEF Accounts, Cache, At, One, All, Publishes, Blind, Seals, Deletes, Covers, Shaped,
        AttemptStates
  <1> QED BY <1>5

\* Without an answer the key is not settled.
LEMMA CacheFailsAccounts ==
  ASSUME NEW a \in Attempts, Inv, Shaped(attempt[a]), valid, CacheFails(a)
  PROVE  \E state : \E copies, late \in {0, 1} : Accounts(a, state, copies, late)
  <1> DEFINE state == [attempt[a] EXCEPT !.pc = "answer", !.status = "accepted"]
  <1>1. Become(a, state)
    BY DEF CacheFails, Goto, Finish
  <1>2. /\ Settled <=> \/ key = "answered"
                       \/ key = "pending" /\ (Covers(attempt[a]) \/ OthersCover(a))
        /\ Settled' <=> \/ key' = "answered"
                        \/ key' = "pending" /\ (Covers(state) \/ OthersCover(a))
    <2> HIDE DEF state
    <2> QED BY <1>1, SettledBefore, SettledAfter, AccountsFrom
  <1>3. Shaped(state)
    BY AccountsFrom DEF CacheFails, At, Shaped, AttemptStates, Idle
  <1>4. valid' = valid /\ queued' = queued + 0 /\ Budget' = Budget + 1
    BY AccountsFrom DEF CacheFails, Budget, counters, Fault
  <1>5. Accounts(a, state, 0, 1)
    BY <1>1, <1>2, <1>3, <1>4, AccountsFrom
    DEF Accounts, CacheFails, At, One, All, Publishes, Blind, Seals, Deletes, Covers, Shaped,
        AttemptStates
  <1> QED BY <1>5

\* The key goes, and everyone may begin again.
LEMMA ReleaseAccounts ==
  ASSUME NEW a \in Attempts, Inv, Shaped(attempt[a]), valid, Release(a)
  PROVE  \E state : \E copies, late \in {0, 1} : Accounts(a, state, copies, late)
  <1> DEFINE state == [attempt[a] EXCEPT !.pc = "answer"]
  <1>1. Become(a, state)
    BY DEF Release, Goto, Finish
  <1>2. /\ Settled <=> \/ key = "answered"
                       \/ key = "pending" /\ (Covers(attempt[a]) \/ OthersCover(a))
        /\ Settled' <=> \/ key' = "answered"
                        \/ key' = "pending" /\ (Covers(state) \/ OthersCover(a))
    <2> HIDE DEF state
    <2> QED BY <1>1, SettledBefore, SettledAfter, AccountsFrom
  <1>3. Shaped(state)
    BY AccountsFrom DEF Release, At, Shaped, AttemptStates, Idle
  <1>4. valid' = valid /\ queued' = queued + 0 /\ Budget' = Budget + 0
    BY AccountsFrom DEF Release, Budget, counters, Fault
  <1>5. Accounts(a, state, 0, 0)
    BY <1>1, <1>2, <1>3, <1>4, AccountsFrom
    DEF Accounts, Release, At, One, All, Publishes, Blind, Seals, Deletes, Covers, Shaped,
        AttemptStates
  <1> QED BY <1>5

\* The key stays.
LEMMA ReleaseFailsAccounts ==
  ASSUME NEW a \in Attempts, Inv, Shaped(attempt[a]), valid, ReleaseFails(a)
  PROVE  \E state : \E copies, late \in {0, 1} : Accounts(a, state, copies, late)
  <1> DEFINE state == [attempt[a] EXCEPT !.pc = "answer"]
  <1>1. Become(a, state)
    BY DEF ReleaseFails, Goto, Finish
  <1>2. /\ Settled <=> \/ key = "answered"
                       \/ key = "pending" /\ (Covers(attempt[a]) \/ OthersCover(a))
        /\ Settled' <=> \/ key' = "answered"
                        \/ key' = "pending" /\ (Covers(state) \/ OthersCover(a))
    <2> HIDE DEF state
    <2> QED BY <1>1, SettledBefore, SettledAfter, AccountsFrom
  <1>3. Shaped(state)
    BY AccountsFrom DEF ReleaseFails, At, Shaped, AttemptStates, Idle
  <1>4. valid' = valid /\ queued' = queued + 0 /\ Budget' = Budget + 1
    BY AccountsFrom DEF ReleaseFails, Budget, counters, Fault
  <1>5. Accounts(a, state, 0, 1)
    BY <1>1, <1>2, <1>3, <1>4, AccountsFrom
    DEF Accounts, ReleaseFails, At, One, All, Publishes, Blind, Seals, Deletes, Covers, Shaped,
        AttemptStates
  <1> QED BY <1>5

\* The request ends.
LEMMA AnswerAccounts ==
  ASSUME NEW a \in Attempts, Inv, Shaped(attempt[a]), valid, Answer(a)
  PROVE  \E state : \E copies, late \in {0, 1} : Accounts(a, state, copies, late)
  <1> DEFINE state == Idle
  <1>1. Become(a, state)
    BY DEF Answer, Goto, Finish
  <1>2. /\ Settled <=> \/ key = "answered"
                       \/ key = "pending" /\ (Covers(attempt[a]) \/ OthersCover(a))
        /\ Settled' <=> \/ key' = "answered"
                        \/ key' = "pending" /\ (Covers(state) \/ OthersCover(a))
    <2> HIDE DEF state
    <2> QED BY <1>1, SettledBefore, SettledAfter, AccountsFrom
  <1>3. Shaped(state)
    BY AccountsFrom DEF Answer, At, Shaped, AttemptStates, Idle
  <1>4. valid' = valid /\ queued' = queued + 0 /\ Budget' = Budget + 0
    BY AccountsFrom DEF Answer, Budget, counters, Fault
  <1>5. Accounts(a, state, 0, 0)
    BY <1>1, <1>2, <1>3, <1>4, AccountsFrom
    DEF Accounts, Answer, At, One, All, Publishes, Blind, Seals, Deletes, Covers, Shaped,
        AttemptStates, Idle
  <1> QED BY <1>5

\* From now on the request publishes blindly, if it publishes.
LEMMA DisconnectAccounts ==
  ASSUME NEW a \in Attempts, Inv, Shaped(attempt[a]), valid, Disconnect(a)
  PROVE  \E state : \E copies, late \in {0, 1} : Accounts(a, state, copies, late)
  <1> DEFINE state == [attempt[a] EXCEPT !.connected = FALSE]
  <1>1. Become(a, state)
    BY DEF Disconnect, Goto, Finish
  <1>2. /\ Settled <=> \/ key = "answered"
                       \/ key = "pending" /\ (Covers(attempt[a]) \/ OthersCover(a))
        /\ Settled' <=> \/ key' = "answered"
                        \/ key' = "pending" /\ (Covers(state) \/ OthersCover(a))
    <2> HIDE DEF state
    <2> QED BY <1>1, SettledBefore, SettledAfter, AccountsFrom
  <1>3. Shaped(state)
    BY AccountsFrom DEF Disconnect, At, Shaped, AttemptStates, Idle
  <1>4. valid' = valid /\ queued' = queued + 0 /\ Budget' = Budget + 1
    BY AccountsFrom DEF Disconnect, Budget, counters, Fault
  <1>5. Accounts(a, state, 0, 1)
    BY <1>1, <1>2, <1>3, <1>4, AccountsFrom
    DEF Accounts, Disconnect, At, One, All, Publishes, Blind, Seals, Deletes, Covers, Shaped,
        AttemptStates
  <1> QED BY <1>5

\* The request is over, whatever it has claimed.
LEMMA CrashAccounts ==
  ASSUME NEW a \in Attempts, Inv, Shaped(attempt[a]), valid, Crash(a)
  PROVE  \E state : \E copies, late \in {0, 1} : Accounts(a, state, copies, late)
  <1> DEFINE state == Idle
  <1>1. Become(a, state)
    BY DEF Crash, Goto, Finish
  <1>2. /\ Settled <=> \/ key = "answered"
                       \/ key = "pending" /\ (Covers(attempt[a]) \/ OthersCover(a))
        /\ Settled' <=> \/ key' = "answered"
                        \/ key' = "pending" /\ (Covers(state) \/ OthersCover(a))
    <2> HIDE DEF state
    <2> QED BY <1>1, SettledBefore, SettledAfter, AccountsFrom
  <1>3. Shaped(state)
    BY AccountsFrom DEF Crash, At, Shaped, AttemptStates, Idle
  <1>4. valid' = valid /\ queued' = queued + 0 /\ Budget' = Budget + 1
    BY AccountsFrom DEF Crash, Budget, counters, Fault
  <1>5. Accounts(a, state, 0, 1)
    BY <1>1, <1>2, <1>3, <1>4, AccountsFrom
    DEF Accounts, Crash, At, One, All, Publishes, Blind, Seals, Deletes, Covers, Shaped,
        AttemptStates, Idle
  <1> QED BY <1>5

\* The limiter lets it through, refuses it, or lets it through uncounted.
LEMMA SendAccounts ==
  ASSUME NEW a \in Attempts, Inv, Shaped(attempt[a]), valid, Send(a)
  PROVE  \E state : \E copies, late \in {0, 1} : Accounts(a, state, copies, late)
  <1>1. PICK state \in {attempt[a], [attempt[a] EXCEPT !.pc = "claim"]}, late \in {0, 1} :
          Become(a, state) /\ faults' = faults + late
    <2>1. attempt' = attempt => Become(a, attempt[a])
      BY DEF Become, Inv, TypeOK
    <2> QED BY <2>1, AccountsFrom DEF Send, Goto, Fault
  <1>2. /\ Settled <=> \/ key = "answered"
                       \/ key = "pending" /\ (Covers(attempt[a]) \/ OthersCover(a))
        /\ Settled' <=> \/ key' = "answered"
                        \/ key' = "pending" /\ (Covers(state) \/ OthersCover(a))
    BY <1>1, SettledBefore, SettledAfter, AccountsFrom
  <1>3. state.pc \in {"idle", "claim"} /\ state.connected /\ attempt[a].pc = "idle"
        /\ attempt[a].connected
    BY <1>1, AccountsFrom DEF Send, At, Shaped, AttemptStates
  <1>4. /\ key' = key /\ valid' = valid /\ queued' = queued + 0 /\ Budget' = Budget + late
    BY <1>1, AccountsFrom DEF Send, Budget
  <1>5. Accounts(a, state, 0, late)
    BY <1>1, <1>2, <1>3, <1>4, AccountsFrom
    DEF Accounts, One, All, Publishes, Blind, Seals, Deletes, Covers, Shaped
  <1> QED BY <1>1, <1>5

\* As long as nobody has claimed the key, nothing has been spent.
LEMMA StartStep ==
  ASSUME Inv, Start, NEW a \in Attempts, NEW state, NEW copies \in {0, 1},
         NEW late \in {0, 1}, Accounts(a, state, copies, late)
  PROVE  Start' \/ Within'
  <1>1. /\ copies = 0 /\ ~Deletes(state) /\ queued' = 0 /\ Budget' = late
        /\ \/ late = 0 /\ key' = key /\ state.pc \in {"idle", "claim"} /\ state.connected
           \/ late = 1 \/ Settled'
    BY DEF Accounts, Start
  <1>2. attempt'[a] = state /\ \A c \in Attempts \ {a} : attempt'[c] = attempt[c]
    BY SetsChange DEF Accounts, Inv
  <1>3. CASE late = 0 /\ key' = key /\ state.pc \in {"idle", "claim"} /\ state.connected
    <2>1. \A c \in Attempts : attempt'[c].pc \in {"idle", "claim"} /\ attempt'[c].connected
      BY <1>2, <1>3 DEF Start
    <2> QED BY <1>1, <1>3, <2>1 DEF Start
  <1>4. CASE late = 1 \/ Settled'
    <2>1. /\ Publishing = {} /\ Blinded = {} /\ Sealing = {} /\ Deleting = {}
      BY DEF Start, Publishing, Blinded, Sealing, Deleting, Publishes, Blind, Seals, Deletes
    <2>2. Cardinality({}) = 0
      BY FS_EmptySet
    <2>3. /\ Cardinality(Publishing)' + One(Publishes(attempt[a]) \/ Blind(attempt[a]))
               = Cardinality(Publishing) + One(Publishes(state) \/ Blind(state))
          /\ Cardinality(Blinded)' + One(Blind(attempt[a]))
               = Cardinality(Blinded) + One(Blind(state))
          /\ Cardinality(Sealing)' + One(Seals(attempt[a]))
               = Cardinality(Sealing) + One(Seals(state))
          /\ Cardinality(Deleting)' + One(Deletes(attempt[a]))
               = Cardinality(Deleting) + One(Deletes(state))
      BY SetsChange DEF Accounts, Inv
    <2>4. Cardinality(Deleting)' = 0
      <3>1. /\ a \notin Deleting' /\ \A c \in Attempts \ {a} : c \notin Deleting'
        BY <1>1, <1>2 DEF Deleting, Deletes, Start
      <3>2. Deleting' = {}
        BY <3>1 DEF Deleting
      <3> QED BY <2>2, <3>2
    <2>5. /\ Cardinality(Publishing)' \in Nat /\ Cardinality(Blinded)' \in Nat
          /\ Cardinality(Sealing)' \in Nat
      <3>1. (/\ N \in Nat /\ Cardinality(Publishing) \in Nat /\ Cardinality(Blinded) \in Nat
             /\ Cardinality(Sealing) \in Nat /\ Cardinality(Deleting) \in Nat
             /\ Cardinality(Blinded) <= Cardinality(Publishing)
             /\ Cardinality(Publishing) + Cardinality(Sealing) + Cardinality(Deleting) <= N)'
        BY Counts, PTL
      <3> QED BY <3>1
    <2>6. N \in Nat /\ N >= 1 /\ N' = N
      BY AttemptsCount DEF N
    <2>7. Cardinality(Publishing)' <= 1 /\ Cardinality(Blinded)' <= 1
      <3>1. One(Publishes(state) \/ Blind(state)) <= 1 /\ One(Blind(state)) <= 1
            /\ One(Publishes(attempt[a]) \/ Blind(attempt[a])) \in {0, 1}
            /\ One(Blind(attempt[a])) \in {0, 1}
            /\ One(Publishes(state) \/ Blind(state)) \in {0, 1}
            /\ One(Blind(state)) \in {0, 1}
        BY DEF One
      <3> QED BY <2>1, <2>2, <2>3, <2>5, <3>1
    <2>8. Potential' = IF Settled' THEN Cardinality(Publishing)'
                       ELSE N + Cardinality(Blinded)' - Cardinality(Sealing)'
      BY <2>4, <2>5, <2>6 DEF Potential
    <2>9. Potential' <= 1 + Budget' * N
      <3>1. CASE late = 1
        BY <1>1, <2>5, <2>6, <2>7, <2>8, <3>1
      <3>2. CASE Settled' /\ late = 0
        BY <1>1, <2>5, <2>6, <2>7, <2>8, <3>2
      <3> QED BY <1>4, <3>1, <3>2
    <2> QED
      <3>1. Potential' \in Int
        BY <2>5, <2>6, <2>8
      <3>2. queued' + Potential' = Potential'
        <4>1. queued' = 0 BY <1>1
        <4>2. \A i \in Int : 0 + i = i OBVIOUS
        <4> QED BY <3>1, <4>1, <4>2
      <3> QED BY <2>6, <2>9, <3>2 DEF Within
  <1> QED BY <1>1, <1>3, <1>4

LEMMA AccountsStep ==
  ASSUME Inv, QueueInv, valid, NEW a \in Attempts,
         \E state : \E copies, late \in {0, 1} : Accounts(a, state, copies, late)
  PROVE  Start' \/ Within'
  <1>1. PICK state : \E copies, late \in {0, 1} : Accounts(a, state, copies, late)
    OBVIOUS
  <1>2. PICK copies \in {0, 1}, late \in {0, 1} : Accounts(a, state, copies, late)
    BY <1>1
  <1>3. CASE Start BY <1>2, <1>3, StartStep
  <1>4. CASE Within BY <1>2, <1>4, WithinStep
  <1> QED BY <1>3, <1>4 DEF QueueInv

\* A handler is in one of its shapes, whatever the body.
LEMMA ShapedStep ==
  ASSUME Inv, QueueInv, [Next]_vars
  PROVE  \A a \in Attempts : Shaped(attempt[a])'
  <1> SUFFICES ASSUME NEW b \in Attempts PROVE Shaped(attempt[b])'
    OBVIOUS
  <1>1. attempt \in [Attempts -> AttemptStates] /\ Shaped(attempt[b])
    BY DEF Inv, TypeOK, QueueInv
  <1>2. ASSUME NEW a \in Attempts, Send(a) PROVE Shaped(attempt[b])'
    <2>1. \/ attempt' = attempt
          \/ attempt' = [attempt EXCEPT ![a] = [attempt[a] EXCEPT !.pc = "claim"]]
      BY <1>2 DEF Send, Goto, Become
    <2> QED BY <1>1, <2>1 DEF Shaped, AttemptStates
  <1>3. ASSUME NEW a \in Attempts, Handle(a) PROVE Shaped(attempt[b])'
    <2>1. CASE Claim(a) BY <1>1, <2>1 DEF Claim, Become, Shaped, AttemptStates
    <2>2. CASE ClaimTaken(a) BY <1>1, <2>2 DEF ClaimTaken, Become, Shaped, AttemptStates
    <2>3. CASE AnswerFromKey(a)
      BY <1>1, <2>3 DEF AnswerFromKey, Finish, Become, Shaped, AttemptStates
    <2>4. CASE LookFails(a) BY <1>1, <2>4 DEF LookFails, Goto, Become, Shaped, AttemptStates
    <2>5. CASE Check(a)
      <3>1. \/ Become(a, [attempt[a] EXCEPT !.pc = "publish"])
            \/ Become(a, [attempt[a] EXCEPT !.pc = "release", !.status = "invalid"])
        BY <2>5 DEF Check, Goto, Finish
      <3>2. CASE Become(a, [attempt[a] EXCEPT !.pc = "publish"])
        BY <1>1, <3>2 DEF Become, Shaped, AttemptStates
      <3>3. CASE Become(a, [attempt[a] EXCEPT !.pc = "release", !.status = "invalid"])
        BY <1>1, <3>3 DEF Become, Shaped, AttemptStates
      <3> QED BY <3>1, <3>2, <3>3
    <2>6. CASE Publish(a) BY <1>1, <2>6 DEF Publish, Goto, Become, Shaped, AttemptStates
    <2>7. CASE Cache(a) BY <1>1, <2>7 DEF Cache, Finish, Become, Shaped, AttemptStates
    <2>8. CASE Release(a) BY <1>1, <2>8 DEF Release, Goto, Become, Shaped, AttemptStates
    <2>9. CASE Answer(a) BY <1>1, <2>9 DEF Answer, Become, Shaped, Idle
    <2> QED BY <1>3, <2>1, <2>2, <2>3, <2>4, <2>5, <2>6, <2>7, <2>8, <2>9 DEF Handle
  <1>4. ASSUME NEW a \in Attempts, HandlerFault(a) PROVE Shaped(attempt[b])'
    <2>1. CASE ClaimFails(a) BY <1>1, <2>1 DEF ClaimFails, Goto, Become, Shaped, AttemptStates
    <2>2. CASE PublishFails(a)
      BY <1>1, <2>2 DEF PublishFails, Finish, Become, Shaped, AttemptStates
    <2>3. CASE CacheFails(a) BY <1>1, <2>3 DEF CacheFails, Finish, Become, Shaped, AttemptStates
    <2>4. CASE ReleaseFails(a)
      BY <1>1, <2>4 DEF ReleaseFails, Goto, Become, Shaped, AttemptStates
    <2>5. CASE Disconnect(a)
      BY <1>1, <2>5 DEF Disconnect, At, Become, Shaped, AttemptStates
    <2>6. CASE Crash(a) BY <1>1, <2>6 DEF Crash, Become, Shaped, Idle
    <2> QED BY <1>4, <2>1, <2>2, <2>3, <2>4, <2>5, <2>6 DEF HandlerFault
  <1>5. CASE Traffic \/ ClockTick \/ ExpireClaim \/ ExpireAnswer \/ UNCHANGED vars
    BY <1>1, <1>5 DEF Shaped, Traffic, ClockTick, ExpireClaim, ExpireAnswer, vars
  <1> QED BY <1>2, <1>3, <1>4, <1>5 DEF Next

\* An expired claim was not covered; an expired answer costs what it pays.
LEMMA WorldAccounts ==
  ASSUME Inv, QueueInv, valid,
         Traffic \/ ClockTick \/ ExpireClaim \/ ExpireAnswer \/ UNCHANGED vars
  PROVE  Start' \/ Within'
  <1>1. attempt' = attempt /\ queued' = queued /\ faults' = faults
    BY DEF Traffic, ClockTick, ExpireClaim, ExpireAnswer, vars, counters
  <1>2. /\ Publishing' = Publishing /\ Blinded' = Blinded /\ Sealing' = Sealing
        /\ Deleting' = Deleting /\ N' = N
    BY <1>1 DEF Publishing, Blinded, Sealing, Deleting, Publishes, Blind, Seals, Deletes, N
  <1>3. CASE UNCHANGED <<key, expiries>>
    <2>1. Settled' = Settled /\ Budget' = Budget
      BY <1>1, <1>3 DEF Settled, Covers, Budget
    <2>2. Potential' = Potential
      BY <1>2, <2>1 DEF Potential
    <2>3. Start => Start'
      BY <1>1, <1>3, <2>1 DEF Start
    <2>4. Within => Within'
      BY <1>1, <1>2, <2>1, <2>2 DEF Within
    <2> QED BY <2>3, <2>4 DEF QueueInv
  <1>4. CASE ExpireClaim
    <2>1. ~Settled /\ ~Settled' /\ Budget' = Budget
      BY <1>1, <1>4 DEF ExpireClaim, Settled, Covers, Budget, counters
    <2>2. Potential' = Potential
      BY <1>2, <2>1 DEF Potential
    <2>3. Within /\ Within'
      <3>1. Within
        BY <1>4 DEF QueueInv, Start, ExpireClaim
      <3> QED BY <1>1, <1>2, <2>1, <2>2, <3>1 DEF Within
    <2> QED BY <2>3
  <1>5. CASE ExpireAnswer
    <2>1. Settled /\ ~Settled' /\ Within
      BY <1>5 DEF ExpireAnswer, Settled, QueueInv, Start
    <2>2. Budget \in Nat /\ Budget' = Budget + 1 /\ queued \in Nat
      BY <1>5, Facts, IntakeBounds DEF ExpireAnswer, Budget, Inv, TypeOK
    <2> DEFINE p == Cardinality(Publishing)
               b == Cardinality(Blinded)
               k == Cardinality(Sealing)
               r == Cardinality(Deleting)
    <2>3. /\ p \in Nat /\ b \in Nat /\ k \in Nat /\ r \in Nat
          /\ b <= p /\ N \in Nat
      BY Counts
    <2>4. Potential = p + N * r /\ Potential' = N + b + N * r - k - r
      BY <1>2, <2>1 DEF Potential
    <2>5. queued + (p + N * r) <= 1 + Budget * N
      BY <2>1, <2>4 DEF Within
    <2>6. N * r \in Nat /\ Budget * N \in Nat /\ (Budget + 1) * N = Budget * N + N
      BY <2>2, <2>3, Products
    <2> HIDE DEF p, b, k, r
    <2>7. PICK X \in Nat, Y \in Nat : X = N * r /\ Y = Budget * N
      BY <2>6
    <2>8. queued + (N + b + X - k - r) <= 1 + (Y + N)
      BY <2>2, <2>3, <2>5, <2>7
    <2> QED BY <1>1, <1>2, <2>2, <2>4, <2>6, <2>7, <2>8 DEF Within
  <1> QED BY <1>3, <1>4, <1>5 DEF Traffic, ClockTick, vars, counters

LEMMA QueueInit == Init => QueueInv
  <1> SUFFICES ASSUME Init PROVE QueueInv
    OBVIOUS
  <1>1. \A a \in Attempts : attempt[a] = Idle
    BY DEF Init
  <1>2. Start
    BY <1>1 DEF Init, Start, Budget, Idle
  <1> QED BY <1>1, <1>2 DEF QueueInv, Shaped, Idle

LEMMA QueueNext == Inv /\ QueueInv /\ [Next]_vars => QueueInv'
  <1> SUFFICES ASSUME Inv, QueueInv, [Next]_vars PROVE QueueInv'
    OBVIOUS
  <1>1. \A a \in Attempts : Shaped(attempt[a])'
    BY ShapedStep
  <1>2. \A a \in Attempts : Shaped(attempt[a])
    BY DEF QueueInv
  <1>3. valid' = valid
    BY DEF Next, vars, Send, Handle, HandlerFault, Claim, ClaimTaken, AnswerFromKey, LookFails,
       Check, Publish, Cache, Release, Answer, ClaimFails, PublishFails, CacheFails,
       ReleaseFails, Disconnect, Crash, Traffic, ClockTick, ExpireClaim, ExpireAnswer
  <1>4. ASSUME valid PROVE Start' \/ Within'
    <2>1. ASSUME NEW a \in Attempts, Send(a) PROVE Start' \/ Within'
      BY <1>2, <1>4, <2>1, SendAccounts, AccountsStep
    <2>2. ASSUME NEW a \in Attempts, Handle(a) PROVE Start' \/ Within'
      <3>1. \E state : \E copies, late \in {0, 1} : Accounts(a, state, copies, late)
        BY <1>2, <1>4, <2>2, ClaimAccounts, ClaimTakenAccounts, AnswerFromKeyAccounts,
           LookFailsAccounts, CheckAccounts, PublishAccounts, CacheAccounts,
           ReleaseAccounts, AnswerAccounts DEF Handle
      <3> QED BY <1>4, <3>1, AccountsStep
    <2>3. ASSUME NEW a \in Attempts, HandlerFault(a) PROVE Start' \/ Within'
      <3>1. \E state : \E copies, late \in {0, 1} : Accounts(a, state, copies, late)
        BY <1>2, <1>4, <2>3, ClaimFailsAccounts, PublishFailsAccounts, CacheFailsAccounts,
           ReleaseFailsAccounts, DisconnectAccounts, CrashAccounts DEF HandlerFault
      <3> QED BY <1>4, <3>1, AccountsStep
    <2>4. CASE Traffic \/ ClockTick \/ ExpireClaim \/ ExpireAnswer \/ UNCHANGED vars
      BY <1>4, <2>4, WorldAccounts
    <2> QED BY <2>1, <2>2, <2>3, <2>4 DEF Next
  <1> QED BY <1>1, <1>3, <1>4 DEF QueueInv

\* An operation sent again and again under one key, also while it is still under
\* way, is queued once, but for what faults and expiries of the answer let
\* through: at most every request in progress, for each of them.
THEOREM DuplicatesAreBounded == Spec => []DuplicatesBounded
  <1>1. Inv /\ QueueInv => DuplicatesBounded
    <2> SUFFICES ASSUME Inv, QueueInv PROVE DuplicatesBounded
      OBVIOUS
    <2>1. queued \in Nat /\ Budget \in Nat /\ N \in Nat /\ (queued > 0 => valid)
      BY Counts, IntakeBounds DEF Inv, TypeOK, AcceptedMeansQueued, Budget
    <2>2. Budget * N \in Nat
      BY <2>1, Products
    <2>3. CASE queued = 0
      BY <2>2, <2>3 DEF DuplicatesBounded, Budget, N
    <2>4. CASE Within
      <3> DEFINE p == Cardinality(Publishing)
                 b == Cardinality(Blinded)
                 k == Cardinality(Sealing)
                 r == Cardinality(Deleting)
      <3>1. /\ p \in Nat /\ b \in Nat /\ k \in Nat /\ r \in Nat /\ p + k + r <= N
        BY Counts
      <3>2. N * r \in Nat
        BY <2>1, <3>1, Products
      <3>3. Potential = IF Settled THEN p + N * r ELSE N + b + N * r - k - r
        BY DEF Potential
      <3> HIDE DEF p, b, k, r
      <3>4. PICK X \in Nat, Y \in Nat : X = N * r /\ Y = Budget * N
        BY <2>2, <3>2
      <3>5. Potential \in Nat
        BY <2>1, <3>1, <3>3, <3>4
      <3>6. queued <= 1 + Y
        BY <2>1, <2>4, <3>4, <3>5 DEF Within
      <3> QED BY <3>4, <3>6 DEF DuplicatesBounded, Budget, N
    <2> QED BY <2>1, <2>3, <2>4 DEF QueueInv, Start
  <1> QED BY <1>1, QueueInit, QueueNext, InitInv, NextInv, Invariance, PTL DEF Spec
=============================================================================
