---------------------------- MODULE EventIntake ----------------------------
(***************************************************************************)
(* POST /v1/events (platform/api/handler/events.go) behind the rate        *)
(* limiter: one operation of one client, sent under one Idempotency-Key in *)
(* several attempts that may overlap, against the key in Redis and the     *)
(* event stream.  Operations share nothing but the limiter; what else the  *)
(* tenant sends is Traffic.                                                *)
(***************************************************************************)
EXTENDS RateLimit, FiniteSets

CONSTANTS
  Attempts,    \* requests of the operation that may be in progress at a time
  MaxTraffic,  \* bound: other requests of the tenant
  MaxExpiries, \* bound: expiries of a cached answer
  MaxFaults    \* bound: crashes, disconnects and errors of Redis or the bus

ASSUME AttemptsAssumption == IsFiniteSet(Attempts)

ASSUME IntakeBounds == MaxTraffic \in Nat /\ MaxExpiries \in Nat /\ MaxFaults \in Nat

VARIABLES
  attempt,  \* attempt[a]: the handler of request a, on one of the servers
  key,      \* the Idempotency-Key in Redis: no key, __pending__ or an answer
  queued,   \* how often the event was put on the stream
  valid,    \* whether the body passes the checks; never changes
  client,   \* what the client has been told so far
  wait,     \* ticks the client still waits, as Retry-After told it to
  traffic, expiries, faults

vars == <<limiter, attempt, key, queued, valid, client, wait, traffic, expiries,
          faults>>
counters == <<traffic, expiries, faults>>

Idle == [pc |-> "idle", claimed |-> FALSE, holds |-> FALSE, connected |-> TRUE,
         status |-> "none"]

\* holds: redisKey is set; claimed (ghost): it was this request's SETNX.
AttemptStates ==
  [pc : {"idle", "claim", "look", "decode", "publish", "cache", "release", "answer"},
   claimed : BOOLEAN, holds : BOOLEAN, connected : BOOLEAN,
   status : {"none", "accepted", "conflict", "invalid", "error"}]

Init ==
  /\ LimiterInit
  /\ attempt = [a \in Attempts |-> Idle]
  /\ key = "none" /\ queued = 0 /\ valid \in BOOLEAN
  /\ client = "trying" /\ wait = 0
  /\ traffic = 0 /\ expiries = 0 /\ faults = 0

Fault == faults < MaxFaults /\ faults' = faults + 1
At(a, pc) == attempt[a].pc = pc
Become(a, state) == attempt' = [attempt EXCEPT ![a] = state]
Goto(a, pc) == Become(a, [attempt[a] EXCEPT !.pc = pc])
Finish(a, pc, status) == Become(a, [attempt[a] EXCEPT !.pc = pc, !.status = status])

-----------------------------------------------------------------------------
(* The limiter comes first. *)

\* The client sends the operation, for the first time or again; the request
\* before may still be under way.
Send(a) ==
  /\ At(a, "idle") /\ client = "trying" /\ wait = 0
  /\ \/ LetThrough /\ Goto(a, "claim") /\ UNCHANGED <<wait, faults>>
     \/ Refuse /\ wait' = Window /\ UNCHANGED <<attempt, faults>>
     \/ Fault /\ FailOpen /\ Goto(a, "claim") /\ UNCHANGED wait
  /\ UNCHANGED <<key, queued, valid, client, traffic, expiries>>

\* Another request of the tenant.
Traffic ==
  /\ traffic < MaxTraffic /\ traffic' = traffic + 1
  /\ LetThrough \/ Refuse
  /\ UNCHANGED <<attempt, key, queued, valid, client, wait, expiries, faults>>

ClockTick ==
  /\ hits > 0 \/ wait > 0 \/ arrived # Quiet
  /\ Tick
  /\ wait' = IF wait = 0 THEN 0 ELSE wait - 1
  /\ UNCHANGED <<attempt, key, queued, valid, client, counters>>

-----------------------------------------------------------------------------
(* The key. *)

\* Mutant of Claim: SET instead of SETNX.
ClaimBySet(a) ==
  /\ At(a, "claim")
  /\ key' = "pending"
  /\ Become(a, [attempt[a] EXCEPT !.pc = "decode", !.claimed = TRUE, !.holds = TRUE])
  /\ UNCHANGED <<limiter, queued, valid, client, wait, counters>>

\* SETNX claims the key.
Claim(a) ==
  /\ At(a, "claim") /\ key = "none"
  /\ key' = "pending"
  /\ Become(a, [attempt[a] EXCEPT !.pc = "decode", !.claimed = TRUE, !.holds = TRUE])
  /\ UNCHANGED <<limiter, queued, valid, client, wait, counters>>

ClaimTaken(a) ==
  /\ At(a, "claim") /\ key # "none"
  /\ Become(a, [attempt[a] EXCEPT !.pc = "look", !.holds = TRUE])
  /\ UNCHANGED <<limiter, key, queued, valid, client, wait, counters>>

\* SETNX reports an error, executed or not: the request goes on without a key.
ClaimFails(a) ==
  /\ Fault
  /\ At(a, "claim")
  /\ \/ Goto(a, "decode") /\ UNCHANGED key
     \/ /\ key = "none" /\ key' = "pending"
        /\ Become(a, [attempt[a] EXCEPT !.pc = "decode", !.claimed = TRUE])
  /\ UNCHANGED <<limiter, queued, valid, client, wait, traffic, expiries>>

\* Mutant of AnswerFromKey: every key that is there is taken for an answer.
AnswerWhateverIsThere(a) ==
  /\ At(a, "look") /\ key # "none"
  /\ Finish(a, "answer", "accepted")
  /\ UNCHANGED <<limiter, key, queued, valid, client, wait, counters>>

\* GET finds a request under way (409) or an answer to replay (202).
AnswerFromKey(a) ==
  /\ At(a, "look") /\ key # "none"
  /\ Finish(a, "answer", IF key = "pending" THEN "conflict" ELSE "accepted")
  /\ UNCHANGED <<limiter, key, queued, valid, client, wait, counters>>

\* GET finds nothing any more, or fails: processed after all, redisKey set.
LookFails(a) ==
  /\ At(a, "look")
  /\ \/ key = "none" /\ UNCHANGED faults
     \/ Fault
  /\ Goto(a, "decode")
  /\ UNCHANGED <<limiter, key, queued, valid, client, wait, traffic, expiries>>

-----------------------------------------------------------------------------
(* The event. *)

\* Mutant of Check: the early returns forget releaseIdem.
CheckWithoutRelease(a) ==
  /\ At(a, "decode")
  /\ IF valid THEN Goto(a, "publish") ELSE Finish(a, "answer", "invalid")
  /\ UNCHANGED <<limiter, key, queued, valid, client, wait, counters>>

\* The body is decoded; the required fields must be there.
Check(a) ==
  /\ At(a, "decode")
  /\ IF valid THEN Goto(a, "publish") ELSE Finish(a, "release", "invalid")
  /\ UNCHANGED <<limiter, key, queued, valid, client, wait, counters>>

Publish(a) ==
  /\ At(a, "publish")
  /\ queued' = queued + 1
  /\ Goto(a, "cache")
  /\ UNCHANGED <<limiter, key, valid, client, wait, counters>>

\* The stream reports an error, whether or not it stored the event.
PublishFails(a) ==
  /\ Fault
  /\ At(a, "publish")
  /\ queued' \in {queued, queued + 1}
  /\ Finish(a, "release", "error")
  /\ UNCHANGED <<limiter, key, valid, client, wait, traffic, expiries>>

\* rdb.Set, on the context of the request: when the client has gone, nothing
\* is cached.  (net/http watches the connection once the body has been read.)
Cache(a) ==
  /\ At(a, "cache")
  /\ key' = IF attempt[a].holds /\ attempt[a].connected THEN "answered" ELSE key
  /\ Finish(a, "answer", "accepted")
  /\ UNCHANGED <<limiter, queued, valid, client, wait, counters>>

CacheFails(a) ==
  /\ Fault
  /\ At(a, "cache") /\ attempt[a].holds
  /\ Finish(a, "answer", "accepted")
  /\ UNCHANGED <<limiter, key, queued, valid, client, wait, traffic, expiries>>

\* releaseIdem, on the context of the request too, deletes the key, whoever
\* has claimed it.
Release(a) ==
  /\ At(a, "release")
  /\ key' = IF attempt[a].holds /\ attempt[a].connected THEN "none" ELSE key
  /\ Goto(a, "answer")
  /\ UNCHANGED <<limiter, queued, valid, client, wait, counters>>

ReleaseFails(a) ==
  /\ Fault
  /\ At(a, "release") /\ attempt[a].holds
  /\ Goto(a, "answer")
  /\ UNCHANGED <<limiter, key, queued, valid, client, wait, traffic, expiries>>

\* The response reaches the client, if it still waits for it.
Answer(a) ==
  /\ At(a, "answer")
  /\ client' = IF ~attempt[a].connected \/ client = "accepted" THEN client
               ELSE IF attempt[a].status = "accepted" THEN "accepted"
               ELSE IF attempt[a].status = "invalid" THEN "rejected"
               ELSE client
  /\ Become(a, Idle)
  /\ UNCHANGED <<limiter, key, queued, valid, wait, counters>>

\* The client gives up on this request, or its connection breaks.
Disconnect(a) ==
  /\ Fault
  /\ ~At(a, "idle") /\ attempt[a].connected
  /\ Become(a, [attempt[a] EXCEPT !.connected = FALSE])
  /\ UNCHANGED <<limiter, key, queued, valid, client, wait, traffic, expiries>>

\* The server dies.
Crash(a) ==
  /\ Fault
  /\ ~At(a, "idle")
  /\ Become(a, Idle)
  /\ UNCHANGED <<limiter, key, queued, valid, client, wait, traffic, expiries>>

\* Mutant of ExpireClaim: SETNX without a time to live.
NeverExpireClaim == FALSE /\ UNCHANGED vars

\* 24 hours pass after the request that claimed the key has ended.  (No
\* request takes that long.)
ExpireClaim ==
  /\ key = "pending" /\ \A a \in Attempts : ~attempt[a].claimed
  /\ key' = "none"
  /\ UNCHANGED <<limiter, attempt, queued, valid, client, wait, counters>>

ExpireAnswer ==
  /\ key = "answered"
  /\ expiries < MaxExpiries /\ expiries' = expiries + 1
  /\ key' = "none"
  /\ UNCHANGED <<limiter, attempt, queued, valid, client, wait, traffic, faults>>

-----------------------------------------------------------------------------
Handle(a) ==
  \/ Claim(a) \/ ClaimTaken(a) \/ AnswerFromKey(a) \/ LookFails(a) \/ Check(a)
  \/ Publish(a) \/ Cache(a) \/ Release(a) \/ Answer(a)

HandlerFault(a) ==
  \/ ClaimFails(a) \/ PublishFails(a) \/ CacheFails(a) \/ ReleaseFails(a)
  \/ Disconnect(a) \/ Crash(a)

Next ==
  \/ \E a \in Attempts : Send(a) \/ Handle(a) \/ HandlerFault(a)
  \/ Traffic \/ ClockTick \/ ExpireClaim \/ ExpireAnswer

\* The client tries again until it has an answer; handlers run, the clock goes
\* on and Redis drops what has expired.
Spec ==
  /\ Init /\ [][Next]_vars
  /\ WF_vars(\E a \in Attempts : Send(a))
  /\ \A a \in Attempts : WF_vars(Handle(a))
  /\ WF_vars(ClockTick) /\ WF_vars(ExpireClaim)

-----------------------------------------------------------------------------
TypeOK ==
  /\ LimiterTypeOK
  /\ attempt \in [Attempts -> AttemptStates]
  /\ key \in {"none", "pending", "answered"}
  /\ queued \in Nat /\ valid \in BOOLEAN
  /\ client \in {"trying", "accepted", "rejected"} /\ wait \in 0 .. Window
  /\ traffic \in 0 .. MaxTraffic /\ expiries \in 0 .. MaxExpiries
  /\ faults \in 0 .. MaxFaults

\* A client is told that its event was accepted, by the handler or by a replay
\* of an answer, only after the event was put on the stream, whichever of the
\* overlapping attempts claimed, cached, released or lost the key; and a body
\* that is refused is never queued.
AcceptedMeansQueued ==
  /\ client = "accepted" \/ key = "answered" => queued > 0
  /\ queued > 0 => valid

\* "Retries replay that response without re-queuing the event" (events.go:35):
\* an operation sent again and again, also while it is still in progress, is
\* queued once, unless a fault or the expiry of its answer intervenes; then
\* each of those lets at most the attempts in progress at the time through.
DuplicatesBounded ==
  queued <= 1 + (faults + expiries) * Cardinality(Attempts)

\* No request that runs to its end without a fault leaves its claim behind:
\* "releaseIdem clears a claimed idempotency key when the request fails before
\* producing a cacheable response" (events.go:118).
ClaimsAreResolved ==
  faults = 0 /\ (\A a \in Attempts : At(a, "idle")) => key # "pending"

\* A client that keeps trying is told in the end that its event was accepted,
\* or that it is invalid, in spite of stale claims, 409s, errors and the limit
\* (if the rest of the tenant's traffic leaves a quiet window).
OperationsEnd == <>(client # "trying")
=============================================================================
