----------------------------- MODULE RateLimit -----------------------------
(***************************************************************************)
(* The request limit of a tenant (platform/api/middleware/ratelimit.go): a *)
(* counter in Redis that every request increments and whose time to live   *)
(* every request renews.  Time goes in ticks, Window of them to a window.  *)
(*                                                                         *)
(* arrived and passed are ghosts: arrived[t] requests have come and        *)
(* passed[t] were let through in the last t ticks, the current one         *)
(* included.                                                               *)
(***************************************************************************)
EXTENDS Naturals

CONSTANTS Limit, Window

ASSUME LimitAssumption == Limit \in Nat \ {0} /\ Window \in Nat \ {0}

VARIABLES
  hits,     \* the counter, 0 when there is no key; counted up to Limit + 1
  ttl,      \* ticks until the key expires, 0 when it does not
  arrived,  \* ghost: requests that came to the limiter, up to Limit + 1
  passed,   \* ghost: requests the limiter let through
  opened    \* ghost: requests let through because Redis failed

limiter == <<hits, ttl, arrived, passed, opened>>

Quiet == [t \in 1 .. Window |-> 0]

LimiterInit ==
  /\ hits = 0 /\ ttl = 0 /\ opened = 0
  /\ arrived = Quiet /\ passed = Quiet

UpTo(n, bound) == IF n > bound THEN bound ELSE n
Older(counts) == [t \in 1 .. Window |-> IF t = 1 THEN 0 ELSE counts[t - 1]]
Arrive == arrived' = [t \in 1 .. Window |-> UpTo(arrived[t] + 1, Limit + 1)]
Pass == passed' = [t \in 1 .. Window |-> passed[t] + 1]

\* The pipelined INCR and EXPIRE.
Count ==
  /\ hits' = UpTo(hits + 1, Limit + 1)
  /\ ttl' = Window
  /\ Arrive

\* Mutant of LetThrough: the counter is compared before this request is counted.
LetThroughOneMore ==
  /\ Count
  /\ hits <= Limit
  /\ Pass
  /\ UNCHANGED opened

LetThrough ==
  /\ Count
  /\ hits' <= Limit
  /\ Pass
  /\ UNCHANGED opened

\* 429 Too Many Requests.
Refuse ==
  /\ Count
  /\ hits' > Limit
  /\ UNCHANGED <<passed, opened>>

\* The pipeline reports an error: none, the first or both of its commands were
\* executed, and the request goes on.
FailOpen ==
  /\ Arrive /\ Pass
  /\ opened' = opened + 1
  /\ \/ UNCHANGED <<hits, ttl>>
     \/ hits' = UpTo(hits + 1, Limit + 1) /\ ttl' \in {ttl, Window}

\* A tick passes; the key may expire.
Tick ==
  /\ arrived' = Older(arrived) /\ passed' = Older(passed)
  /\ hits' = IF ttl = 1 THEN 0 ELSE hits
  /\ ttl' = IF ttl = 0 THEN 0 ELSE ttl - 1
  /\ UNCHANGED opened

LimiterNext == LetThrough \/ Refuse \/ Tick
LimiterSpec == LimiterInit /\ [][LimiterNext]_limiter

-----------------------------------------------------------------------------
LimiterTypeOK ==
  /\ hits \in 0 .. Limit + 1 /\ ttl \in 0 .. Window /\ opened \in Nat
  /\ arrived \in [1 .. Window -> 0 .. Limit + 1]
  /\ passed \in [1 .. Window -> Nat]

\* No window of time lets more than the limit through, wherever it begins,
\* but for what Redis failed to count: "limit = max requests per window
\* duration" (ratelimit.go:12).
LimitHolds == passed[Window] <= Limit + opened

\* A request is refused only when the window that ends with it has had more
\* than the limit: "RateLimit enforces a sliding-window request limit"
\* (ratelimit.go:11).
OnlyBusyTenantsRefused == [][Refuse => arrived'[Window] > Limit]_limiter
=============================================================================
