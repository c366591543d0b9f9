---------------------------- MODULE RateLimiter ----------------------------
(***************************************************************************)
(* The in-memory fixed-window rate limiter of the API process.  The        *)
(* middleware is synchronous: one step per request, which either passes it *)
(* on or answers 429.                                                      *)
(*                                                                         *)
(* A counter is not followed beyond the first rejected request of its      *)
(* window, as the code only compares it with the limit.  passes and        *)
(* retryAt are history: what the limiter has granted and promised.         *)
(***************************************************************************)
EXTENDS Clock, Sequences, FiniteSets

CONSTANTS
  Clients,      \* client addresses (req.ip)
  Window,       \* RATE_LIMIT_WINDOW_MS, in ticks
  MaxRequests,  \* RATE_LIMIT_MAX
  PruneAbove    \* number of buckets above which expired ones are pruned

ASSUME LimiterAssumption ==
  Window \in Nat \ {0} /\ MaxRequests \in Nat \ {0} /\ PruneAbove \in Nat

VARIABLES
  buckets,      \* per known client: requests counted and end of its window
  passes,       \* per client: when its requests were passed on
  retryAt       \* per client: when its last 429 told it to come back, or 0

limiterVars == <<buckets, passes, retryAt>>

Bucket == [count : 0..MaxRequests + 1, resetAt : Nat]

LimiterTypeOK ==
  /\ \E known \in SUBSET Clients : buckets \in [known -> Bucket]
  /\ passes \in [Clients -> Seq(Times)]
  /\ retryAt \in [Clients -> Nat]

LimiterInit ==
  /\ buckets = [c \in {} |-> [count |-> 0, resetAt |-> 0]]
  /\ passes = [c \in Clients |-> <<>>]
  /\ retryAt = [c \in Clients |-> 0]

-----------------------------------------------------------------------------

Known == DOMAIN buckets

\* c's bucket, a new one when it has none or its window is over.
Current(c) == IF c \in Known /\ now < buckets[c].resetAt
                THEN buckets[c]
                ELSE [count |-> 0, resetAt |-> now + Window]

OverLimit(c) == Current(c).count >= MaxRequests

Counted(c) == [Current(c) EXCEPT !.count = IF OverLimit(c) THEN MaxRequests + 1 ELSE @ + 1]

WithBucket(c, b) == [d \in Known \cup {c} |-> IF d = c THEN b ELSE buckets[d]]

\* Broken variant: every bucket goes, not only the expired ones.
PruneAll(bs) == [c \in {} |-> [count |-> 0, resetAt |-> 0]]

Prune(bs) ==
  IF Cardinality(DOMAIN bs) > PruneAbove
    THEN [c \in {d \in DOMAIN bs : now < bs[d].resetAt} |-> bs[c]]
    ELSE bs

Pass(c) ==
  /\ ~OverLimit(c)
  /\ buckets' = Prune(WithBucket(c, Counted(c)))
  /\ passes' = [passes EXCEPT ![c] = Append(@, now)]
  /\ retryAt' = [retryAt EXCEPT ![c] = 0]

\* Broken variant: the wait is rounded down.
RetryAfterFloor(resetAt) == (resetAt - now) \div Second

\* Retry-After, in whole seconds.
RetryAfter(resetAt) == (resetAt - now + Second - 1) \div Second

Reject(c) ==
  /\ OverLimit(c)
  /\ buckets' = WithBucket(c, Counted(c))
  /\ retryAt' = [retryAt EXCEPT ![c] = now + Second * RetryAfter(Current(c).resetAt)]
  /\ UNCHANGED passes

-----------------------------------------------------------------------------
(* Properties.                                                             *)

(* A client is granted at most two windows' worth of requests in any span  *)
(* of a window's length, the worst a fixed window allows, although windows *)
(* start with a client's first request and buckets are pruned and made     *)
(* again.                                                                  *)
BurstBound ==
  \A c \in Clients :
    \A i \in 1..Len(passes[c]) : i + 2 * MaxRequests <= Len(passes[c]) =>
      passes[c][i + 2 * MaxRequests] > passes[c][i] + Window
=============================================================================
