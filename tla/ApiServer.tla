----------------------------- MODULE ApiServer -----------------------------
(***************************************************************************)
(* The API process under load: HttpServer's chain of rate limiter, request *)
(* timeout and handler, for POST /api/entries, with admission control in   *)
(* front of the queue.                                                     *)
(*                                                                         *)
(* The handler is EntryService.create, one step per await.  A handler may  *)
(* hang at any of them; the timeout then answers for it, and the handler,  *)
(* when it goes on, finds its response sent.  A client that retries sends  *)
(* the same entry number, as two clients may.                              *)
(*                                                                         *)
(* An entry is followed through the queue only as far as admission control *)
(* and the sweeper see it: stored without a job (fresh, or deferred by     *)
(* admission control), with a pending job, with a claimed one.             *)
(***************************************************************************)
EXTENDS RateLimiter, AdmissionControl

CONSTANTS
  Numbers,      \* values of entryNo
  NoNumber,
  MaxArrivals   \* bound: requests that reach the server

ASSUME ApiAssumption ==
  /\ IsFiniteSet(Numbers) /\ NoNumber \notin Numbers /\ MaxArrivals \in Nat
  /\ Depths = 0..Cardinality(Numbers)

VARIABLES
  handler,      \* per request: the handler's next step and its entry number
  response,     \* per request: "open" until it is answered
  entry,        \* per entry number: what became of it
  arrivals

serverVars == <<handler, response, entry, arrivals>>
apiVars == <<now, limiterVars, admissionVars, serverVars>>

Free == [pc |-> "free", number |-> NoNumber]

ApiTypeOK ==
  /\ now \in Times /\ LimiterTypeOK /\ AdmissionTypeOK
  /\ handler \in [Callers -> [pc : {"free", "create", "canAdmit", "enqueue", "answer"},
                              number : Numbers \cup {NoNumber}]]
  /\ response \in [Callers -> {"none", "open", "timedOut"}]
  /\ entry \in [Numbers -> {"absent", "fresh", "deferred", "pending", "claimed"}]
  /\ arrivals \in 0..MaxArrivals

ApiInit ==
  /\ now = 0 /\ LimiterInit /\ AdmissionInit
  /\ handler = [r \in Callers |-> Free]
  /\ response = [r \in Callers |-> "none"]
  /\ entry = [n \in Numbers |-> "absent"]
  /\ arrivals = 0

PendingDepth == Cardinality({n \in Numbers : entry[n] = "pending"})

GoTo(r, pc) == handler' = [handler EXCEPT ![r].pc = pc]

-----------------------------------------------------------------------------
(* The middleware chain.                                                   *)

Arrive == arrivals < MaxArrivals /\ arrivals' = arrivals + 1

\* Passed on by the limiter: the timer is set and the handler starts.  Nothing
\* keeps clients from posting one number at once, or again after a 503.
Accept(r, c, n) ==
  /\ handler[r].pc = "free"
  /\ Arrive /\ Pass(c)
  /\ handler' = [handler EXCEPT ![r] = [pc |-> "create", number |-> n]]
  /\ response' = [response EXCEPT ![r] = "open"]
  /\ UNCHANGED <<now, admissionVars, entry>>

TooMany(c) ==
  /\ Arrive /\ Reject(c)
  /\ UNCHANGED <<now, admissionVars, handler, response, entry>>

\* RequestTimeout: 503, unless the headers are sent; the handler is not stopped.
TimerFires(r) ==
  /\ response[r] = "open"
  /\ response' = [response EXCEPT ![r] = "timedOut"]
  /\ UNCHANGED <<now, limiterVars, admissionVars, handler, entry, arrivals>>

\* The handler is done: 201, or an error; after a 503 nobody hears it.
Answer(r) ==
  /\ handler[r].pc = "answer"
  /\ handler' = [handler EXCEPT ![r] = Free]
  /\ response' = [response EXCEPT ![r] = "none"]
  /\ UNCHANGED <<now, limiterVars, admissionVars, entry, arrivals>>

-----------------------------------------------------------------------------
(* EntryService.create.                                                    *)

ServerIdle == UNCHANGED <<now, limiterVars, response, arrivals>>

\* Broken variant: the index on entryNo is not unique.
PersistAgain(r) ==
  /\ handler[r].pc = "create"
  /\ entry' = [entry EXCEPT ![handler[r].number] = "fresh"]
  /\ GoTo(r, "canAdmit")
  /\ UNCHANGED admissionVars /\ ServerIdle

\* The unique index on entryNo rejects a number that is taken: 500.
Persist(r) ==
  /\ handler[r].pc = "create"
  /\ IF entry[handler[r].number] = "absent"
       THEN entry' = [entry EXCEPT ![handler[r].number] = "fresh"] /\ GoTo(r, "canAdmit")
       ELSE GoTo(r, "answer") /\ UNCHANGED entry
  /\ UNCHANGED admissionVars /\ ServerIdle

Consult(r) ==
  /\ handler[r].pc = "canAdmit"
  /\ AskHit(r) \/ AskMiss(r) \/ CountPending(r, PendingDepth) \/ Resume(r)
  /\ UNCHANGED <<handler, entry>> /\ ServerIdle

\* Over the ceiling the entry is left to the sweeper.
Decide(r) ==
  /\ handler[r].pc = "canAdmit"
  /\ Decided(r)
  /\ \/ CanAdmit(r) /\ GoTo(r, "enqueue") /\ UNCHANGED entry
     \/ /\ ~CanAdmit(r) /\ GoTo(r, "answer")
        /\ entry' = [entry EXCEPT ![handler[r].number] = IF @ = "fresh" THEN "deferred" ELSE @]
  /\ ServerIdle

NoJob(n) == entry[n] \in {"fresh", "deferred"}

\* enqueue() of a created job; with an active one it does nothing.
EnqueueJob(n) == entry' = [entry EXCEPT ![n] = IF NoJob(n) THEN "pending" ELSE @]

Enqueue(r) ==
  /\ handler[r].pc = "enqueue"
  /\ EnqueueJob(handler[r].number)
  /\ GoTo(r, "answer")
  /\ UNCHANGED admissionVars /\ ServerIdle

\* The steps of a handler that has created its entry.
AfterPersist == {"canAdmit", "enqueue"}

HandlerStep(r) == Persist(r) \/ Consult(r) \/ Decide(r) \/ Enqueue(r) \/ Answer(r)

-----------------------------------------------------------------------------
(* The other processes.                                                    *)

OthersMove == UNCHANGED <<now, limiterVars, admissionVars, handler, response, arrivals>>

\* One entry of a sweeper's tick.
SweepOne == \E n \in Numbers : NoJob(n) /\ EnqueueJob(n) /\ OthersMove

\* A worker claims a job.
Claim == \E n \in Numbers : /\ entry[n] = "pending"
                            /\ entry' = [entry EXCEPT ![n] = "claimed"]
                            /\ OthersMove

PassTime == Tick /\ UNCHANGED <<limiterVars, admissionVars, serverVars>>

ApiNext ==
  \/ \E r \in Callers :
       \/ \E c \in Clients, n \in Numbers : Accept(r, c, n)
       \/ TimerFires(r) \/ HandlerStep(r)
  \/ \E c \in Clients : TooMany(c)
  \/ SweepOne \/ Claim \/ PassTime

ApiSpec == ApiInit /\ [][ApiNext]_apiVars

-----------------------------------------------------------------------------
(* Properties.                                                             *)

(* A client that waits for as long as its last 429 said (Retry-After) is   *)
(* not rejected when it comes back.                                        *)
RetryAfterHonest ==
  [][\A c \in Clients : retryAt[c] # 0 /\ now >= retryAt[c] => ~TooMany(c)]_apiVars

(* Of all the requests for one entry number, only one creates the entry    *)
(* and enqueues its job, although the client retries while the handler of  *)
(* a request that was answered 503 is still running.                       *)
OneCreator ==
  \A r, s \in Callers : handler[r].number = handler[s].number /\ r # s =>
    ~(handler[r].pc \in AfterPersist /\ handler[s].pc \in AfterPersist)

(* A deferred entry is enqueued only when the backlog is below the ceiling *)
(* (AdmissionControl: "left pending for the sweeper to drain when capacity *)
(* frees").                                                                *)
DeferredUntilCapacity ==
  [][\A n \in Numbers : entry[n] = "deferred" /\ entry'[n] = "pending" =>
       PendingDepth < MaxDepth]_apiVars
=============================================================================
