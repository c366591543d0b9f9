-------------------------- MODULE ApiServerProofs --------------------------
(***************************************************************************)
(* Proofs about ApiServer, for any number of clients, requests and entry   *)
(* numbers, any window, limit and TTL, and any load.                       *)
(***************************************************************************)
EXTENDS ApiServer, FiniteSetTheorems, TLAPS

-----------------------------------------------------------------------------
(* Types.                                                                  *)

(* There are at most as many pending jobs as numbers.                      *)
LEMMA PendingDepthType == PendingDepth \in Depths
<1> DEFINE pending == {n \in Numbers : entry[n] = "pending"}
<1>1. Cardinality(pending) \in Nat /\ Cardinality(pending) <= Cardinality(Numbers)
  BY ApiAssumption, FS_Subset, FS_CardinalityType
<1>2. Cardinality(Numbers) \in Nat
  BY ApiAssumption, FS_CardinalityType
<1> QED
  BY <1>1, <1>2, ApiAssumption DEF PendingDepth

(* A client's current bucket is a bucket whose window is still open and    *)
(* has begun.                                                              *)
LEMMA CurrentType ==
  ASSUME ApiTypeOK, NEW c \in Clients
  PROVE  /\ Current(c) \in Bucket
         /\ now < Current(c).resetAt
<1>1. now \in Nat /\ Window \in Nat \ {0} /\ MaxRequests \in Nat \ {0}
  BY ClockAssumption, LimiterAssumption DEF ApiTypeOK, Times
<1>2. PICK known \in SUBSET Clients : buckets \in [known -> Bucket]
  BY DEF ApiTypeOK, LimiterTypeOK
<1>3. CASE c \in Known /\ now < buckets[c].resetAt
  BY <1>2, <1>3 DEF Current, Known
<1>4. CASE ~(c \in Known /\ now < buckets[c].resetAt)
  <2>1. Current(c) = [count |-> 0, resetAt |-> now + Window]
    BY <1>4 DEF Current
  <2> QED
    BY <1>1, <2>1 DEF Bucket
<1> QED
  BY <1>3, <1>4

(* Counting a request keeps the bucket's window.                           *)
LEMMA CountedType ==
  ASSUME ApiTypeOK, NEW c \in Clients
  PROVE  /\ Counted(c) \in Bucket
         /\ Counted(c).resetAt = Current(c).resetAt
         /\ ~OverLimit(c) => Counted(c).count = Current(c).count + 1
         /\ OverLimit(c) => Counted(c).count = MaxRequests + 1
<1>1. Current(c) \in Bucket /\ MaxRequests \in Nat
  BY CurrentType, LimiterAssumption
<1>2. CASE OverLimit(c)
  BY <1>1, <1>2 DEF Counted, Bucket
<1>3. CASE ~OverLimit(c)
  BY <1>1, <1>3 DEF Counted, OverLimit, Bucket
<1> QED
  BY <1>2, <1>3

(* The table of buckets stays one.                                         *)
LEMMA TableType ==
  ASSUME ApiTypeOK, NEW c \in Clients
  PROVE  /\ \E known \in SUBSET Clients : WithBucket(c, Counted(c)) \in [known -> Bucket]
         /\ \E known \in SUBSET Clients : Prune(WithBucket(c, Counted(c))) \in [known -> Bucket]
<1>1. PICK known \in SUBSET Clients : buckets \in [known -> Bucket]
  BY DEF ApiTypeOK, LimiterTypeOK
<1>2. WithBucket(c, Counted(c)) \in [known \cup {c} -> Bucket]
  BY <1>1, CountedType DEF WithBucket, Known
<1> DEFINE bs == WithBucket(c, Counted(c))
<1>3. \A S \in SUBSET (known \cup {c}) : [d \in S |-> bs[d]] \in [S -> Bucket]
  BY <1>2
<1> HIDE DEF bs
<1>4. Prune(bs) = bs \/ \E S \in SUBSET (known \cup {c}) : Prune(bs) = [d \in S |-> bs[d]]
  <2>1. DOMAIN bs = known \cup {c}
    BY <1>2 DEF bs
  <2>2. {d \in DOMAIN bs : now < bs[d].resetAt} \in SUBSET (known \cup {c})
    BY <2>1
  <2> QED
    BY <2>2 DEF Prune
<1>5. known \cup {c} \in SUBSET Clients
  OBVIOUS
<1>6. Prune(bs) \in [known \cup {c} -> Bucket]
      \/ \E S \in SUBSET (known \cup {c}) : Prune(bs) \in [S -> Bucket]
  BY <1>2, <1>3, <1>4 DEF bs
<1> QED
  BY <1>2, <1>5, <1>6 DEF bs

(* A client is never told to come back before the epoch.                   *)
LEMMA RetryAfterType ==
  ASSUME ApiTypeOK, NEW c \in Clients
  PROVE  now + Second * RetryAfter(Current(c).resetAt) \in Nat
<1> DEFINE wait == Current(c).resetAt - now + Second - 1
<1>1. now \in Nat /\ Second \in Nat \ {0} /\ wait \in Nat
  BY CurrentType, ClockAssumption DEF ApiTypeOK, Times, Bucket
<1> HIDE DEF wait
<1>2. wait \div Second \in Nat
  BY <1>1
<1>3. \A q \in Nat : now + Second * q \in Nat
  BY <1>1
<1> QED
  BY <1>2, <1>3 DEF RetryAfter, wait

(* The limiter's variables keep their types.                               *)
LEMMA LimiterStepType ==
  ASSUME ApiTypeOK, NEW c \in Clients, Pass(c) \/ Reject(c)
  PROVE  LimiterTypeOK'
<1>1. now \in Times /\ passes \in [Clients -> Seq(Times)] /\ retryAt \in [Clients -> Nat]
  BY DEF ApiTypeOK, LimiterTypeOK
<1>2. CASE Pass(c)
  <2>1. \E known \in SUBSET Clients : buckets' \in [known -> Bucket]
    BY <1>2, TableType DEF Pass
  <2>2. Append(passes[c], now) \in Seq(Times)
    BY <1>1
  <2>3. passes' \in [Clients -> Seq(Times)] /\ retryAt' \in [Clients -> Nat]
    BY <1>1, <1>2, <2>2 DEF Pass
  <2> QED
    BY <2>1, <2>3 DEF LimiterTypeOK
<1>3. CASE Reject(c)
  <2>1. \E known \in SUBSET Clients : buckets' \in [known -> Bucket]
    BY <1>3, TableType DEF Reject
  <2>2. passes' \in [Clients -> Seq(Times)] /\ retryAt' \in [Clients -> Nat]
    BY <1>1, <1>3, RetryAfterType DEF Reject
  <2> QED
    BY <2>1, <2>2 DEF LimiterTypeOK
<1> QED
  BY <1>2, <1>3

(* So do those of admission control.                                       *)
LEMMA AdmissionStepType ==
  ASSUME ApiTypeOK, NEW r \in Callers,
         AskHit(r) \/ AskMiss(r) \/ CountPending(r, PendingDepth) \/ Resume(r) \/ Decided(r)
  PROVE  AdmissionTypeOK'
<1>1. AdmissionTypeOK /\ now \in Times /\ 0 \in Depths /\ PendingDepth \in Depths
  BY AdmissionAssumption, PendingDepthType DEF ApiTypeOK
<1>2. CASE AskHit(r)  BY <1>1, <1>2 DEF AskHit, AdmissionTypeOK
<1>3. CASE AskMiss(r)  BY <1>1, <1>3 DEF AskMiss, AdmissionTypeOK, NoCall
<1>4. CASE CountPending(r, PendingDepth)  BY <1>1, <1>4 DEF CountPending, AdmissionTypeOK
<1>5. CASE Resume(r)  BY <1>1, <1>5 DEF Resume, AdmissionTypeOK
<1>6. CASE Decided(r)  BY <1>1, <1>6 DEF Decided, AdmissionTypeOK, NoCall
<1> QED
  BY <1>2, <1>3, <1>4, <1>5, <1>6

\* The types of what the server itself keeps.
ServerTypeOK ==
  /\ handler \in [Callers -> [pc : {"free", "create", "canAdmit", "enqueue", "answer"},
                              number : Numbers \cup {NoNumber}]]
  /\ response \in [Callers -> {"none", "open", "timedOut"}]
  /\ entry \in [Numbers -> {"absent", "fresh", "deferred", "pending", "claimed"}]
  /\ arrivals \in 0..MaxArrivals

(* A handler that is at work has a number.                                 *)
HasNumber == \A r \in Callers : handler[r].pc # "free" => handler[r].number \in Numbers

(* The server's own variables keep their types, and its handlers their     *)
(* numbers.                                                                *)
LEMMA ServerStepType ==
  ASSUME ServerTypeOK, HasNumber, [ApiNext]_apiVars
  PROVE  (ServerTypeOK /\ HasNumber)'
<1> USE ApiAssumption DEF ServerTypeOK, HasNumber
<1>1. ASSUME NEW r \in Callers, NEW c \in Clients, NEW n \in Numbers, Accept(r, c, n)
      PROVE  (ServerTypeOK /\ HasNumber)'
  <2>1. arrivals' \in 0..MaxArrivals
    BY <1>1 DEF Accept, Arrive
  <2>2. /\ handler' = [handler EXCEPT ![r] = [pc |-> "create", number |-> n]]
        /\ response' = [response EXCEPT ![r] = "open"] /\ entry' = entry
    BY <1>1 DEF Accept
  <2> QED
    BY <2>1, <2>2
<1>2. ASSUME NEW c \in Clients, TooMany(c) PROVE (ServerTypeOK /\ HasNumber)'
  <2>1. arrivals' \in 0..MaxArrivals
    BY <1>2 DEF TooMany, Arrive
  <2>2. UNCHANGED <<handler, response, entry>>
    BY <1>2 DEF TooMany
  <2> QED
    BY <2>1, <2>2
<1>3. ASSUME NEW r \in Callers, TimerFires(r) \/ Answer(r) PROVE (ServerTypeOK /\ HasNumber)'
  BY <1>3 DEF TimerFires, Answer, Free
<1>4. ASSUME NEW r \in Callers, Persist(r) PROVE (ServerTypeOK /\ HasNumber)'
  BY <1>4 DEF Persist, GoTo, ServerIdle
<1>5. ASSUME NEW r \in Callers, Consult(r) PROVE (ServerTypeOK /\ HasNumber)'
  BY <1>5 DEF Consult, ServerIdle
<1>6. ASSUME NEW r \in Callers, Decide(r) PROVE (ServerTypeOK /\ HasNumber)'
  <2>1. GoTo(r, "enqueue") \/ GoTo(r, "answer")
    BY <1>6 DEF Decide
  <2>2. handler' \in [Callers -> [pc : {"free", "create", "canAdmit", "enqueue", "answer"},
                                  number : Numbers \cup {NoNumber}]] /\ HasNumber'
    BY <1>6, <2>1 DEF Decide, GoTo
  <2>3. entry' \in [Numbers -> {"absent", "fresh", "deferred", "pending", "claimed"}]
    BY <1>6 DEF Decide
  <2>4. response' = response /\ arrivals' = arrivals
    BY <1>6 DEF Decide, ServerIdle
  <2> QED
    BY <2>2, <2>3, <2>4
<1>7. ASSUME NEW r \in Callers, Enqueue(r) PROVE (ServerTypeOK /\ HasNumber)'
  BY <1>7 DEF Enqueue, EnqueueJob, GoTo, ServerIdle
<1>8. CASE SweepOne \/ Claim
  BY <1>8 DEF SweepOne, Claim, EnqueueJob, OthersMove
<1>9. CASE PassTime \/ UNCHANGED apiVars
  BY <1>9 DEF PassTime, serverVars, apiVars
<1> QED
  BY <1>1, <1>2, <1>3, <1>4, <1>5, <1>6, <1>7, <1>8, <1>9, Zenon DEF ApiNext, HandlerStep

(* Every step preserves the types.                                         *)
LEMMA ApiNextType == ApiTypeOK /\ HasNumber /\ [ApiNext]_apiVars => (ApiTypeOK /\ HasNumber)'
<1> SUFFICES ASSUME ApiTypeOK, HasNumber, [ApiNext]_apiVars PROVE (ApiTypeOK /\ HasNumber)'
  OBVIOUS
<1>1. (ServerTypeOK /\ HasNumber)'
  BY ServerStepType DEF ApiTypeOK, ServerTypeOK
<1>2. LimiterTypeOK'
  <2>1. LimiterTypeOK
    BY DEF ApiTypeOK
  <2>2. CASE UNCHANGED limiterVars
    BY <2>1, <2>2 DEF LimiterTypeOK, limiterVars
  <2>3. CASE \E c \in Clients : Pass(c) \/ Reject(c)
    BY <2>3, LimiterStepType
  <2> QED
    BY <2>2, <2>3, Zenon DEF ApiNext, HandlerStep, Accept, TooMany, TimerFires, Persist, Consult,
       Decide, Enqueue, Answer, ServerIdle, SweepOne, Claim, OthersMove, PassTime, apiVars
<1>3. AdmissionTypeOK'
  <2>1. AdmissionTypeOK
    BY DEF ApiTypeOK
  <2>2. CASE UNCHANGED admissionVars
    BY <2>1, <2>2 DEF AdmissionTypeOK, admissionVars
  <2>3. CASE \E r \in Callers :
               AskHit(r) \/ AskMiss(r) \/ CountPending(r, PendingDepth) \/ Resume(r) \/ Decided(r)
    BY <2>3, AdmissionStepType
  <2> QED
    BY <2>2, <2>3, Zenon DEF ApiNext, HandlerStep, Accept, TooMany, TimerFires, Persist, Consult,
       Decide, Enqueue, Answer, ServerIdle, SweepOne, Claim, OthersMove, PassTime, apiVars
<1>4. now' \in Times
  <2>1. now \in Times /\ MaxTime \in Nat
    BY ClockAssumption DEF ApiTypeOK
  <2>2. now' = now \/ Tick
    BY Zenon DEF ApiNext, HandlerStep, Accept, TooMany, TimerFires, Persist, Consult,
       Decide, Enqueue, Answer, ServerIdle, SweepOne, Claim, OthersMove, PassTime, apiVars
  <2> QED
    BY <2>1, <2>2 DEF Tick, Times
<1> QED
  BY <1>1, <1>2, <1>3, <1>4 DEF ApiTypeOK, ServerTypeOK

(* Initially every variable has its type.                                  *)
LEMMA ApiInitType == ApiInit => ApiTypeOK /\ HasNumber
<1> SUFFICES ASSUME ApiInit PROVE ApiTypeOK /\ HasNumber
  OBVIOUS
<1>1. LimiterTypeOK
  <2>1. buckets \in [{} -> Bucket]
    BY DEF ApiInit, LimiterInit
  <2>2. passes \in [Clients -> Seq(Times)] /\ retryAt \in [Clients -> Nat]
    BY DEF ApiInit, LimiterInit
  <2> QED
    BY <2>1, <2>2 DEF LimiterTypeOK
<1>2. AdmissionTypeOK
  BY AdmissionAssumption DEF ApiInit, AdmissionInit, AdmissionTypeOK, NoCall
<1>3. ServerTypeOK /\ HasNumber
  BY ApiAssumption DEF ApiInit, Free, ServerTypeOK, HasNumber
<1> QED
  BY <1>1, <1>2, <1>3, ClockAssumption DEF ApiInit, ApiTypeOK, ServerTypeOK, Times

(* Type correctness.                                                       *)
THEOREM ApiTypeCorrect == ApiSpec => []ApiTypeOK
BY ApiInitType, ApiNextType, PTL DEF ApiSpec

-----------------------------------------------------------------------------
(* The age of the depth.                                                   *)

(* The cache is never dated after its count, and no count precedes the     *)
(* question it answers.                                                    *)
DatedByAsker ==
  /\ cachedAt <= countedAt
  /\ \A r \in Callers :
       /\ call[r].asked <= now
       /\ call[r].pc = "counted" => call[r].asked <= call[r].counted

(* Every step of a call keeps the cache dated by its asker and the depth   *)
(* decided on fresh.                                                       *)
LEMMA FreshStep ==
  ASSUME ApiTypeOK, DatedByAsker, FreshDepth, now' = now, NEW r \in Callers,
         AskHit(r) \/ AskMiss(r) \/ CountPending(r, PendingDepth) \/ Resume(r) \/ Decided(r)
  PROVE  (DatedByAsker /\ FreshDepth)'
<1>1. /\ now \in Nat /\ Ttl \in Nat /\ cachedAt \in Int /\ countedAt \in Int
      /\ call \in [Callers -> [pc : {"none", "miss", "counted", "decided"}, asked : Int,
                               depth : Depths, counted : Int]]
  BY AdmissionAssumption, ClockAssumption DEF ApiTypeOK, AdmissionTypeOK, Times, LongAgo
<1> USE DEF DatedByAsker, FreshDepth
<1>2. CASE AskHit(r)  BY <1>1, <1>2 DEF AskHit
<1>3. CASE AskMiss(r)  BY <1>1, <1>3 DEF AskMiss, NoCall
<1>4. CASE CountPending(r, PendingDepth)
  <2> DEFINE depth == PendingDepth
  <2>1. /\ call[r].pc = "miss" /\ UNCHANGED <<cachedDepth, cachedAt, countedAt>>
        /\ call' = [call EXCEPT ![r].pc = "counted", ![r].depth = depth, ![r].counted = now]
    BY <1>4, Zenon DEF CountPending
  <2> HIDE DEF depth
  <2> QED
    BY <1>1, <2>1
<1>5. CASE Resume(r)  BY <1>1, <1>5 DEF Resume
<1>6. CASE Decided(r)  BY <1>1, <1>6 DEF Decided, NoCall, LongAgo
<1> QED
  BY <1>2, <1>3, <1>4, <1>5, <1>6

(* No decision rests on a depth that was counted the TTL or longer before  *)
(* the question, whatever the order in which concurrent counts return.     *)
THEOREM FreshDepthCorrect == ApiSpec => []FreshDepth
<1>1. ApiInit => DatedByAsker /\ FreshDepth
  BY AdmissionAssumption DEF ApiInit, AdmissionInit, NoCall, LongAgo, DatedByAsker, FreshDepth
<1>2. ApiTypeOK /\ DatedByAsker /\ FreshDepth /\ [ApiNext]_apiVars => (DatedByAsker /\ FreshDepth)'
  <2> SUFFICES ASSUME ApiTypeOK, DatedByAsker, FreshDepth, [ApiNext]_apiVars
               PROVE  (DatedByAsker /\ FreshDepth)'
    OBVIOUS
  <2>1. CASE UNCHANGED <<now, admissionVars>>
    BY <2>1 DEF admissionVars, DatedByAsker, FreshDepth
  <2>2. CASE now' = now + 1 /\ UNCHANGED admissionVars
    <3>1. now \in Nat /\ \A r \in Callers : call[r].asked \in Int
      BY AdmissionAssumption, ClockAssumption DEF ApiTypeOK, AdmissionTypeOK, Times, LongAgo
    <3> QED
      BY <2>2, <3>1 DEF admissionVars, DatedByAsker, FreshDepth
  <2>3. CASE now' = now /\ \E r \in Callers :
               AskHit(r) \/ AskMiss(r) \/ CountPending(r, PendingDepth) \/ Resume(r) \/ Decided(r)
    BY <2>3, FreshStep
  <2> QED
    BY <2>1, <2>2, <2>3, Zenon DEF ApiNext, HandlerStep, Accept, TooMany, TimerFires, Persist,
       Consult, Decide, Enqueue, Answer, ServerIdle, SweepOne, Claim, OthersMove, PassTime, Tick, apiVars
<1> QED
  BY <1>1, <1>2, ApiInitType, ApiNextType, PTL DEF ApiSpec

-----------------------------------------------------------------------------
(* One creator.                                                            *)

(* A number that a handler has stored an entry for is taken.               *)
CreatorsTookTheirNumber ==
  \A r \in Callers : handler[r].pc \in AfterPersist => entry[handler[r].number] # "absent"

(* However often a client retries, one request creates the entry.          *)
THEOREM OneCreatorCorrect == ApiSpec => []OneCreator
<1> DEFINE Inv == CreatorsTookTheirNumber /\ OneCreator
<1>1. ApiInit => Inv
  BY DEF ApiInit, Free, AfterPersist, CreatorsTookTheirNumber, OneCreator
<1>2. ServerTypeOK /\ HasNumber /\ Inv /\ [ApiNext]_apiVars => Inv'
  <2> SUFFICES ASSUME ServerTypeOK, HasNumber, Inv, [ApiNext]_apiVars PROVE Inv'
    OBVIOUS
  <2>t. /\ handler \in [Callers -> [pc : {"free", "create", "canAdmit", "enqueue", "answer"},
                                    number : Numbers \cup {NoNumber}]]
        /\ entry \in [Numbers -> {"absent", "fresh", "deferred", "pending", "claimed"}]
        /\ \A r \in Callers : handler[r].pc # "free" => handler[r].number \in Numbers
    BY DEF ServerTypeOK, HasNumber
  <2>1. ASSUME handler' = handler, \A n \in Numbers : entry[n] # "absent" => entry'[n] # "absent"
        PROVE  Inv'
    BY <2>t, <2>1 DEF AfterPersist, CreatorsTookTheirNumber, OneCreator
  <2>2. ASSUME NEW r \in Callers, NEW new,
               handler' = [handler EXCEPT ![r] = new],
               new.pc \in AfterPersist =>
                 handler[r].pc \in AfterPersist /\ new.number = handler[r].number,
               \A n \in Numbers : entry[n] # "absent" => entry'[n] # "absent"
        PROVE  Inv'
    BY <2>t, <2>2 DEF AfterPersist, CreatorsTookTheirNumber, OneCreator
  <2>3. ASSUME NEW r \in Callers, NEW c \in Clients, NEW n \in Numbers, Accept(r, c, n) PROVE Inv'
    <3>1. entry' = entry /\ handler' = [handler EXCEPT ![r] = [pc |-> "create", number |-> n]]
      BY <2>3 DEF Accept
    <3> HIDE DEF Inv
    <3> QED
      BY <2>2, <3>1 DEF AfterPersist
  <2>4. ASSUME NEW r \in Callers, Answer(r) PROVE Inv'
    BY <2>2, <2>4 DEF Answer, Free, AfterPersist
  <2>5. ASSUME NEW r \in Callers, Persist(r) PROVE Inv'
    <3>1. CASE entry[handler[r].number] = "absent"
      BY <2>5, <2>t, <3>1 DEF Persist, GoTo, AfterPersist, CreatorsTookTheirNumber, OneCreator
    <3>2. CASE entry[handler[r].number] # "absent"
      BY <2>5, <2>t, <3>2 DEF Persist, GoTo, AfterPersist, CreatorsTookTheirNumber, OneCreator
    <3> QED
      BY <3>1, <3>2
  <2>6. ASSUME NEW r \in Callers, Decide(r) PROVE Inv'
    <3>1. handler[r].pc = "canAdmit" /\ (GoTo(r, "enqueue") \/ GoTo(r, "answer"))
      BY <2>6 DEF Decide
    <3>2. \A n \in Numbers : entry[n] # "absent" => entry'[n] # "absent"
      BY <2>6, <2>t DEF Decide
    <3> QED
      BY <2>t, <3>1, <3>2 DEF GoTo, AfterPersist, CreatorsTookTheirNumber, OneCreator
  <2>7. ASSUME NEW r \in Callers, Enqueue(r) PROVE Inv'
    <3>1. handler[r].pc = "enqueue" /\ GoTo(r, "answer")
      BY <2>7 DEF Enqueue
    <3>2. \A n \in Numbers : entry[n] # "absent" => entry'[n] # "absent"
      BY <2>7, <2>t DEF Enqueue, EnqueueJob
    <3> QED
      BY <2>t, <3>1, <3>2 DEF GoTo, AfterPersist, CreatorsTookTheirNumber, OneCreator
  <2>8. CASE SweepOne \/ Claim
    BY <2>1, <2>8, <2>t DEF SweepOne, Claim, EnqueueJob, OthersMove
  <2>9. CASE UNCHANGED <<handler, entry>>
    BY <2>1, <2>9
  <2> HIDE DEF Inv
  <2> QED
    BY <2>3, <2>4, <2>5, <2>6, <2>7, <2>8, <2>9, Zenon DEF ApiNext, HandlerStep, TooMany, TimerFires,
       Consult, PassTime, serverVars, apiVars
<1>3. ApiTypeOK => ServerTypeOK
  BY DEF ApiTypeOK, ServerTypeOK
<1>4. Inv => OneCreator
  OBVIOUS
<1> HIDE DEF Inv
<1> QED
  BY <1>1, <1>2, <1>3, <1>4, ApiInitType, ApiNextType, PTL DEF ApiSpec

-----------------------------------------------------------------------------
(* The limiter's promise.                                                  *)

\* Requests granted in c's current window, and when that window began.  A client
\* whose window is over is about to begin one.
Granted(c) == IF OverLimit(c) THEN MaxRequests ELSE Current(c).count
Began(c)   == Current(c).resetAt - Window

(* Reading grants backwards: first the k of the window that began at s,    *)
(* then at most a window's worth that lie before it, and the rest lie a    *)
(* whole window before it.                                                 *)
Ordered(p, k, s, t) ==
  /\ s <= t
  /\ \A i \in 1..Len(p) :
       /\ p[i] <= t /\ p[i] < s + Window
       /\ i <= Len(p) - k => p[i] < s
       /\ i <= Len(p) - k - MaxRequests => p[i] + Window < s
       /\ i + 2 * MaxRequests <= Len(p) => p[i + 2 * MaxRequests] > p[i] + Window

(* Time passes within the window.                                          *)
LEMMA OrderedTick ==
  ASSUME NEW p \in Seq(Nat), NEW k \in Nat, NEW s \in Int, NEW t \in Nat, Ordered(p, k, s, t)
  PROVE  Ordered(p, k, s, t + 1)
<1>1. \A i \in 1..Len(p) : p[i] \in Nat
  OBVIOUS
<1> QED
  BY <1>1 DEF Ordered

(* A new window begins when the last one is over, or was about to begin.   *)
LEMMA OrderedNewWindow ==
  ASSUME NEW p \in Seq(Nat), NEW k \in 0..MaxRequests, NEW s \in Int, NEW t \in Nat,
         Ordered(p, k, s, t), s + Window <= t + 1 \/ (s = t /\ k = 0)
  PROVE  Ordered(p, 0, t + 1, t + 1)
<1>1. \A i \in 1..Len(p) : p[i] \in Nat
  OBVIOUS
<1>2. Window \in Nat /\ MaxRequests \in Nat /\ Len(p) \in Nat /\ k <= MaxRequests
  BY LimiterAssumption
<1>3. ASSUME NEW i \in 1..Len(p)
      PROVE  /\ p[i] <= t + 1 /\ p[i] < t + 1 + Window /\ p[i] < t + 1
             /\ i <= Len(p) - 0 - MaxRequests => p[i] + Window < t + 1
  <2>1. /\ p[i] \in Nat /\ p[i] <= t
        /\ i <= Len(p) - k => p[i] < s
        /\ i <= Len(p) - k - MaxRequests => p[i] + Window < s
    BY <1>1 DEF Ordered
  <2>2. CASE s + Window <= t + 1
    BY <1>2, <2>1, <2>2
  <2>3. CASE s = t /\ k = 0
    BY <1>2, <2>1, <2>3
  <2> QED
    BY <2>2, <2>3
<1> QED
  BY <1>2, <1>3 DEF Ordered

(* One more request of the current window is granted.                      *)
LEMMA OrderedAppend ==
  ASSUME NEW p \in Seq(Nat), NEW k \in Nat, k < MaxRequests, NEW s \in Int, NEW t \in Nat,
         t < s + Window, Ordered(p, k, s, t)
  PROVE  Ordered(Append(p, t), k + 1, s, t)
<1> DEFINE L == Len(p)
<1>0. Append(p, t) \in Seq(Nat)
  OBVIOUS
<1>1. PICK q \in Seq(Nat) : q = Append(p, t)
  BY <1>0, Zenon
<1>2. /\ L \in Nat /\ Len(q) = L + 1 /\ q[L + 1] = t
      /\ \A i \in 1..L : q[i] = p[i] /\ p[i] \in Nat
  BY <1>1
<1>3. Window \in Nat \ {0} /\ MaxRequests \in Nat \ {0}
  BY LimiterAssumption
<1>4. s <= t /\ \A i \in 1..L :
        /\ p[i] <= t /\ p[i] < s + Window
        /\ i <= L - k => p[i] < s
        /\ i <= L - k - MaxRequests => p[i] + Window < s
        /\ i + 2 * MaxRequests <= L => p[i + 2 * MaxRequests] > p[i] + Window
  BY DEF Ordered
<1> HIDE DEF L
<1>5. ASSUME NEW i \in 1..Len(q)
      PROVE  /\ q[i] <= t /\ q[i] < s + Window
             /\ i <= Len(q) - (k + 1) => q[i] < s
             /\ i <= Len(q) - (k + 1) - MaxRequests => q[i] + Window < s
             /\ i + 2 * MaxRequests <= Len(q) => q[i + 2 * MaxRequests] > q[i] + Window
  <2>1. CASE i = L + 1
    BY <1>2, <1>3, <2>1
  <2>2. CASE i \in 1..L
    <3>1. q[i] = p[i] /\ p[i] \in Nat
      BY <1>2, <2>2
    <3>2. CASE i + 2 * MaxRequests <= L
      <4>1. i + 2 * MaxRequests \in 1..L
        BY <1>2, <1>3, <2>2, <3>2
      <4>2. q[i + 2 * MaxRequests] = p[i + 2 * MaxRequests]
        BY <1>2, <4>1
      <4> QED
        BY <1>2, <1>3, <1>4, <2>2, <3>1, <3>2, <4>2
    <3>3. CASE i + 2 * MaxRequests = L + 1
      <4>1. i <= L - k - MaxRequests
        BY <1>2, <1>3, <2>2, <3>3
      <4>2. p[i] + Window < s /\ p[i] < s
        BY <1>3, <1>4, <2>2, <3>1, <4>1
      <4>3. q[i + 2 * MaxRequests] = t
        BY <1>2, <3>3
      <4> QED
        BY <1>2, <1>3, <1>4, <2>2, <3>1, <3>3, <4>2, <4>3
    <3>4. CASE i + 2 * MaxRequests > L + 1
      BY <1>2, <1>3, <1>4, <2>2, <3>1, <3>4
    <3> QED
      BY <1>2, <1>3, <2>2, <3>2, <3>3, <3>4
  <2> QED
    BY <1>2, <2>1, <2>2
<1>6. Ordered(q, k + 1, s, t)
  BY <1>4, <1>5 DEF Ordered
<1> QED
  BY <1>1, <1>6

\* What holds of each client.
GrantsOrdered(c) == Ordered(passes[c], Granted(c), Began(c), now)

(* What the step lemmas need of the types.                                 *)
LEMMA LimiterNumbers ==
  ASSUME ApiTypeOK, NEW c \in Clients
  PROVE  /\ now \in Nat /\ Window \in Nat \ {0} /\ MaxRequests \in Nat \ {0}
         /\ Current(c).count \in Nat /\ Current(c).resetAt \in Nat
         /\ passes[c] \in Seq(Nat) /\ Began(c) \in Int
         /\ Granted(c) \in 0..MaxRequests
<1>1. now \in Nat /\ Window \in Nat \ {0} /\ MaxRequests \in Nat \ {0} /\ MaxTime \in Nat
  BY ClockAssumption, LimiterAssumption DEF ApiTypeOK, Times
<1>2. Current(c) \in Bucket
  BY CurrentType
<1>3. passes[c] \in Seq(Nat)
  BY <1>1 DEF ApiTypeOK, LimiterTypeOK, Times
<1>4. Current(c).count \in Nat /\ Current(c).resetAt \in Nat
  BY <1>1, <1>2 DEF Bucket
<1> QED
  BY <1>1, <1>3, <1>4 DEF Granted, OverLimit, Began

(* A step that leaves a client's current bucket and grants alone.          *)
LEMMA SameGrants ==
  ASSUME NEW c \in Clients, GrantsOrdered(c),
         now' = now, Current(c)' = Current(c), passes'[c] = passes[c]
  PROVE  GrantsOrdered(c)'
BY DEF GrantsOrdered, Began, Granted, OverLimit

(* Pruning and writing the bucket of another client do not show.           *)
LEMMA OtherBucket ==
  ASSUME ApiTypeOK, NEW c \in Clients, NEW d \in Clients, d # c, now' = now,
         buckets' \in {WithBucket(c, Counted(c)), Prune(WithBucket(c, Counted(c)))}
  PROVE  Current(d)' = Current(d)
<1> DEFINE bs == WithBucket(c, Counted(c))
<1>1. (d \in DOMAIN bs <=> d \in Known) /\ (d \in Known => bs[d] = buckets[d])
  BY DEF WithBucket, Known
<1> HIDE DEF bs
<1>2. CASE buckets' = bs
  BY <1>1, <1>2 DEF Current, Known
<1>3. CASE buckets' = Prune(bs)
  <2>1. CASE buckets' = bs
    BY <1>2, <2>1
  <2>2. CASE buckets' = [e \in {x \in DOMAIN bs : now < bs[x].resetAt} |-> bs[e]]
    BY <1>1, <2>2 DEF Current, Known
  <2> QED
    BY <1>3, <2>1, <2>2 DEF Prune
<1> QED
  BY <1>2, <1>3 DEF bs

(* The bucket that was counted is the client's own afterwards.             *)
LEMMA OwnBucket ==
  ASSUME ApiTypeOK, NEW c \in Clients, now' = now,
         buckets' \in {WithBucket(c, Counted(c)), Prune(WithBucket(c, Counted(c)))}
  PROVE  Current(c)' = Counted(c)
<1> DEFINE bs == WithBucket(c, Counted(c))
<1>1. c \in DOMAIN bs /\ bs[c] = Counted(c) /\ now < Counted(c).resetAt
  BY CurrentType, CountedType DEF WithBucket
<1> HIDE DEF bs
<1>2. CASE buckets' = bs
  BY <1>1, <1>2 DEF Current, Known
<1>3. CASE buckets' = Prune(bs)
  <2>1. CASE buckets' = bs
    BY <1>2, <2>1
  <2>2. CASE buckets' = [e \in {x \in DOMAIN bs : now < bs[x].resetAt} |-> bs[e]]
    BY <1>1, <2>2 DEF Current, Known
  <2> QED
    BY <1>3, <2>1, <2>2 DEF Prune
<1> QED
  BY <1>2, <1>3 DEF bs

(* A granted request is one more of the current window.                    *)
LEMMA PassGrants ==
  ASSUME ApiTypeOK, NEW c \in Clients, GrantsOrdered(c), Pass(c), now' = now
  PROVE  GrantsOrdered(c)'
<1>1. /\ now \in Nat /\ MaxRequests \in Nat \ {0} /\ Window \in Nat \ {0}
      /\ Current(c).count \in Nat /\ Current(c).resetAt \in Nat
      /\ passes[c] \in Seq(Nat) /\ Began(c) \in Int
  BY LimiterNumbers
<1>2. now < Began(c) + Window
  BY <1>1, CurrentType DEF Began
<1>3. ~OverLimit(c) /\ passes'[c] = Append(passes[c], now)
  BY DEF Pass, ApiTypeOK, LimiterTypeOK
<1>4. Current(c)' = Counted(c)
  BY OwnBucket DEF Pass
<1>5. Current(c)'.resetAt = Current(c).resetAt /\ Current(c)'.count = Current(c).count + 1
  BY <1>3, <1>4, CountedType
<1>6. Granted(c) \in Nat /\ Granted(c) < MaxRequests
  BY <1>1, <1>3 DEF OverLimit, Granted
<1>7. Granted(c)' = Granted(c) + 1 /\ Began(c)' = Began(c)
  BY <1>1, <1>3, <1>5 DEF Granted, OverLimit, Began
<1>8. Ordered(Append(passes[c], now), Granted(c) + 1, Began(c), now)
  BY <1>1, <1>2, <1>6, OrderedAppend DEF GrantsOrdered
<1> QED
  BY <1>3, <1>7, <1>8 DEF GrantsOrdered

(* A rejected one leaves the current window full.                          *)
LEMMA RejectGrants ==
  ASSUME ApiTypeOK, NEW c \in Clients, GrantsOrdered(c), Reject(c), now' = now
  PROVE  GrantsOrdered(c)'
<1>1. OverLimit(c) /\ passes' = passes /\ MaxRequests \in Nat
  BY LimiterNumbers DEF Reject
<1>2. Current(c)' = Counted(c)
  BY OwnBucket DEF Reject
<1>3. Current(c)'.resetAt = Current(c).resetAt /\ Current(c)'.count = MaxRequests + 1
  BY <1>1, <1>2, CountedType
<1>4. Granted(c)' = Granted(c) /\ Began(c)' = Began(c)
  BY <1>1, <1>3 DEF Granted, Began, OverLimit
<1> QED
  BY <1>1, <1>4 DEF GrantsOrdered

(* When time passes a window may end; the next then begins now.            *)
LEMMA TickGrants ==
  ASSUME ApiTypeOK, NEW c \in Clients, GrantsOrdered(c), now' = now + 1,
         UNCHANGED <<buckets, passes>>
  PROVE  GrantsOrdered(c)'
<1>1. /\ now \in Nat /\ MaxRequests \in Nat \ {0} /\ Window \in Nat \ {0}
      /\ Current(c).resetAt \in Nat
      /\ passes[c] \in Seq(Nat) /\ Began(c) \in Int /\ Granted(c) \in 0..MaxRequests
  BY LimiterNumbers
<1>2. CASE Current(c)' = Current(c)
  <2>1. Granted(c)' = Granted(c) /\ Began(c)' = Began(c) /\ passes'[c] = passes[c]
    BY <1>2 DEF Granted, Began, OverLimit
  <2>2. Ordered(passes[c], Granted(c), Began(c), now + 1)
    BY <1>1, OrderedTick DEF GrantsOrdered
  <2> QED
    BY <2>1, <2>2 DEF GrantsOrdered
<1>3. CASE Current(c)' # Current(c)
  <2>1. Began(c) + Window <= now + 1 \/ (Began(c) = now /\ Granted(c) = 0)
    <3>1. CASE c \in Known /\ now < buckets[c].resetAt
      <4>1. Current(c) = buckets[c]
        BY <3>1 DEF Current
      <4>2. ~(now + 1 < buckets[c].resetAt)
        BY <1>3, <3>1, <4>1 DEF Current, Known
      <4> QED
        BY <1>1, <4>1, <4>2 DEF Began
    <3>2. CASE ~(c \in Known /\ now < buckets[c].resetAt)
      <4>1. Current(c) = [count |-> 0, resetAt |-> now + Window]
        BY <3>2 DEF Current
      <4> QED
        BY <1>1, <4>1 DEF Granted, Began, OverLimit
    <3> QED
      BY <3>1, <3>2
  <2>2. Current(c)' = [count |-> 0, resetAt |-> now + 1 + Window]
    <3>1. ~(c \in Known /\ now + 1 < buckets[c].resetAt)
      <4> SUFFICES ASSUME c \in Known, now + 1 < buckets[c].resetAt PROVE FALSE
        OBVIOUS
      <4>1. Current(c)' = buckets[c]
        BY DEF Current, Known
      <4>2. now < buckets[c].resetAt
        <5>1. buckets[c].resetAt \in Nat
          BY DEF ApiTypeOK, LimiterTypeOK, Bucket, Known
        <5> QED
          BY <1>1, <5>1
      <4> QED
        BY <1>3, <4>1, <4>2 DEF Current
    <3> QED
      BY <3>1 DEF Current, Known
  <2>3. Granted(c)' = 0 /\ Began(c)' = now + 1 /\ passes'[c] = passes[c]
    BY <1>1, <2>2 DEF Granted, Began, OverLimit
  <2>4. Ordered(passes[c], 0, now + 1, now + 1)
    BY <1>1, <2>1, OrderedNewWindow DEF GrantsOrdered
  <2> QED
    BY <2>3, <2>4 DEF GrantsOrdered
<1> QED
  BY <1>2, <1>3

(* A client is granted at most two windows' worth in any window's length,  *)
(* for any limit and window, and however buckets are pruned.               *)
THEOREM BurstBoundCorrect == ApiSpec => []BurstBound
<1> DEFINE Inv == \A c \in Clients : GrantsOrdered(c)
<1>1. ApiInit => Inv
  <2> SUFFICES ASSUME ApiInit, NEW c \in Clients PROVE GrantsOrdered(c)
    OBVIOUS
  <2>1. passes[c] = <<>> /\ now = 0 /\ Current(c) = [count |-> 0, resetAt |-> now + Window]
    BY DEF ApiInit, LimiterInit, Current, Known
  <2>2. Began(c) <= now
    BY <2>1, LimiterAssumption DEF Began
  <2> QED
    BY <2>1, <2>2 DEF GrantsOrdered, Ordered
<1>2. ApiTypeOK /\ Inv /\ [ApiNext]_apiVars => Inv'
  <2> SUFFICES ASSUME ApiTypeOK, Inv, [ApiNext]_apiVars, NEW d \in Clients PROVE GrantsOrdered(d)'
    OBVIOUS
  <2>t. GrantsOrdered(d)
    OBVIOUS
  <2>1. ASSUME NEW c \in Clients, Pass(c) \/ Reject(c), now' = now PROVE GrantsOrdered(d)'
    <3>1. CASE d = c
      BY <2>1, <2>t, <3>1, PassGrants, RejectGrants
    <3>2. CASE d # c
      <4>1. Current(d)' = Current(d)
        BY <2>1, <3>2, OtherBucket DEF Pass, Reject
      <4>2. passes'[d] = passes[d]
        BY <2>1, <3>2 DEF Pass, Reject, ApiTypeOK, LimiterTypeOK
      <4> QED
        BY <2>1, <2>t, <4>1, <4>2, SameGrants
    <3> QED
      BY <3>1, <3>2
  <2>2. CASE now' = now + 1 /\ UNCHANGED limiterVars
    BY <2>2, <2>t, TickGrants DEF limiterVars
  <2>3. CASE now' = now /\ UNCHANGED limiterVars
    <3>1. Current(d)' = Current(d) /\ passes'[d] = passes[d]
      BY <2>3 DEF limiterVars, Current, Known
    <3> QED
      BY <2>3, <2>t, <3>1, SameGrants
  <2> QED
    BY <2>1, <2>2, <2>3, Zenon DEF ApiNext, HandlerStep, Accept, TooMany, TimerFires, Persist, Consult,
       Decide, Enqueue, Answer, ServerIdle, SweepOne, Claim, OthersMove, PassTime, Tick, apiVars
<1>3. Inv => BurstBound
  BY DEF GrantsOrdered, Ordered, BurstBound
<1> HIDE DEF Inv
<1> QED
  BY <1>1, <1>2, <1>3, ApiInitType, ApiNextType, PTL DEF ApiSpec

-----------------------------------------------------------------------------
(* Retry-After.                                                            *)

(* Rounding up to whole seconds never undercuts the end of the window.     *)
LEMMA WaitLongEnough ==
  ASSUME NEW wait \in Nat, NEW second \in Nat \ {0}
  PROVE  second * ((wait + second - 1) \div second) >= wait
<1> DEFINE q == (wait + second - 1) \div second
<1>1. q \in Int /\ wait + second - 1 < second * (q + 1)
  OBVIOUS
<1>2. second * (q + 1) = second * q + second /\ second * q \in Int
  BY <1>1
<1> HIDE DEF q
<1>3. second * q >= wait
  BY <1>1, <1>2
<1> QED
  BY <1>3 DEF q

(* No client was told to come back before its window ends.                 *)
PromiseCovers(c) == retryAt[c] # 0 /\ c \in Known => retryAt[c] >= buckets[c].resetAt

(* A client that kept away as long as it was told finds its window over.   *)
LEMMA KeptPromise ==
  ASSUME ApiTypeOK, NEW c \in Clients, PromiseCovers(c), retryAt[c] # 0, now >= retryAt[c]
  PROVE  ~TooMany(c)
<1>1. now \in Nat /\ MaxRequests \in Nat \ {0} /\ retryAt[c] \in Nat
  BY LimiterNumbers DEF ApiTypeOK, LimiterTypeOK
<1>2. ~(c \in Known /\ now < buckets[c].resetAt)
  <2>1. c \in Known => buckets[c].resetAt \in Nat
    BY DEF ApiTypeOK, LimiterTypeOK, Bucket, Known
  <2> QED
    BY <1>1, <2>1 DEF PromiseCovers
<1>3. Current(c).count = 0
  BY <1>2 DEF Current
<1>4. ~OverLimit(c)
  BY <1>1, <1>3 DEF OverLimit
<1> QED
  BY <1>4 DEF TooMany, Reject

(* Every step of the limiter covers its promises.                          *)
LEMMA PromiseStep ==
  ASSUME ApiTypeOK, NEW c \in Clients, NEW d \in Clients, PromiseCovers(d),
         Pass(c) \/ Reject(c)
  PROVE  PromiseCovers(d)'
<1>1. retryAt \in [Clients -> Nat] /\ now \in Nat /\ Second \in Nat \ {0}
  BY LimiterNumbers, ClockAssumption DEF ApiTypeOK, LimiterTypeOK
<1>2. CASE d # c
  <2> DEFINE bs == WithBucket(c, Counted(c))
  <2>1. \A x \in DOMAIN bs : x # c => x \in Known /\ bs[x] = buckets[x]
    BY DEF WithBucket, Known
  <2>2. buckets' = bs \/ buckets' = Prune(bs)
    BY DEF Pass, Reject
  <2> HIDE DEF bs
  <2>3. d \in DOMAIN buckets' => d \in Known /\ buckets'[d] = buckets[d]
    <3>1. CASE buckets' = bs
      BY <1>2, <2>1, <3>1
    <3>2. CASE buckets' = [e \in {x \in DOMAIN bs : now < bs[x].resetAt} |-> bs[e]]
      BY <1>2, <2>1, <3>2
    <3> QED
      BY <2>2, <3>1, <3>2 DEF Prune
  <2>4. retryAt'[d] = retryAt[d]
    BY <1>1, <1>2 DEF Pass, Reject
  <2> QED
    BY <2>3, <2>4 DEF PromiseCovers, Known
<1>3. CASE d = c /\ Pass(c)
  BY <1>1, <1>3 DEF Pass, PromiseCovers
<1>4. CASE d = c /\ Reject(c)
  <2> DEFINE e == Current(c).resetAt
  <2>1. e \in Nat /\ now < e
    BY LimiterNumbers, CurrentType
  <2>2. buckets'[c].resetAt = e
    BY <1>4, CountedType DEF Reject, WithBucket
  <2>3. retryAt'[c] = now + Second * RetryAfter(e)
    BY <1>1, <1>4 DEF Reject
  <2> HIDE DEF e
  <2>4. Second * RetryAfter(e) >= e - now
    <3>1. e - now \in Nat
      BY <1>1, <2>1
    <3>2. Second * ((e - now + Second - 1) \div Second) >= e - now
      BY <1>1, <3>1, WaitLongEnough
    <3> QED
      BY <3>2 DEF RetryAfter
  <2>5. Second * RetryAfter(e) \in Int
    <3>1. RetryAfter(e) \in Int
      BY <1>1, <2>1 DEF RetryAfter
    <3> QED
      BY <1>1, <3>1
  <2>6. retryAt'[c] >= e
    BY <1>1, <2>1, <2>3, <2>4, <2>5
  <2> QED
    BY <1>4, <2>2, <2>6 DEF PromiseCovers
<1> QED
  BY <1>2, <1>3, <1>4

(* A client that waits as long as it was told is not rejected, whatever    *)
(* the length of the window and of a second.                               *)
THEOREM RetryAfterHonestCorrect == ApiSpec => RetryAfterHonest
<1> DEFINE Inv == \A c \in Clients : PromiseCovers(c)
<1>1. ApiInit => Inv
  BY DEF ApiInit, LimiterInit, PromiseCovers
<1>2. ApiTypeOK /\ Inv /\ [ApiNext]_apiVars => Inv'
  <2> SUFFICES ASSUME ApiTypeOK, Inv, [ApiNext]_apiVars, NEW d \in Clients PROVE PromiseCovers(d)'
    OBVIOUS
  <2>1. CASE UNCHANGED limiterVars
    BY <2>1 DEF limiterVars, PromiseCovers, Known
  <2>2. CASE \E c \in Clients : Pass(c) \/ Reject(c)
    BY <2>2, PromiseStep
  <2> QED
    BY <2>1, <2>2, Zenon DEF ApiNext, HandlerStep, Accept, TooMany, TimerFires, Persist, Consult,
       Decide, Enqueue, Answer, ServerIdle, SweepOne, Claim, OthersMove, PassTime, apiVars
<1>3. ApiTypeOK /\ Inv =>
        [\A c \in Clients : retryAt[c] # 0 /\ now >= retryAt[c] => ~TooMany(c)]_apiVars
  BY KeptPromise, Zenon
<1> HIDE DEF Inv
<1> QED
  BY <1>1, <1>2, <1>3, ApiInitType, ApiNextType, PTL DEF ApiSpec, RetryAfterHonest
=============================================================================
