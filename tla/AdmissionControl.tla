-------------------------- MODULE AdmissionControl --------------------------
(***************************************************************************)
(* AdmissionControl.canAdmit: the pending depth of the queue, cached for   *)
(* Ttl.  A call that misses the cache awaits a count, so the decision is   *)
(* the steps Ask (hit or miss), Count (the database counts) and Resume,    *)
(* and other calls run in between: several may miss together, and their    *)
(* answers may arrive in either order.                                     *)
(*                                                                         *)
(* Date.now() is far from 0 when the process starts, so that cachedAt = 0  *)
(* is long ago: LongAgo.  countedAt is history: when the cached depth was  *)
(* counted.                                                                *)
(***************************************************************************)
EXTENDS Clock

CONSTANTS
  Callers,      \* concurrent calls
  Ttl,          \* QUEUE_DEPTH_TTL_MS, in ticks
  MaxDepth,     \* MAX_QUEUE_DEPTH
  Depths        \* values pendingDepth may take

ASSUME AdmissionAssumption == Ttl \in Nat /\ MaxDepth \in Nat /\ Depths \subseteq Nat /\ 0 \in Depths

VARIABLES
  cachedDepth, cachedAt,
  countedAt,
  call          \* per call: its step, when it asked, what was counted and when

admissionVars == <<cachedDepth, cachedAt, countedAt, call>>

LongAgo == -Ttl

NoCall == [pc |-> "none", asked |-> LongAgo, depth |-> 0, counted |-> LongAgo]

AdmissionTypeOK ==
  /\ cachedDepth \in Depths
  /\ cachedAt \in Times \cup {LongAgo} /\ countedAt \in Times \cup {LongAgo}
  /\ call \in [Callers -> [pc      : {"none", "miss", "counted", "decided"},
                           asked   : Times \cup {LongAgo},
                           depth   : Depths,
                           counted : Times \cup {LongAgo}]]

AdmissionInit ==
  /\ cachedDepth = 0 /\ cachedAt = LongAgo /\ countedAt = LongAgo
  /\ call = [r \in Callers |-> NoCall]

-----------------------------------------------------------------------------

\* Within the TTL: the cached depth decides.
AskHit(r) ==
  /\ call[r].pc = "none"
  /\ now - cachedAt < Ttl
  /\ call' = [call EXCEPT ![r] = [pc |-> "decided", asked |-> now,
                                  depth |-> cachedDepth, counted |-> countedAt]]
  /\ UNCHANGED <<cachedDepth, cachedAt, countedAt>>

AskMiss(r) ==
  /\ call[r].pc = "none"
  /\ now - cachedAt >= Ttl
  /\ call' = [call EXCEPT ![r] = [NoCall EXCEPT !.pc = "miss", !.asked = now]]
  /\ UNCHANGED <<cachedDepth, cachedAt, countedAt>>

\* The database executes countDocuments.
CountPending(r, depth) ==
  /\ call[r].pc = "miss"
  /\ call' = [call EXCEPT ![r].pc = "counted", ![r].depth = depth, ![r].counted = now]
  /\ UNCHANGED <<cachedDepth, cachedAt, countedAt>>

\* Broken variant: the cache is dated when the answer arrives.
ResumeDatedNow(r) ==
  /\ call[r].pc = "counted"
  /\ cachedDepth' = call[r].depth /\ cachedAt' = now
  /\ countedAt' = call[r].counted
  /\ call' = [call EXCEPT ![r].pc = "decided"]

\* Broken variant: depth and time are taken for each other.
ResumeSwapped(r) ==
  /\ call[r].pc = "counted"
  /\ cachedDepth' = call[r].asked /\ cachedAt' = call[r].depth
  /\ countedAt' = call[r].counted
  /\ call' = [call EXCEPT ![r].pc = "decided"]

\* The cache is dated when the caller asked.
Resume(r) ==
  /\ call[r].pc = "counted"
  /\ cachedDepth' = call[r].depth /\ cachedAt' = call[r].asked
  /\ countedAt' = call[r].counted
  /\ call' = [call EXCEPT ![r].pc = "decided"]

CanAdmit(r) == call[r].depth < MaxDepth

\* The caller takes its answer.
Decided(r) ==
  /\ call[r].pc = "decided"
  /\ call' = [call EXCEPT ![r] = NoCall]
  /\ UNCHANGED <<cachedDepth, cachedAt, countedAt>>

-----------------------------------------------------------------------------
(* Properties.                                                             *)

(* No decision rests on a depth that was counted Ttl or longer before the  *)
(* caller asked, however long the count took to answer and in whatever     *)
(* order concurrent counts came back ("TTL-cached").                       *)
FreshDepth ==
  \A r \in Callers : call[r].pc = "decided" =>
    call[r].counted >= call[r].asked \/ call[r].asked - call[r].counted < Ttl
=============================================================================
