--------------------------- MODULE TaskLifecycle ---------------------------
(***************************************************************************)
(* What the queue and its workers promise together, without locks, owners  *)
(* or database commands: a task is started by one runner at a time, only   *)
(* that runner finishes it or hands it back, a finished task stays         *)
(* finished, and a task is given up only after MaxStarts starts.           *)
(***************************************************************************)
EXTENDS Naturals

CONSTANTS
  Tasks,      \* task identifiers
  Runners,    \* whoever may run a task
  NoRunner,   \* runner of a task nobody runs
  MaxStarts   \* starts after which a task may be given up

VARIABLE task

Task(s, r, n) == [state |-> s, runner |-> r, starts |-> n]

TaskInit == task = [t \in Tasks |-> Task("absent", NoRunner, 0)]

Add(t) ==
  /\ task[t] = Task("absent", NoRunner, 0)
  /\ task' = [task EXCEPT ![t] = Task("waiting", NoRunner, 0)]

Start(r, t) ==
  /\ task[t].state = "waiting"
  /\ task' = [task EXCEPT ![t] = Task("running", r, @.starts + 1)]

\* The runner itself leaves t in state s.
Leave(r, t, s) ==
  /\ task[t].state = "running" /\ task[t].runner = r
  /\ task' = [task EXCEPT ![t] = Task(s, NoRunner, @.starts)]

Finish(r, t)   == Leave(r, t, "done")
HandBack(r, t) == task[t].starts < MaxStarts /\ Leave(r, t, "waiting")
GiveUp(r, t)   == task[t].starts >= MaxStarts /\ Leave(r, t, "dead")
Abandon(r, t)  == Leave(r, t, "orphaned")

\* Orphaned tasks are found and wait again.
Recover(S) ==
  /\ \A t \in S : task[t].state = "orphaned"
  /\ task' = [t \in Tasks |->
                IF t \in S THEN Task("waiting", NoRunner, task[t].starts) ELSE task[t]]

TaskNext ==
  \/ \E t \in Tasks : Add(t)
  \/ \E r \in Runners, t \in Tasks :
       Start(r, t) \/ Finish(r, t) \/ HandBack(r, t) \/ GiveUp(r, t) \/ Abandon(r, t)
  \/ \E S \in SUBSET Tasks : Recover(S)

TaskSpec == TaskInit /\ [][TaskNext]_task
=============================================================================
