---------------------------- MODULE TaskBackend ----------------------------
(***************************************************************************)
(* The in-process task backend (src/src/backend/task_backend.py) and what  *)
(* the local runtime stores of it in task_runs                             *)
(* (src/src/local_runtime.py, save_task of src/storage/sql_backend.py).    *)
(* A step is what happens between taking the backend's lock and releasing  *)
(* it, or one statement outside it.  Clients submit tasks and run pending  *)
(* ones; in threaded mode every task also has a thread of its own, named   *)
(* by the task.                                                            *)
(***************************************************************************)
EXTENDS Naturals, FiniteSets

CONSTANTS
  Task,      \* task ids (uuid4)
  Client,    \* threads that call the backend
  Threaded,  \* execution_mode = "threaded" or auto_start
  Limits     \* what a caller of run_pending may give as limit

ASSUME ActorsAssumption == Task \cap Client = {} /\ IsFiniteSet(Task)
ASSUME ModeAssumption   == Threaded \in BOOLEAN
ASSUME LimitsAssumption == Limits \subseteq Nat

Final  == {"SUCCEEDED", "FAILED"}
Status == {"NONE", "PENDING", "RUNNING"} \cup Final

VARIABLES
  status,   \* _tasks: the status of each record ("NONE": no record)
  attempts, \* attempts of each record
  rank,     \* place of each record in _order, from 1
  table,    \* task_runs: the status last stored
  pc,       \* what a client or a task's thread is doing
  cur,      \* the task it is working on (itself, if it has none yet)
  ids,      \* the tasks a run_pending has still to go through
  results   \* the snapshots it returns and stores ("NONE": none)

memory == <<status, attempts, rank>>
vars   == <<memory, table, pc, cur, ids, results>>

Runner == Client \cup Task
Labels == {"idle", "start", "snap", "keep", "claim", "handle", "finish", "result",
           "store", "done"}

TypeOK ==
  /\ status \in [Task -> Status]
  /\ attempts \in [Task -> Nat]
  /\ rank \in [Task -> Nat]
  /\ table \in [Task -> Status]
  /\ pc \in [Runner -> Labels]
  /\ cur \in [Runner -> Runner]
  /\ ids \in [Client -> SUBSET Task]
  /\ results \in [Client -> [Task -> Status]]
  /\ \A c \in Client : pc[c] = "claim" => ids[c] # {}

NoResults == [t \in Task |-> "NONE"]

Init ==
  /\ status = [t \in Task |-> "NONE"]
  /\ attempts = [t \in Task |-> 0]
  /\ rank = [t \in Task |-> 0]
  /\ table = [t \in Task |-> "NONE"]
  /\ pc = [r \in Runner |-> "idle"]
  /\ cur = [r \in Runner |-> r]
  /\ ids = [c \in Client |-> {}]
  /\ results = [c \in Client |-> NoResults]

Goto(r, label) == pc' = [pc EXCEPT ![r] = label]

\* The first tasks of a set in submit order.
First(S)  == {t \in S : \A u \in S : rank[t] <= rank[u]}
UpTo(S, n) == {t \in S : Cardinality({u \in S : rank[u] < rank[t]}) < n}

-----------------------------------------------------------------------------
(* submit, called by the local runtime *)

Submit(c, t) ==
  /\ pc[c] = "idle"
  /\ status[t] = "NONE"
  /\ status' = [status EXCEPT ![t] = "PENDING"]
  /\ rank' = [rank EXCEPT ![t] = Cardinality({u \in Task : status[u] # "NONE"}) + 1]
  /\ cur' = [cur EXCEPT ![c] = t]
  /\ Goto(c, IF Threaded THEN "start" ELSE "snap")
  /\ UNCHANGED <<attempts, table, ids, results>>

StartThread(c) ==
  /\ pc[c] = "start"
  /\ pc' = [pc EXCEPT ![c] = "snap", ![cur[c]] = "claim"]
  /\ UNCHANGED <<memory, table, cur, ids, results>>

\* The record is copied when submit returns, not when it was made.
SubmitSnapshot(c) ==
  /\ pc[c] = "snap"
  /\ results' = [results EXCEPT ![c][cur[c]] = status[cur[c]]]
  /\ Goto(c, "keep")
  /\ UNCHANGED <<memory, table, cur, ids>>

-----------------------------------------------------------------------------
(* run_pending, and _run_one for a client or a thread *)

RunPending(c) ==
  /\ pc[c] = "idle"
  /\ LET pending == {t \in Task : status[t] = "PENDING"}
     IN  \E chosen \in {pending} \cup {UpTo(pending, n) : n \in Limits} :
           /\ ids' = [ids EXCEPT ![c] = chosen]
           /\ Goto(c, IF chosen = {} THEN "store" ELSE "claim")
  /\ UNCHANGED <<memory, table, cur, results>>

\* The task a runner is about to claim: a thread's own, or a client's next.
Turn(r) == IF r \in Task THEN {r} ELSE First(ids[r])

\* A client is through with a task: run_pending keeps the snapshot and goes on.
\* (KeepLast is a mutation: the loop goes on after the last task.)
KeepLast(c, t) ==
  /\ results' = [results EXCEPT ![c][t] = status[t]]
  /\ ids' = [ids EXCEPT ![c] = @ \ {t}]
  /\ Goto(c, IF ids[c] = {} THEN "store" ELSE "claim")
  /\ UNCHANGED <<memory, table, cur>>

Keep(c, t) ==
  /\ results' = [results EXCEPT ![c][t] = status[t]]
  /\ ids' = [ids EXCEPT ![c] = @ \ {t}]
  /\ Goto(c, IF ids[c] = {t} THEN "store" ELSE "claim")
  /\ UNCHANGED <<memory, table, cur>>

\* The check and the claim are under one lock, long after the list was made.
\* (ClaimUnchecked is a mutation: it trusts the list.)
ClaimUnchecked(r) ==
  /\ pc[r] = "claim"
  /\ \E t \in Turn(r) :
       /\ status' = [status EXCEPT ![t] = "RUNNING"]
       /\ attempts' = [attempts EXCEPT ![t] = @ + 1]
       /\ cur' = [cur EXCEPT ![r] = t]
  /\ Goto(r, "handle")
  /\ UNCHANGED <<rank, table, ids, results>>

Claim(r) ==
  /\ pc[r] = "claim"
  /\ \E t \in Turn(r) :
       /\ status[t] = "PENDING"
       /\ status' = [status EXCEPT ![t] = "RUNNING"]
       /\ attempts' = [attempts EXCEPT ![t] = @ + 1]
       /\ cur' = [cur EXCEPT ![r] = t]
  /\ Goto(r, "handle")
  /\ UNCHANGED <<rank, table, ids, results>>

\* Somebody else has it, or had it: the snapshot is taken under the same lock.
Taken(c) ==
  /\ pc[c] = "claim"
  /\ \E t \in First(ids[c]) : status[t] # "PENDING" /\ Keep(c, t)

\* The handler runs outside the lock.
Handle(r) ==
  /\ pc[r] = "handle"
  /\ Goto(r, "finish")
  /\ UNCHANGED <<memory, table, cur, ids, results>>

\* It returned, or it raised or none was registered.  (FinishOk is a mutation: an
\* error escapes _run_one instead of being recorded.)
FinishOk(r) ==
  /\ pc[r] = "finish"
  /\ \/ status' = [status EXCEPT ![cur[r]] = "SUCCEEDED"]
     \/ UNCHANGED status
  /\ Goto(r, "result")
  /\ UNCHANGED <<attempts, rank, table, cur, ids, results>>

Finish(r) ==
  /\ pc[r] = "finish"
  /\ \E outcome \in Final : status' = [status EXCEPT ![cur[r]] = outcome]
  /\ Goto(r, "result")
  /\ UNCHANGED <<attempts, rank, table, cur, ids, results>>

\* The record is copied after the lock was released.
Result(c) == pc[c] = "result" /\ Keep(c, cur[c])

\* Nobody reads what _run_one returns to a thread.
ThreadEnds(t) ==
  /\ \/ pc[t] = "claim" /\ status[t] # "PENDING"
     \/ pc[t] = "result"
  /\ Goto(t, "done")
  /\ UNCHANGED <<memory, table, cur, ids, results>>

-----------------------------------------------------------------------------
(* The local runtime stores the snapshots it was given *)

Given(c) == {t \in Task : results[c][t] # "NONE"}

Store(c) ==
  /\ pc[c] \in {"keep", "store"}
  /\ \E t \in First(Given(c)) :
       /\ table' = [table EXCEPT ![t] = results[c][t]]
       /\ results' = [results EXCEPT ![c][t] = "NONE"]
  /\ UNCHANGED <<memory, pc, cur, ids>>

\* A save raises, before its row was written or after. The call ends with it, and
\* the snapshots it had still to store are lost.
StoreRaises(c) ==
  /\ pc[c] \in {"keep", "store"}
  /\ \E t \in First(Given(c)) : table' \in {table, [table EXCEPT ![t] = results[c][t]]}
  /\ results' = [results EXCEPT ![c] = NoResults]
  /\ Goto(c, "idle")
  /\ UNCHANGED <<memory, cur, ids>>

Return(c) ==
  /\ pc[c] \in {"keep", "store"}
  /\ Given(c) = {}
  /\ Goto(c, "idle")
  /\ UNCHANGED <<memory, table, cur, ids, results>>

RunOne(r) == Claim(r) \/ Handle(r) \/ Finish(r)

\* What a client does once it is in a call, and a thread once it is started.
ClientStep(c) == \/ StartThread(c) \/ SubmitSnapshot(c)
                 \/ RunOne(c) \/ Taken(c) \/ Result(c)
                 \/ Store(c) \/ StoreRaises(c) \/ Return(c)
ThreadStep(t) == RunOne(t) \/ ThreadEnds(t)

Next ==
  \/ \E c \in Client :
       \/ \E t \in Task : Submit(c, t)
       \/ RunPending(c)
       \/ ClientStep(c)
  \/ \E t \in Task : ThreadStep(t)

Spec == Init /\ [][Next]_vars

\* Threads run and handlers return; nobody has to call run_pending.
Fairness == /\ \A c \in Client : WF_vars(ClientStep(c))
            /\ \A t \in Task : WF_vars(ThreadStep(t))

FairSpec == Spec /\ Fairness

-----------------------------------------------------------------------------
(* Properties *)

Running(r) == pc[r] \in {"handle", "finish"}

\* A task is handled once, by one runner, however many run_pending calls listed
\* it and whether or not its own thread runs too.
HandledOnce ==
  /\ \A t \in Task : attempts[t] <= 1
  /\ \A r, s \in Runner : Running(r) /\ Running(s) /\ cur[r] = cur[s] => r = s

Promise == INSTANCE OneShotTask WITH task <- status, shown <- table

\* Whichever thread or run_pending takes a task, it is submitted, started and
\* ended once each and keeps its outcome, and task_runs, written from snapshots
\* of any age in any order, some never as a save raised, shows no state the task
\* has not been in.
ImplementsOneShotTask == Promise!Spec

\* In threaded mode every submitted task ends, also when a run_pending takes it
\* from its thread.
TasksEnd == \A t \in Task : status[t] = "PENDING" ~> status[t] \in Final
=============================================================================
