-------------------------- MODULE TaskBackendProofs --------------------------
(***************************************************************************)
(* Theorems about TaskBackend, for any finite set of tasks, any number of  *)
(* clients, any limits, with and without threads.                          *)
(***************************************************************************)
EXTENDS TaskBackend, FiniteSetTheorems, TLAPS

\* Whoever handles a task has it, and the record says so.
Holding == \A r \in Runner : Running(r) => cur[r] \in Task /\ status[cur[r]] = "RUNNING"

\* A task nobody claimed was never attempted.
Unattempted == \A t \in Task : status[t] \in {"NONE", "PENDING"} => attempts[t] = 0

\* A client in the middle of a call works on a task, which its run_pending has
\* not got through yet; a thread works on its own.
OnTask == /\ \A c \in Client :
               /\ pc[c] \in {"start", "snap", "result"} => cur[c] \in Task
               /\ pc[c] \in {"handle", "finish", "result"} => ids[c] # {}
          /\ \A t \in Task : /\ cur[t] = t
                             /\ pc[t] \in {"idle", "claim", "handle", "finish", "result", "done"}

\* A snapshot shows a state the task has been in; an outcome in it is the task's.
Copied == \A c \in Client, t \in Task : results[c][t] \in {"NONE"} \cup Promise!Been(status[t])

Inv == TypeOK /\ HandledOnce /\ Holding /\ Unattempted /\ OnTask /\ Copied

Stays == \A t \in Task : status[t] \in Final => status'[t] = status[t]

LEMMA InvInit == Init => Inv
<1> SUFFICES ASSUME Init PROVE Inv
  OBVIOUS
<1>1. TypeOK
  BY DEF Init, TypeOK, NoResults, Runner, Labels, Status
<1>2. \A r \in Runner : pc[r] = "idle" /\ cur[r] = r
  BY DEF Init
<1>3. HandledOnce /\ Holding
  BY <1>2 DEF Init, HandledOnce, Holding, Running
<1>4. Unattempted /\ OnTask
  BY <1>2 DEF Init, Unattempted, OnTask, Runner
<1>5. Copied
  BY DEF Init, Copied, NoResults, Final, Promise!Been
<1> QED
  BY <1>1, <1>3, <1>4, <1>5 DEF Inv

\* A step that leaves the records alone and starts handling nothing.
LEMMA Quiet ==
  ASSUME Inv, UNCHANGED <<status, attempts>>,
         TypeOK', OnTask', Copied',
         \A r \in Runner : Running(r)' => Running(r) /\ cur'[r] = cur[r]
  PROVE  Inv' /\ Stays
<1>1. HandledOnce'
  BY DEF Inv, HandledOnce
<1>2. Holding'
  BY DEF Inv, Holding
<1>3. Unattempted'
  BY DEF Inv, Unattempted
<1> QED
  BY <1>1, <1>2, <1>3 DEF Inv, Stays

LEMMA InvStep ==
  ASSUME Inv, [Next]_vars
  PROVE  Inv' /\ Stays
<1> USE DEF Inv
<1>0. ASSUME UNCHANGED vars PROVE Inv' /\ Stays
  <2>1. TypeOK' /\ OnTask'
    BY <1>0 DEF vars, memory, TypeOK, OnTask
  <2>2. \A r \in Runner : Running(r)' => Running(r) /\ cur'[r] = cur[r]
    BY <1>0 DEF vars, Running
  <2>3. Copied'
    BY <1>0 DEF Copied, TypeOK, Final, memory, vars,
          Promise!Been, Promise!Outcome, Status
  <2> QED
    BY <2>3, <1>0, <2>1, <2>2, Quiet DEF vars, memory
<1>1. ASSUME NEW c \in Client, NEW t \in Task, Submit(c, t) PROVE Inv' /\ Stays
  <2>1. Cardinality({u \in Task : status[u] # "NONE"}) + 1 \in Nat
    BY ActorsAssumption, FS_Subset, FS_CardinalityType DEF ActorsAssumption
  <2> DEFINE place == Cardinality({u \in Task : status[u] # "NONE"}) + 1
  <2> HIDE DEF place
  <2>2. /\ pc[c] = "idle" /\ status[t] = "NONE"
        /\ status' = [status EXCEPT ![t] = "PENDING"]
        /\ rank' = [rank EXCEPT ![t] = place]
        /\ cur' = [cur EXCEPT ![c] = t]
        /\ \E l \in {"start", "snap"} : pc' = [pc EXCEPT ![c] = l]
        /\ UNCHANGED <<attempts, table, ids, results>>
    BY <1>1 DEF Submit, Goto, place
  <2>3. c \in Runner /\ t \in Runner /\ c \notin Task
    BY ActorsAssumption DEF Runner, ActorsAssumption
  <2>4. TypeOK'
    BY <2>1, <2>2, <2>3 DEF TypeOK, Status, Labels, place
  <2>5. \A r \in Runner : Running(r)' => Running(r) /\ cur'[r] = cur[r] /\ r # c
    BY <2>2, <2>3 DEF Running, TypeOK
  <2>6. HandledOnce'
    BY <2>2, <2>5 DEF HandledOnce
  <2>7. Holding'
    BY <2>2, <2>5 DEF Holding, TypeOK
  <2>8. Unattempted'
    BY <2>2 DEF Unattempted, TypeOK
  <2>9. OnTask'
    BY <2>2, <2>3 DEF OnTask, TypeOK, Runner
  <2>10. Stays
    BY <2>2 DEF Stays, TypeOK, Final
  <2>11. Copied'
    BY <2>1, <2>2, <2>3 DEF Copied, TypeOK, Final, memory, vars,
          Promise!Been, Promise!Outcome, Status
  <2> QED
    BY <2>11, <2>4, <2>6, <2>7, <2>8, <2>9, <2>10
<1>2. ASSUME NEW c \in Client, StartThread(c) PROVE Inv' /\ Stays
  <2>1. /\ cur[c] \in Task /\ c \in Runner /\ cur[c] \in Runner /\ c \notin Task
        /\ pc' = [pc EXCEPT ![c] = "snap", ![cur[c]] = "claim"]
        /\ UNCHANGED <<memory, table, cur, ids, results>>
    BY <1>2, ActorsAssumption DEF StartThread, OnTask, Runner, ActorsAssumption
  <2>2. TypeOK'
    <3>1. pc' \in [Runner -> Labels]
      BY <2>1 DEF TypeOK, Labels
    <3>2. \A d \in Client : pc'[d] = "claim" => pc[d] = "claim"
      BY <2>1, ActorsAssumption DEF TypeOK, Runner, ActorsAssumption
    <3> QED
      BY <2>1, <3>1, <3>2 DEF TypeOK, memory
  <2>3. OnTask'
    BY <2>1, ActorsAssumption DEF OnTask, TypeOK, Runner, ActorsAssumption
  <2>4. \A r \in Runner : Running(r)' => Running(r) /\ cur'[r] = cur[r]
    BY <2>1 DEF Running, TypeOK
  <2>5. Copied'
    BY <2>1 DEF Copied, TypeOK, Final, memory, vars,
          Promise!Been, Promise!Outcome, Status
  <2> QED
    BY <2>5, <2>1, <2>2, <2>3, <2>4, Quiet DEF memory
<1>3. ASSUME NEW c \in Client, SubmitSnapshot(c) PROVE Inv' /\ Stays
  <2>1. /\ cur[c] \in Task /\ c \in Runner /\ c \notin Task
        /\ results' = [results EXCEPT ![c][cur[c]] = status[cur[c]]]
        /\ pc' = [pc EXCEPT ![c] = "keep"]
        /\ UNCHANGED <<memory, table, cur, ids>>
    BY <1>3, ActorsAssumption DEF SubmitSnapshot, Goto, OnTask, Runner, ActorsAssumption
  <2>2. TypeOK'
    BY <2>1 DEF TypeOK, Labels, memory
  <2>3. OnTask'
    BY <2>1 DEF OnTask, TypeOK, Runner
  <2>4. \A r \in Runner : Running(r)' => Running(r) /\ cur'[r] = cur[r]
    BY <2>1 DEF Running, TypeOK
  <2>5. Copied'
    BY <2>1, <2>2, <2>3 DEF Copied, TypeOK, Final, memory, vars,
          Promise!Been, Promise!Outcome, Status
  <2> QED
    BY <2>5, <2>1, <2>2, <2>3, <2>4, Quiet DEF memory
<1>4. ASSUME NEW c \in Client, RunPending(c) PROVE Inv' /\ Stays
  <2>1. PICK chosen \in SUBSET Task :
          /\ ids' = [ids EXCEPT ![c] = chosen]
          /\ pc' = [pc EXCEPT ![c] = IF chosen = {} THEN "store" ELSE "claim"]
    BY <1>4 DEF RunPending, Goto, UpTo
  <2>2. /\ c \in Runner /\ c \notin Task
        /\ UNCHANGED <<memory, table, cur, results>>
    BY <1>4, ActorsAssumption DEF RunPending, Runner, ActorsAssumption
  <2>3. TypeOK'
    <3>1. ids' \in [Client -> SUBSET Task] /\ pc' \in [Runner -> Labels]
      BY <2>1, <2>2 DEF TypeOK, Labels
    <3>2. \A d \in Client : pc'[d] = "claim" => ids'[d] # {}
      BY <2>1, <2>2 DEF TypeOK, Runner
    <3> QED
      BY <2>2, <3>1, <3>2 DEF TypeOK, memory
  <2>4. OnTask'
    BY <2>1, <2>2 DEF OnTask, TypeOK, Runner
  <2>5. \A r \in Runner : Running(r)' => Running(r) /\ cur'[r] = cur[r]
    BY <2>1, <2>2 DEF Running, TypeOK
  <2>6. Copied'
    BY <2>1, <2>2, <2>3 DEF Copied, TypeOK, Final, memory, vars,
          Promise!Been, Promise!Outcome, Status
  <2> QED
    BY <2>6, <2>2, <2>3, <2>4, <2>5, Quiet DEF memory
<1>5. ASSUME NEW r \in Runner, Claim(r) PROVE Inv' /\ Stays
  <2>1. PICK t \in Turn(r) : /\ status[t] = "PENDING"
                             /\ status' = [status EXCEPT ![t] = "RUNNING"]
                             /\ attempts' = [attempts EXCEPT ![t] = @ + 1]
                             /\ cur' = [cur EXCEPT ![r] = t]
    BY <1>5 DEF Claim
  <2>2. /\ pc[r] = "claim" /\ pc' = [pc EXCEPT ![r] = "handle"]
        /\ UNCHANGED <<rank, table, ids, results>>
    BY <1>5 DEF Claim, Goto
  <2>3. t \in Task /\ (r \in Task => t = r) /\ t \in Runner
    BY DEF Turn, First, Runner, TypeOK
  <2>4. TypeOK'
    <3>1. status' \in [Task -> Status] /\ attempts' \in [Task -> Nat] /\ cur' \in [Runner -> Runner]
      BY <2>1, <2>3 DEF TypeOK, Status
    <3>2. pc' \in [Runner -> Labels] /\ \A d \in Client : pc'[d] = "claim" => ids'[d] # {}
      BY <2>2 DEF TypeOK, Labels, Runner
    <3> QED
      BY <2>2, <3>1, <3>2 DEF TypeOK
  <2>5. \A s \in Runner : Running(s)' => s = r \/ (Running(s) /\ cur'[s] = cur[s] /\ cur[s] # t)
    BY <2>1, <2>2, <2>3 DEF Running, TypeOK, Holding
  <2>6. cur'[r] = t
    BY <2>1 DEF TypeOK
  <2>7. HandledOnce'
    <3>1. \A u \in Task : attempts'[u] <= 1
      BY <2>1, <2>3 DEF HandledOnce, Unattempted, TypeOK
    <3> QED
      BY <3>1, <2>5, <2>6 DEF HandledOnce
  <2>8. Holding'
    BY <2>1, <2>3, <2>5, <2>6 DEF Holding, TypeOK
  <2>9. Unattempted'
    BY <2>1, <2>3 DEF Unattempted, TypeOK
  <2>10. OnTask'
    BY <2>1, <2>2, <2>3 DEF OnTask, TypeOK, Runner
  <2>11. Stays
    BY <2>1, <2>3 DEF Stays, TypeOK, Final
  <2>12. Copied'
    BY <2>1, <2>2, <2>3 DEF Copied, TypeOK, Final, memory, vars,
          Promise!Been, Promise!Outcome, Status
  <2> QED
    BY <2>12, <2>4, <2>7, <2>8, <2>9, <2>10, <2>11
<1>6. ASSUME NEW r \in Runner, Handle(r) PROVE Inv' /\ Stays
  <2>1. /\ pc[r] = "handle" /\ pc' = [pc EXCEPT ![r] = "finish"]
        /\ UNCHANGED <<memory, table, cur, ids, results>>
    BY <1>6 DEF Handle, Goto
  <2>2. TypeOK'
    BY <2>1 DEF TypeOK, Labels, memory, Runner
  <2>3. OnTask'
    BY <2>1 DEF OnTask, TypeOK, Runner
  <2>4. \A s \in Runner : Running(s)' => Running(s) /\ cur'[s] = cur[s]
    BY <2>1 DEF Running, TypeOK
  <2>5. Copied'
    BY <2>1 DEF Copied, TypeOK, Final, memory, vars,
          Promise!Been, Promise!Outcome, Status
  <2> QED
    BY <2>5, <2>1, <2>2, <2>3, <2>4, Quiet DEF memory
<1>7. ASSUME NEW r \in Runner, Finish(r) PROVE Inv' /\ Stays
  <2>1. PICK outcome \in Final : status' = [status EXCEPT ![cur[r]] = outcome]
    BY <1>7 DEF Finish
  <2>2. /\ pc[r] = "finish" /\ pc' = [pc EXCEPT ![r] = "result"]
        /\ UNCHANGED <<attempts, rank, table, cur, ids, results>>
    BY <1>7 DEF Finish, Goto
  <2>3. cur[r] \in Task /\ status[cur[r]] = "RUNNING"
    BY <2>2 DEF Holding, Running
  <2>4. TypeOK'
    BY <2>1, <2>2, <2>3 DEF TypeOK, Labels, Runner, Status
  <2>5. \A s \in Runner : Running(s)' => s # r /\ Running(s) /\ cur'[s] = cur[s] /\ cur[s] # cur[r]
    BY <2>2 DEF Running, TypeOK, HandledOnce
  <2>6. HandledOnce'
    BY <2>2, <2>5 DEF HandledOnce
  <2>7. Holding'
    BY <2>1, <2>2, <2>5 DEF Holding, TypeOK
  <2>8. Unattempted'
    BY <2>1, <2>2, <2>3 DEF Unattempted, TypeOK, Final
  <2>9. OnTask'
    BY <2>2, <2>3 DEF OnTask, TypeOK, Runner
  <2>10. Stays
    BY <2>1, <2>3 DEF Stays, TypeOK, Final
  <2>11. Copied'
    BY <2>1, <2>2, <2>3 DEF Copied, TypeOK, Final, memory, vars,
          Promise!Been, Promise!Outcome, Status
  <2> QED
    BY <2>11, <2>4, <2>6, <2>7, <2>8, <2>9, <2>10
<1>8. ASSUME NEW t \in Task, ThreadEnds(t) PROVE Inv' /\ Stays
  <2>1. /\ pc' = [pc EXCEPT ![t] = "done"] /\ t \in Runner
        /\ UNCHANGED <<memory, table, cur, ids, results>>
    BY <1>8 DEF ThreadEnds, Goto, Runner
  <2>2. TypeOK'
    BY <2>1 DEF TypeOK, Labels, memory, Runner
  <2>3. OnTask'
    BY <2>1 DEF OnTask, TypeOK, Runner
  <2>4. \A s \in Runner : Running(s)' => Running(s) /\ cur'[s] = cur[s]
    BY <2>1 DEF Running, TypeOK
  <2>5. Copied'
    BY <2>1 DEF Copied, TypeOK, Final, memory, vars,
          Promise!Been, Promise!Outcome, Status
  <2> QED
    BY <2>5, <2>1, <2>2, <2>3, <2>4, Quiet DEF memory
<1>9. ASSUME NEW c \in Client, Taken(c) \/ Result(c) PROVE Inv' /\ Stays
  <2>1. PICK t \in Task : Keep(c, t)
    BY <1>9 DEF Taken, Result, First, TypeOK, OnTask
  <2>2. ids[c] # {} /\ c \in Runner /\ c \notin Task
    BY <1>9, ActorsAssumption DEF Taken, Result, TypeOK, OnTask, Runner, ActorsAssumption
  <2>3. /\ results' = [results EXCEPT ![c][t] = status[t]]
        /\ ids' = [ids EXCEPT ![c] = @ \ {t}]
        /\ pc' = [pc EXCEPT ![c] = IF ids[c] = {t} THEN "store" ELSE "claim"]
        /\ UNCHANGED <<memory, table, cur>>
    BY <2>1 DEF Keep, Goto
  <2>4. TypeOK'
    <3>1. results' \in [Client -> [Task -> Status]]
      BY <2>3 DEF TypeOK, memory
    <3>2. pc' \in [Runner -> Labels] /\ ids' \in [Client -> SUBSET Task]
      BY <2>3 DEF TypeOK, Labels
    <3>3. \A d \in Client : pc'[d] = "claim" => ids'[d] # {}
      <4> SUFFICES ASSUME NEW d \in Client, pc'[d] = "claim" PROVE ids'[d] # {}
        OBVIOUS
      <4>1. CASE d = c
        <5>1. ids[c] # {t}
          BY <2>2, <2>3, <4>1 DEF TypeOK
        <5>2. ids[c] \ {t} # {}
          BY <5>1, <2>2
        <5>3. ids'[c] = ids[c] \ {t}
          BY <2>3 DEF TypeOK
        <5> QED
          BY <4>1, <5>2, <5>3
      <4>2. CASE d # c
        BY <2>3, <4>2 DEF TypeOK, Runner
      <4> QED
        BY <4>1, <4>2
    <3> QED
      BY <2>3, <3>1, <3>2, <3>3 DEF TypeOK, memory
  <2>5. OnTask'
    BY <2>2, <2>3 DEF OnTask, TypeOK, Runner
  <2>6. \A s \in Runner : Running(s)' => Running(s) /\ cur'[s] = cur[s]
    BY <2>2, <2>3 DEF Running, TypeOK
  <2>7. Copied'
    BY <2>1, <2>2, <2>3 DEF Copied, TypeOK, Final, memory, vars,
          Promise!Been, Promise!Outcome, Status
  <2> QED
    BY <2>7, <2>3, <2>4, <2>5, <2>6, Quiet DEF memory
<1>10. ASSUME NEW c \in Client, Store(c) PROVE Inv' /\ Stays
  <2>1. PICK t \in Task : /\ table' = [table EXCEPT ![t] = results[c][t]]
                          /\ results' = [results EXCEPT ![c][t] = "NONE"]
    BY <1>10 DEF Store, First, Given
  <2>2. UNCHANGED <<memory, pc, cur, ids>>
    BY <1>10 DEF Store
  <2>3. TypeOK'
    BY <2>1, <2>2 DEF TypeOK, Status, memory
  <2>4. OnTask'
    BY <2>2 DEF OnTask
  <2>5. \A s \in Runner : Running(s)' => Running(s) /\ cur'[s] = cur[s]
    BY <2>2 DEF Running
  <2>6. Copied'
    BY <2>1, <2>2, <2>3 DEF Copied, TypeOK, Final, memory, vars,
          Promise!Been, Promise!Outcome, Status
  <2> QED
    BY <2>6, <2>2, <2>3, <2>4, <2>5, Quiet DEF memory
<1>11. ASSUME NEW c \in Client, Return(c) PROVE Inv' /\ Stays
  <2>1. /\ pc' = [pc EXCEPT ![c] = "idle"] /\ c \in Runner /\ c \notin Task
        /\ UNCHANGED <<memory, table, cur, ids, results>>
    BY <1>11, ActorsAssumption DEF Return, Goto, Runner, ActorsAssumption
  <2>2. TypeOK'
    BY <2>1 DEF TypeOK, Labels, memory
  <2>3. OnTask'
    BY <2>1 DEF OnTask, TypeOK, Runner
  <2>4. \A s \in Runner : Running(s)' => Running(s) /\ cur'[s] = cur[s]
    BY <2>1 DEF Running, TypeOK
  <2>5. Copied'
    BY <2>1 DEF Copied, TypeOK, Final, memory, vars,
          Promise!Been, Promise!Outcome, Status
  <2> QED
    BY <2>5, <2>1, <2>2, <2>3, <2>4, Quiet DEF memory
<1>12. ASSUME NEW c \in Client, StoreRaises(c) PROVE Inv' /\ Stays
  <2>1. PICK t \in Task : table' \in {table, [table EXCEPT ![t] = results[c][t]]}
    BY <1>12 DEF StoreRaises, First, Given
  <2>2. /\ pc' = [pc EXCEPT ![c] = "idle"] /\ c \in Runner /\ c \notin Task
        /\ results' = [results EXCEPT ![c] = NoResults]
        /\ UNCHANGED <<memory, cur, ids>>
    BY <1>12, ActorsAssumption DEF StoreRaises, Goto, Runner, ActorsAssumption
  <2>3. TypeOK'
    BY <2>1, <2>2 DEF TypeOK, Labels, Status, NoResults, memory
  <2>4. OnTask'
    BY <2>2 DEF OnTask, TypeOK, Runner
  <2>5. \A s \in Runner : Running(s)' => Running(s) /\ cur'[s] = cur[s]
    BY <2>2 DEF Running, TypeOK
  <2>6. Copied'
    BY <2>2 DEF Copied, TypeOK, NoResults, memory, Promise!Been
  <2> QED
    BY <2>6, <2>2, <2>3, <2>4, <2>5, Quiet DEF memory
<1> QED
  BY <1>0, <1>1, <1>2, <1>3, <1>4, <1>5, <1>6, <1>7, <1>8, <1>9, <1>10, <1>11, <1>12
     DEF Next, ClientStep, ThreadStep, RunOne, Runner

\* The records, the actors and what they return keep their types, whatever the
\* number of clients and tasks.
THEOREM TaskTypeCorrect == Spec => []TypeOK
<1> QED
  BY InvInit, InvStep, PTL DEF Spec, Inv

\* _run_one's check and claim under the lock give every task to one runner, once,
\* although the list a run_pending goes through is long out of date.
THEOREM TasksHandledOnce == Spec => []HandledOnce
<1> QED
  BY InvInit, InvStep, PTL DEF Spec, Inv

\* A step of the backend is a step of the one-shot task, or changes neither a
\* task's state nor the table.
LEMMA PromisedStep ==
  ASSUME Inv, [Next]_vars
  PROVE  [Promise!Next]_(Promise!vars)
<1> USE DEF Promise!vars
<1>1. CASE UNCHANGED <<status, table>>
  BY <1>1
<1>2. ASSUME NEW c \in Client, NEW t \in Task, Submit(c, t)
      PROVE  Promise!Submit(t)
  BY <1>2 DEF Submit, Promise!Submit, Promise!Move
<1>3. ASSUME NEW r \in Runner, Claim(r)
      PROVE  \E t \in Task : Promise!Start(t)
  <2>1. Turn(r) \subseteq Task
    BY DEF Turn, First, Runner, Inv, TypeOK
  <2> QED
    BY <1>3, <2>1 DEF Claim, Promise!Start, Promise!Move
<1>4. ASSUME NEW r \in Runner, Finish(r)
      PROVE  Promise!End(cur[r]) /\ cur[r] \in Task
  <2>1. cur[r] \in Task /\ status[cur[r]] = "RUNNING"
    BY <1>4 DEF Finish, Inv, Holding, Running
  <2> QED
    BY <1>4, <2>1 DEF Finish, Final, Promise!End, Promise!Move, Promise!Outcome
<1>5. ASSUME NEW c \in Client, Store(c)
      PROVE  \E t \in Task : Promise!Show(t)
  <2>1. PICK t \in Task : results[c][t] # "NONE" /\ table' = [table EXCEPT ![t] = results[c][t]]
    BY <1>5 DEF Store, First, Given
  <2>2. results[c][t] \in Promise!Been(status[t]) /\ UNCHANGED status
    BY <1>5, <2>1 DEF Store, Inv, Copied, memory
  <2> QED
    BY <2>1, <2>2 DEF Promise!Show
<1>6. ASSUME NEW c \in Client, StoreRaises(c)
      PROVE  UNCHANGED <<status, table>> \/ \E t \in Task : Promise!Show(t)
  <2>1. PICK t \in Task : results[c][t] # "NONE" /\ table' \in {table, [table EXCEPT ![t] = results[c][t]]}
    BY <1>6 DEF StoreRaises, First, Given
  <2>2. results[c][t] \in Promise!Been(status[t]) /\ UNCHANGED status
    BY <1>6, <2>1 DEF StoreRaises, Inv, Copied, memory
  <2> QED
    BY <2>1, <2>2 DEF Promise!Show
<1>7. CASE Next
  <2>1. \/ UNCHANGED <<status, table>>
        \/ \E c \in Client, t \in Task : Submit(c, t)
        \/ \E r \in Runner : Claim(r) \/ Finish(r)
        \/ \E c \in Client : Store(c) \/ StoreRaises(c)
    BY <1>7 DEF Next, ClientStep, ThreadStep, RunOne, Runner, RunPending, StartThread,
       SubmitSnapshot, Handle, Taken, Result, Keep, Return, ThreadEnds, memory
  <2> QED
    BY <1>1, <1>2, <1>3, <1>4, <1>5, <1>6, <2>1 DEF Promise!Next
<1> QED
  BY <1>1, <1>7 DEF vars, memory

\* Threads, lists that are out of date and snapshots stored late: for any tasks,
\* clients and limits, the backend implements the one-shot task.
THEOREM TaskImplementsOneShot == Spec => ImplementsOneShotTask
<1>1. Init => Promise!Init
  BY DEF Init, Promise!Init
<1>2. Inv /\ [Next]_vars => [Promise!Next]_(Promise!vars)
  BY PromisedStep
<1> QED
  BY <1>1, <1>2, InvInit, InvStep, PTL DEF Spec, ImplementsOneShotTask, Promise!Spec

\* No submit, claim or late runner takes back the outcome of a task that ended.
THEOREM OutcomesStay == Spec => [][Stays]_vars
<1>1. Spec => []Inv
  BY InvInit, InvStep, PTL DEF Spec
<1>2. Inv /\ [Next]_vars => [Stays]_vars
  BY InvStep
<1> QED
  BY <1>1, <1>2, PTL DEF Spec
=============================================================================
